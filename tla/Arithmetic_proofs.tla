------------------------- MODULE Arithmetic_proofs --------------------------
(***************************************************************************)
(* The field functions are exact for every even word: a result is in       *)
(* 0 .. p again and congruent to the exact one.  So is any chain of them:  *)
(* the word product is taken apart into its columns; sums, differences and *)
(* products of congruent numbers are congruent; then there is one lemma    *)
(* per kind of operation.  Of the inversion the exponent is shown to be    *)
(* p - 2; that this inverts rests on p being prime.                        *)
(*                                                                         *)
(* The scalar of a signature is r - k * h modulo the order, for every      *)
(* order, word size and hash that the assumptions of ScalarArith allow.    *)
(* A Montgomery multiplication divides by R; what the registers hold after *)
(* each of the nine calls is a product of hashes, times R or not.          *)
(*                                                                         *)
(* The signed windows of every word and every width amount to the word:    *)
(* the digits of a scalar are those of a smaller one behind a few more.    *)
(*                                                                         *)
(* The comb takes a bit of the half scalar with every digit and, under a   *)
(* negative sign, a bit less: row after row, what its columns add up to is *)
(* the odd scalar but for what is left, and that ends at zero.             *)
(***************************************************************************)
EXTENDS FieldChain, ExponentChain, ScalarChain, TLAPS, WellFoundedInduction

-----------------------------------------------------------------------------
(* Quotients and remainders by a number that is not a literal. *)

\* What quotient and remainder are.
LEMMA DivMod ==
    ASSUME NEW m \in Nat, m > 0, NEW x \in Int
    PROVE  /\ x % m \in Int /\ x \div m \in Int
           /\ 0 <= x % m /\ x % m < m
           /\ x = m * (x \div m) + (x % m)
OBVIOUS

\* A quotient and a remainder, once guessed, are those.
LEMMA Unique ==
    ASSUME NEW m \in Nat, m > 0, NEW q \in Int, NEW rest \in Int, 0 <= rest, rest < m,
           NEW x \in Int, x = m * q + rest
    PROVE  x % m = rest /\ x \div m = q
OBVIOUS

\* The word and the half word: the top bit of an element is bit 63 of its upper word.
LEMMA HalfWord ==
    \E k \in Nat : Word = 2 * k /\ k >= 2 /\ Top = Word * k /\ Word \div 2 = k
PROOF
<1>1. PICK k \in Nat : Word = 2 * k /\ k >= 2
  BY FieldAssumption
<1>2. Double = 2 * (Word * k) /\ Word * k \in Nat
  BY <1>1 DEF Double
<1>3. Top = Word * k
  BY <1>2 DEF Top
<1> QED BY <1>1, <1>3

\* Two words hold two bits more than p needs.
LEMMA Sizes ==
    /\ Top \in Nat /\ Top >= 4
    /\ Double = 2 * Top
    /\ p \in Nat
PROOF
<1>1. PICK k \in Nat : Word = 2 * k /\ k >= 2 /\ Top = Word * k
  BY HalfWord
<1>2. Double = 2 * Top
  BY <1>1 DEF Double
<1>3. Word * k \in Nat /\ Word * k >= 4
  BY <1>1
<1> QED BY <1>1, <1>2, <1>3 DEF p

\* So that p is odd.
LEMMA TopIsEven == \E k \in Nat : Top = 2 * k
PROOF
<1>1. PICK k \in Nat : Word = 2 * k /\ Top = Word * k
  BY HalfWord
<1>2. Top = 2 * (k * k) /\ k * k \in Nat
  BY <1>1
<1> QED BY <1>2

\* Multiples of the modulus do not count.
LEMMA AddMultiple ==
    ASSUME NEW m \in Nat, m > 0, NEW x \in Int, NEW k \in Int
    PROVE  (x + m * k) % m = x % m
PROOF
<1> DEFINE q == x \div m  rest == x % m
<1>1. q \in Int /\ rest \in Int /\ 0 <= rest /\ rest < m /\ x = m * q + rest
  BY DivMod
<1>2. x + m * k = m * (q + k) + rest
  BY <1>1
<1> HIDE DEF q, rest
<1>3. (x + m * k) % m = rest
  BY <1>1, <1>2, Unique
<1> QED BY <1>3 DEF rest

\* Adding the top bit back subtracts p once, where a sum of two elements reaches it.
LEMMA Folding ==
    ASSUME NEW v \in Int, 0 <= v, v <= 2 * Top - 2
    PROVE  Fold(v) = IF v < Top THEN v ELSE v - p
PROOF
<1>1. Top \in Nat /\ Top >= 4 /\ Double = 2 * Top /\ p = Top - 1
  BY Sizes DEF p
<1>2. CASE v < Top
  <2>1. v % Top = v /\ v \div Top = 0
    BY <1>1, <1>2, Unique
  <2>2. v % Double = v
    BY <1>1, <1>2, Unique
  <2> QED BY <2>1, <2>2, <1>2 DEF Fold
<1>3. CASE v >= Top
  <2>1. v % Top = v - Top /\ v \div Top = 1
    BY <1>1, <1>3, Unique
  <2>2. (v - Top + 1) % Double = v - Top + 1
    BY <1>1, <1>3, Unique
  <2> QED BY <2>1, <2>2, <1>1, <1>3 DEF Fold
<1> QED BY <1>1, <1>2, <1>3

\* fpadd1271 is exact and stays in 0 .. p, carry into bit 127 included.
THEOREM AddExact ==
    ASSUME NEW a \in felm_t, NEW b \in felm_t
    PROVE  /\ fpadd1271(a, b) \in felm_t
           /\ fpadd1271(a, b) % p = (a + b) % p
PROOF
<1>1. Top \in Nat /\ Top >= 4 /\ Double = 2 * Top /\ p = Top - 1 /\ felm_t = 0 .. p
  BY Sizes DEF p, felm_t
<1>2. a + b \in 0 .. 2 * Top - 2
  BY <1>1
<1>3. (a + b) % Double = a + b
  BY <1>1, <1>2, Unique
<1>4. fpadd1271(a, b) = IF a + b < Top THEN a + b ELSE a + b - p
  <2>1. Fold(a + b) = IF a + b < Top THEN a + b ELSE a + b - p
    BY <1>1, <1>2, Folding
  <2> QED BY <2>1, <1>3 DEF fpadd1271
<1>5. (a + b - p) % p = (a + b) % p
  <2>1. (a + b + p * (-1)) % p = (a + b) % p
    BY <1>1, AddMultiple
  <2> QED BY <2>1, <1>1
<1> QED BY <1>1, <1>4, <1>5

\* fpsub1271 is exact and stays in 0 .. p, borrow included.
THEOREM SubExact ==
    ASSUME NEW a \in felm_t, NEW b \in felm_t
    PROVE  /\ fpsub1271(a, b) \in felm_t
           /\ fpsub1271(a, b) % p = (a - b) % p
PROOF
<1>1. Top \in Nat /\ Top >= 4 /\ Double = 2 * Top /\ p = Top - 1 /\ felm_t = 0 .. p
  BY Sizes DEF p, felm_t
<1> DEFINE d == (a - b) % Double
<1>2. CASE a >= b
  <2>1. d = a - b
    BY <1>1, <1>2, Unique
  <2>2. d % Top = a - b /\ d \div Top = 0
    BY <1>1, <1>2, <2>1, Unique
  <2>3. (a - b) % Double = a - b
    BY <2>1
  <2> QED BY <1>1, <1>2, <2>2, <2>3 DEF fpsub1271
<1>3. CASE a < b
  <2>1. d = a - b + 2 * Top
    BY <1>1, <1>3, Unique
  <2>2. d % Top = a - b + Top /\ d \div Top = 1
    BY <1>1, <1>3, <2>1, Unique
  <2>3. (a - b + Top - 1) % Double = a - b + Top - 1
    BY <1>1, <1>3, Unique
  <2>4. fpsub1271(a, b) = a - b + p
    BY <1>1, <2>2, <2>3 DEF fpsub1271
  <2>5. (a - b + p * 1) % p = (a - b) % p
    BY <1>1, AddMultiple
  <2> QED BY <1>1, <1>3, <2>4, <2>5
<1> QED BY <1>1, <1>2, <1>3

\* fpneg1271 is exact; the negative of 0 is p.
THEOREM NegExact ==
    ASSUME NEW a \in felm_t
    PROVE  /\ fpneg1271(a) \in felm_t
           /\ fpneg1271(a) % p = (-a) % p
PROOF
<1>1. Top \in Nat /\ Top >= 4 /\ Double = 2 * Top /\ p = Top - 1 /\ felm_t = 0 .. p
  BY Sizes DEF p, felm_t
<1>2. (p - a) % Double = p - a
  BY <1>1, Unique
<1>3. (-a + p * 1) % p = (-a) % p
  BY <1>1, AddMultiple
<1> QED BY <1>1, <1>2, <1>3 DEF fpneg1271

\* mod1271 leaves one representation of each element, 0 for p as well.
THEOREM ReduceExact ==
    ASSUME NEW a \in felm_t
    PROVE  mod1271(a) = a % p
PROOF
<1>1. Top \in Nat /\ Top >= 4 /\ Double = 2 * Top /\ p = Top - 1 /\ felm_t = 0 .. p
  BY Sizes DEF p, felm_t
<1>2. CASE a = p
  <2>1. (a - p) % Double = 0
    BY <1>1, <1>2, Unique
  <2>2. a % p = 0
    BY <1>1, <1>2, Unique
  <2> QED BY <1>1, <2>1, <2>2 DEF mod1271
<1>3. CASE a < p
  <2>1. (a - p) % Double = a - p + 2 * Top
    BY <1>1, <1>3, Unique
  <2>2. (a - p + 2 * Top + p) % Double = a
    BY <1>1, <1>3, Unique
  <2>3. a % p = a
    BY <1>1, <1>3, Unique
  <2> QED BY <1>1, <1>3, <2>1, <2>2, <2>3 DEF mod1271
<1> QED BY <1>1, <1>2, <1>3

\* fp2div1271 halves each coordinate modulo p.
THEOREM HalveExact ==
    ASSUME NEW a \in felm_t
    PROVE  /\ fpdiv1271(a) \in felm_t
           /\ (2 * fpdiv1271(a)) % p = a % p
PROOF
<1>1. Top \in Nat /\ Top >= 4 /\ Double = 2 * Top /\ p = Top - 1 /\ felm_t = 0 .. p
  BY Sizes DEF p, felm_t
<1>2. PICK k \in Nat : Top = 2 * k
  BY TopIsEven
<1> DEFINE half == a \div 2
<1>3. half \in Int /\ a % 2 \in Int /\ 0 <= a % 2 /\ a % 2 < 2 /\ a = 2 * half + (a % 2)
  BY <1>1, DivMod
<1> HIDE DEF half
<1>4. CASE a % 2 = 1
  <2>1. (a + p) % Double = a + p
    BY <1>1, Unique
  <2>2. (a + p) \div 2 = half + k
    BY <1>1, <1>2, <1>3, <1>4, Unique
  <2>3. fpdiv1271(a) = half + k
    BY <1>4, <2>1, <2>2 DEF fpdiv1271
  <2>4. (a + p * 1) % p = a % p
    BY <1>1, AddMultiple
  <2> QED BY <1>1, <1>2, <1>3, <1>4, <2>3, <2>4
<1>5. CASE a % 2 # 1
  <2>1. a % Double = a
    BY <1>1, Unique
  <2>2. fpdiv1271(a) = half
    BY <1>5, <2>1 DEF fpdiv1271, half
  <2> QED BY <1>1, <1>3, <1>5, <2>2
<1> QED BY <1>4, <1>5

\* take lets one of the results through that the precompile shows to be congruent to a
\* product: the remainder.  A host that supplies any other ends in the panic.
THEOREM HostHasNoChoice ==
    ASSUME NEW v \in Int
    PROVE  Supplied(v) = {v % p}
PROOF
<1>1. Top \in Nat /\ Top >= 4 /\ Double = 2 * Top /\ p = Top - 1 /\ felm_t = 0 .. p
  BY Sizes DEF p, felm_t
<1>2. PICK k \in Nat : Word = 2 * k /\ k >= 2 /\ Top = Word * k /\ Word \div 2 = k
  BY HalfWord
<1>3. \A rest \in 0 .. 2 * Double - 1 : take(rest) <=> rest < p
  <2> TAKE rest \in 0 .. 2 * Double - 1
  <2> DEFINE high == rest \div Word  low == rest % Word
  <2>1. high \in Int /\ low \in Int /\ 0 <= low /\ low < Word /\ rest = Word * high + low
    <3>1. rest \in Int /\ Word \in Nat /\ Word > 0
      BY <1>1, <1>2
    <3> QED BY <3>1, DivMod
  <2>2. rest \div Double = 0 <=> rest < Double
    <3>1. rest < Double => rest \div Double = 0
      BY <1>1, Unique
    <3>2. rest >= Double => rest \div Double = 1
      BY <1>1, Unique
    <3> QED BY <1>1, <3>1, <3>2
  <2> HIDE DEF high, low
  <2>3. high < k - 1 => rest < p
    <3>1. SUFFICES ASSUME high <= k - 2 PROVE rest < p
      BY <1>2, <2>1
    <3>2. Word * high <= Word * (k - 2)
      BY <1>2, <2>1, <3>1
    <3>3. Word * (k - 2) = Top - 2 * Word
      BY <1>2
    <3> QED BY <1>1, <1>2, <2>1, <3>2, <3>3
  <2>4. high = k - 1 => rest = Top - Word + low
    <3>1. Word * (k - 1) = Top - Word
      BY <1>2
    <3> QED BY <1>1, <1>2, <2>1, <3>1
  <2>5. high >= k => rest >= Top
    <3>1. SUFFICES ASSUME high >= k PROVE rest >= Top
      OBVIOUS
    <3>2. Word * high >= Word * k
      BY <1>2, <2>1, <3>1
    <3> QED BY <1>1, <1>2, <2>1, <3>2
  <2>6. take(rest) <=> rest < Double /\ (high < k - 1 \/ (high = k - 1 /\ low # Word - 1))
    <3>1. take(rest) <=> /\ rest \div Double = 0
                      /\ \/ high < (Word \div 2) - 1
                         \/ high = (Word \div 2) - 1 /\ low # Word - 1
      BY DEF take, high, low
    <3> QED BY <1>2, <2>2, <3>1
  <2> QED BY <1>1, <1>2, <2>1, <2>3, <2>4, <2>5, <2>6
<1>4. v % p \in 0 .. p - 1
  BY <1>1, DivMod
<1>5. \A rest \in 0 .. p - 1 : rest % p = rest
  BY <1>1, Unique
<1>6. \A rest : rest \in Supplied(v) <=> rest \in 0 .. 2 * Double - 1 /\ rest % p = v % p /\ rest < p
  BY <1>3 DEF Supplied
<1> HIDE DEF take
<1>7. v % p \in Supplied(v)
  <2> DEFINE remainder == v % p
  <2>1. remainder \in 0 .. p - 1 /\ remainder % p = remainder
    BY <1>4, <1>5
  <2>2. remainder \in 0 .. 2 * Double - 1 /\ remainder < p
    BY <1>1, <2>1
  <2>3. QED
    BY <1>6, <2>1, <2>2
<1>8. \A rest \in Supplied(v) : rest \in 0 .. p - 1 /\ rest % p = v % p
  BY <1>1, <1>6
<1>9. \A rest \in Supplied(v) : rest = v % p
  BY <1>5, <1>8
<1> QED BY <1>7, <1>9

-----------------------------------------------------------------------------
(* The product and the chain.                                              *)

\* A product of two bounded numbers.
LEMMA ProductBound ==
    ASSUME NEW x \in Nat, NEW y \in Nat, NEW m \in Nat, NEW n \in Nat, x <= m, y <= n
    PROVE  x * y \in Nat /\ x * y <= m * n
PROOF
<1>1. x * y <= m * y
  OBVIOUS
<1>2. m * y <= m * n
  OBVIOUS
<1> QED BY <1>1, <1>2

\* The four word products of fpmul1271, its columns and its fold: no column or carry is
\* lost to 128 bits, and what comes out is an element congruent to the product.
THEOREM MulWordsExact ==
    ASSUME NEW a \in felm_t, NEW b \in felm_t
    PROVE  /\ fpmulWords(a, b) \in felm_t
           /\ fpmulWords(a, b) % p = (a * b) % p
PROOF
<1>1. PICK k \in Nat : Word = 2 * k /\ k >= 2 /\ Top = Word * k /\ Word \div 2 = k
  BY HalfWord
<1>2. Top \in Nat /\ Top >= 4 /\ Double = 2 * Top /\ p = Top - 1 /\ felm_t = 0 .. p
  BY Sizes DEF p, felm_t
<1> DEFINE a0 == a % Word  a1 == a \div Word
           b0 == b % Word  b1 == b \div Word
<1>3. /\ a0 \in 0 .. Word - 1 /\ a1 \in 0 .. k - 1 /\ a = Word * a1 + a0
      /\ b0 \in 0 .. Word - 1 /\ b1 \in 0 .. k - 1 /\ b = Word * b1 + b0
  <2>1. \A c \in felm_t : /\ c % Word \in 0 .. Word - 1 /\ c \div Word \in 0 .. k - 1
                          /\ c = Word * (c \div Word) + (c % Word)
    <3> SUFFICES ASSUME NEW c \in felm_t
                 PROVE  /\ c % Word \in 0 .. Word - 1 /\ c \div Word \in 0 .. k - 1
                        /\ c = Word * (c \div Word) + (c % Word)
      OBVIOUS
    <3>1. c \in Int /\ Word \in Nat /\ Word > 0 /\ 0 <= c /\ c < Word * k
      BY <1>1, <1>2
    <3> DEFINE high == c \div Word  low == c % Word
    <3>2. high \in Int /\ low \in Int /\ 0 <= low /\ low < Word /\ c = Word * high + low
      BY <3>1, DivMod
    <3> HIDE DEF high, low
    <3>3. high >= 0
      <4>1. SUFFICES ASSUME high <= -1 PROVE FALSE
        BY <3>2
      <4>2. Word * high <= Word * (-1)
        BY <3>1, <3>2, <4>1
      <4> QED BY <3>1, <3>2, <4>2
    <3>4. high <= k - 1
      <4>1. SUFFICES ASSUME high >= k PROVE FALSE
        BY <3>2
      <4>2. Word * high >= Word * k
        BY <3>1, <3>2, <4>1
      <4> QED BY <3>1, <3>2, <4>2
    <3> QED BY <1>1, <3>1, <3>2, <3>3, <3>4 DEF high, low
  <2> QED BY <2>1
<1> DEFINE low == a0 * b0
           L0 == low % Word  L1 == low \div Word
<1>4. /\ low \in Nat /\ low <= (Word - 1) * (Word - 1)
      /\ L0 \in 0 .. Word - 1 /\ L1 \in 0 .. Word - 1 /\ low = Word * L1 + L0
  <2>1. a0 \in Nat /\ b0 \in Nat /\ a0 <= Word - 1 /\ b0 <= Word - 1 /\ Word - 1 \in Nat
    BY <1>1, <1>3
  <2> HIDE DEF a0, b0
  <2>2. low \in Nat /\ low <= (Word - 1) * (Word - 1)
    BY <2>1, ProductBound
  <2> HIDE DEF low
  <2>3. L0 \in Int /\ L1 \in Int /\ 0 <= L0 /\ L0 < Word /\ low = Word * L1 + L0
    BY <1>1, <2>2, DivMod
  <2> HIDE DEF L0, L1
  <2>4. L1 >= 0
    <3>1. SUFFICES ASSUME L1 <= -1 PROVE FALSE
      BY <2>3
    <3>2. Word * L1 <= Word * (-1)
      BY <1>1, <2>3, <3>1
    <3> QED BY <1>1, <2>2, <2>3, <3>2
  <2>5. L1 <= Word - 1
    <3>1. SUFFICES ASSUME L1 >= Word PROVE FALSE
      BY <1>1, <2>3
    <3>2. Word * L1 >= Word * Word
      BY <1>1, <2>3, <3>1
    <3>3. (Word - 1) * (Word - 1) = Word * Word - 2 * Word + 1
      BY <1>1
    <3> QED BY <1>1, <2>2, <2>3, <3>2, <3>3
  <2> QED BY <1>1, <2>2, <2>3, <2>4, <2>5
<1> HIDE DEF a0, a1, b0, b1
<1> DEFINE first == a0 * b1  second == a1 * b0  high == a1 * b1
<1>5. /\ first \in Nat /\ first <= (Word - 1) * (k - 1)
      /\ second \in Nat /\ second <= (k - 1) * (Word - 1)
      /\ high \in Nat /\ high <= (k - 1) * (k - 1)
  <2>1. /\ a0 \in Nat /\ b0 \in Nat /\ a0 <= Word - 1 /\ b0 <= Word - 1 /\ Word - 1 \in Nat
        /\ a1 \in Nat /\ b1 \in Nat /\ a1 <= k - 1 /\ b1 <= k - 1 /\ k - 1 \in Nat
    BY <1>1, <1>3
  <2> QED BY <2>1, ProductBound
<1>6. /\ (Word - 1) * (k - 1) = Top - Word - k + 1
      /\ (k - 1) * (Word - 1) = Top - Word - k + 1
      /\ 2 * ((k - 1) * (k - 1)) = Top - 4 * k + 2
      /\ k * (4 * k) = 2 * Top
  BY <1>1
<1> HIDE DEF low, L0, L1, first, second, high
<1> DEFINE mid == first + L1 + second
           m0 == mid % k  m1 == mid \div k
<1>7. /\ (first + L1) % Double = first + L1
      /\ mid % Double = mid
      /\ mid \in Nat /\ mid <= 2 * Top - 4 * k + 1
  <2>1. mid \in Nat /\ mid <= 2 * Top - 4 * k + 1
    BY <1>1, <1>4, <1>5, <1>6
  <2>2. first + L1 \in Nat /\ first + L1 < Double
    BY <1>1, <1>2, <1>4, <1>5, <1>6
  <2>3. mid < Double
    BY <1>1, <1>2, <2>1
  <2> HIDE DEF mid
  <2>4. mid % Double = mid
    BY <1>2, <2>1, <2>3, Unique
  <2>5. (first + L1) % Double = first + L1
    BY <1>2, <2>2, Unique
  <2> QED BY <2>1, <2>4, <2>5
<1> HIDE DEF mid
<1>8. /\ m0 \in 0 .. k - 1 /\ m1 \in 0 .. 4 * k - 4 /\ mid = k * m1 + m0
  <2>1. m0 \in Int /\ m1 \in Int /\ 0 <= m0 /\ m0 < k /\ mid = k * m1 + m0
    BY <1>1, <1>7, DivMod
  <2> HIDE DEF m0, m1
  <2>2. m1 >= 0
    <3>1. SUFFICES ASSUME m1 <= -1 PROVE FALSE
      BY <2>1
    <3>2. k * m1 <= k * (-1)
      BY <1>1, <2>1, <3>1
    <3> QED BY <1>1, <1>7, <2>1, <3>2
  <2>3. m1 <= 4 * k - 4
    <3>1. SUFFICES ASSUME m1 >= 4 * k - 3 PROVE FALSE
      BY <1>1, <2>1
    <3>2. k * m1 >= k * (4 * k - 3)
      BY <1>1, <2>1, <3>1
    <3>3. k * (4 * k - 3) = 2 * Top - 3 * k
      BY <1>1, <1>6
    <3> QED BY <1>1, <1>7, <2>1, <3>2, <3>3
  <2> QED BY <1>1, <2>1, <2>2, <2>3
<1> HIDE DEF m0, m1
<1> DEFINE carried == 2 * high + m1
           v == L0 + Word * m0 + carried
<1>9. carried % Double = carried /\ carried \in Nat /\ carried <= Top - 2
  <2>1. carried \in Nat /\ carried <= Top - 2
    BY <1>1, <1>2, <1>5, <1>6, <1>8
  <2> HIDE DEF carried
  <2> QED BY <1>2, <2>1, Unique
<1>10. v \in Nat /\ v <= 2 * Top - 3 /\ v % Double = v
  <2>1. Word * m0 \in Nat /\ Word * m0 <= Word * (k - 1)
    BY <1>1, <1>8
  <2>2. Word * (k - 1) = Top - Word
    BY <1>1
  <2> HIDE DEF carried
  <2> DEFINE middle == Word * m0
  <2>a. v = L0 + middle + carried
    OBVIOUS
  <2>b. middle \in Nat /\ middle <= Top - Word
    BY <2>1, <2>2
  <2>c. L0 \in Nat /\ L0 <= Word - 1 /\ Word \in Nat
    BY <1>1, <1>4
  <2> HIDE DEF middle
  <2>d. L0 + middle + carried \in Nat /\ L0 + middle + carried <= 2 * Top - 3
    BY <1>2, <1>9, <2>b, <2>c
  <2>3. v \in Nat /\ v <= 2 * Top - 3
    BY <2>a, <2>d
  <2> HIDE DEF v
  <2> QED BY <1>2, <2>3, Unique
<1>11. fpmulWords(a, b) = Fold(v)
  <2>1. fpmulWords(a, b) = FoldColumns(L0, (((first + L1) % Double) + second) % Double, high)
    BY DEF fpmulWords, a0, a1, b0, b1, low, L0, L1, first, second, high
  <2>2. (((first + L1) % Double) + second) % Double = mid
    BY <1>7 DEF mid
  <2>3. FoldColumns(L0, mid, high) = Fold((L0 + Word * m0 + ((2 * high + m1) % Double)) % Double)
    BY <1>1 DEF FoldColumns, m0, m1
  <2> QED BY <1>9, <1>10, <2>1, <2>2, <2>3
<1>12. a * b = v + p * (2 * high + m1)
  <2>1. a * b = Word * Word * high + Word * (first + second) + low
    BY <1>1, <1>3 DEF first, second, high, low
  <2>2. Word * Word = 2 * Top
    BY <1>1
  <2>3. Word * (first + second) + low = Word * mid + L0
    BY <1>1, <1>4, <1>5 DEF mid
  <2>4. Word * mid = Top * m1 + Word * m0
    BY <1>1, <1>8
  <2>5. a * b = 2 * Top * high + Top * m1 + Word * m0 + L0
    <3>1. a * b = Word * Word * high + (Word * (first + second) + low)
      BY <1>1, <1>4, <1>5, <2>1
    <3>2. Word * Word * high = 2 * Top * high
      BY <2>2
    <3>3. a * b = 2 * Top * high + (Word * mid + L0)
      BY <2>3, <3>1, <3>2
    <3>4. a * b = 2 * Top * high + (Top * m1 + Word * m0 + L0)
      <4>1. Word * mid + L0 = Top * m1 + Word * m0 + L0
        BY <2>4
      <4> QED BY <3>3, <4>1
    <3>5. 2 * Top * high \in Int /\ Top * m1 \in Int /\ Word * m0 \in Int /\ L0 \in Int
      BY <1>1, <1>2, <1>4, <1>5, <1>8
    <3> QED BY <3>4, <3>5
  <2>6. p * (2 * high + m1) = 2 * Top * high + Top * m1 - (2 * high + m1)
    BY <1>2, <1>5, <1>8
  <2> QED BY <1>1, <1>2, <1>4, <1>5, <1>8, <2>5, <2>6
<1> HIDE DEF v
<1>13. Fold(v) = IF v < Top THEN v ELSE v - p
  BY <1>2, <1>10, Folding
<1>14. (a * b) % p = v % p
  <2>1. 2 * high + m1 \in Int /\ p \in Nat /\ p > 0 /\ v \in Int
    BY <1>2, <1>5, <1>8, <1>10
  <2> QED BY <1>12, <2>1, AddMultiple
<1>15. (v - p) % p = v % p
  <2>1. (v + p * (-1)) % p = v % p
    BY <1>2, <1>10, AddMultiple
  <2> QED BY <1>2, <1>10, <2>1
<1> QED BY <1>2, <1>10, <1>11, <1>13, <1>14, <1>15

\* fpsqrWords is the product with the two middle columns added in the other order.
LEMMA SquareIsProduct ==
    ASSUME NEW a \in felm_t
    PROVE  fpsqrWords(a) = fpmulWords(a, a)
PROOF
<1> DEFINE a0 == a % Word  a1 == a \div Word
           L1 == (a0 * a0) \div Word
           once == (a0 * a1 + L1) % Double
<1>1. a \in Int /\ Word \in Nat /\ Word > 0
  BY Sizes, FieldAssumption DEF felm_t
<1>2. a0 \in Int /\ a1 \in Int
  BY <1>1, DivMod
<1> HIDE DEF a0, a1
<1>3. a0 * a0 \in Int
  BY <1>2
<1>4. L1 \in Int
  BY <1>1, <1>3, DivMod
<1>5. Double \in Nat /\ Double > 0
  BY Sizes
<1>6. once \in Int
  <2> HIDE DEF L1
  <2>1. a0 * a1 + L1 \in Int
    BY <1>2, <1>4
  <2> QED BY <1>5, <2>1, DivMod
<1>7. fpsqrWords(a) = FoldColumns((a0 * a0) % Word, (a0 * a1 + once) % Double, a1 * a1)
  BY DEF fpsqrWords, a0, a1
<1>8. fpmulWords(a, a) = FoldColumns((a0 * a0) % Word, (once + a1 * a0) % Double, a1 * a1)
  BY DEF fpmulWords, a0, a1
<1> HIDE DEF once
<1>9. a0 * a1 + once = once + a1 * a0
  BY <1>2, <1>6
<1> QED BY <1>7, <1>8, <1>9

\* The modulus, the type of an element, and what a remainder is.
LEMMA Elements ==
    /\ p \in Nat /\ p >= 3 /\ felm_t = 0 .. p
    /\ \A x \in Int : x % p \in 0 .. p - 1
    /\ \A x \in 0 .. p - 1 : x % p = x
PROOF
<1>1. p \in Nat /\ p >= 3 /\ felm_t = 0 .. p
  BY Sizes DEF p, felm_t
<1>2. \A x \in Int : x % p \in 0 .. p - 1
  BY <1>1, DivMod
<1>3. \A x \in 0 .. p - 1 : x % p = x
  BY <1>1, Unique
<1> QED BY <1>1, <1>2, <1>3

\* Congruent numbers differ by a multiple of p.
LEMMA Congruent ==
    ASSUME NEW x \in Int, NEW u \in Int, x % p = u % p
    PROVE  \E k \in Int : x = u + p * k
PROOF
<1>1. p \in Nat /\ p > 0
  BY Elements
<1> DEFINE a == x \div p  c == u \div p  rest == x % p
<1>2. a \in Int /\ rest \in Int /\ x = p * a + rest
  BY <1>1, DivMod
<1>3. c \in Int /\ u = p * c + rest
  BY <1>1, DivMod
<1> HIDE DEF a, c, rest
<1>4. a - c \in Int /\ x = u + p * (a - c)
  BY <1>1, <1>2, <1>3
<1> QED BY <1>4

\* And the converse.
LEMMA Apart ==
    ASSUME NEW x \in Int, NEW u \in Int, NEW k \in Int, x = u + p * k
    PROVE  x % p = u % p
PROOF
<1>1. (u + p * k) % p = u % p
  <2>1. p \in Nat /\ p > 0
    BY Elements
  <2> QED BY <2>1, AddMultiple
<1> QED BY <1>1

\* Sums, differences and products may be taken of any congruent numbers.
LEMMA Modulo ==
    ASSUME NEW x \in Int, NEW y \in Int, NEW u \in Int, NEW v \in Int,
           x % p = u % p, y % p = v % p
    PROVE  /\ (x + y) % p = (u + v) % p
           /\ (x - y) % p = (u - v) % p
           /\ (x * y) % p = (u * v) % p
PROOF
<1>1. p \in Nat /\ p > 0
  BY Elements
<1>2. PICK k \in Int : x = u + p * k
  BY Congruent
<1>3. PICK l \in Int : y = v + p * l
  BY Congruent
<1>4. /\ x + y = (u + v) + p * (k + l)
      /\ x - y = (u - v) + p * (k - l)
      /\ x * y = (u * v) + p * (k * v + u * l + p * (k * l))
  BY <1>1, <1>2, <1>3
<1>5. (x + y) % p = (u + v) % p
  <2> DEFINE w == x + y  sum == u + v  m == k + l
  <2>1. w \in Int /\ sum \in Int /\ m \in Int /\ w = sum + p * m
    BY <1>2, <1>3, <1>4
  <2> HIDE DEF w, sum, m
  <2>2. w % p = sum % p
    BY <2>1, Apart
  <2> QED BY <2>2 DEF w, sum
<1>6. (x - y) % p = (u - v) % p
  <2> DEFINE w == x - y  sum == u - v  m == k - l
  <2>1. w \in Int /\ sum \in Int /\ m \in Int /\ w = sum + p * m
    BY <1>2, <1>3, <1>4
  <2> HIDE DEF w, sum, m
  <2>2. w % p = sum % p
    BY <2>1, Apart
  <2> QED BY <2>2 DEF w, sum
<1>7. (x * y) % p = (u * v) % p
  <2> DEFINE m == k * v + u * l + p * (k * l)
  <2>1. u * v \in Int /\ m \in Int
    BY <1>1, <1>2, <1>3
  <2> HIDE DEF m
  <2>2. (u * v + p * m) % p = (u * v) % p
    BY <1>1, <2>1, AddMultiple
  <2> QED BY <1>4, <2>2 DEF m
<1> QED BY <1>5, <1>6, <1>7

\* And negatives.
LEMMA NegativeModulo ==
    ASSUME NEW x \in Int, NEW u \in Int, x % p = u % p
    PROVE  (-x) % p = (-u) % p
PROOF
<1>1. PICK k \in Int : x = u + p * k
  BY Congruent
<1> DEFINE a == -x  b == -u  l == -k
<1>2. p * l = -(p * k) /\ p * k \in Int
  BY Elements
<1>3. a \in Int /\ b \in Int /\ l \in Int /\ a = b + p * l
  BY <1>1, <1>2
<1> HIDE DEF a, b, l
<1>4. a % p = b % p
  BY <1>3, Apart
<1> QED BY <1>4 DEF a, b

\* Both builds of fpmul1271 and fpsqr1271 give an element congruent to the product.
THEOREM MulExact ==
    ASSUME NEW a \in felm_t, NEW b \in felm_t
    PROVE  /\ fpmul1271(a, b) \in felm_t
           /\ fpmul1271(a, b) % p = (a * b) % p
           /\ fpsqr1271(a) \in felm_t
           /\ fpsqr1271(a) % p = (a * a) % p
PROOF
<1>1. a * b \in Int /\ a * a \in Int
  BY Elements
<1>2. \A x \in Int : x % p \in felm_t /\ (x % p) % p = x % p
  <2> SUFFICES ASSUME NEW x \in Int
               PROVE  x % p \in felm_t /\ (x % p) % p = x % p
    OBVIOUS
  <2> DEFINE rest == x % p
  <2>1. rest \in 0 .. p - 1
    BY Elements
  <2> HIDE DEF rest
  <2>2. rest \in felm_t /\ rest % p = rest
    BY <2>1, Elements
  <2> QED BY <2>2 DEF rest
<1>3. CASE ZKQ_BIGINT2
  BY <1>1, <1>2, <1>3 DEF fpmul1271, fpsqr1271, zkq_fpmul1271
<1>4. CASE ~ZKQ_BIGINT2
  BY <1>4, MulWordsExact, SquareIsProduct DEF fpmul1271, fpsqr1271
<1> QED BY <1>3, <1>4

-----------------------------------------------------------------------------
(* The chain. *)

\* A remainder is congruent to what it is the remainder of.
LEMMA Remainder ==
    ASSUME NEW x \in Int
    PROVE  x % p \in Int /\ x % p \in felm_t /\ (x % p) % p = x % p
PROOF
<1> DEFINE rest == x % p
<1>1. rest \in 0 .. p - 1
  BY Elements
<1> HIDE DEF rest
<1>2. rest \in Int /\ rest \in felm_t /\ rest % p = rest
  BY <1>1, Elements
<1> QED BY <1>2 DEF rest

\* The product of fp2mul1271, with three products in place of four, and the precompile's.
LEMMA Mul2Exact ==
    ASSUME NEW a \in felm_t, NEW b \in felm_t, NEW c \in felm_t, NEW d \in felm_t
    PROVE  \E x \in felm_t, y \in felm_t :
              /\ fp2mul1271(<<a, b>>, <<c, d>>) = <<x, y>>
              /\ x % p = (a * c - b * d) % p
              /\ y % p = (a * d + b * c) % p
PROOF
<1>1. a \in Int /\ b \in Int /\ c \in Int /\ d \in Int
  BY Elements
<1>2. CASE ZKQ_BIGINT2
  <2> DEFINE u == a * c - b * d  v == a * d + b * c
  <2>1. u \in Int /\ v \in Int
    BY <1>1
  <2>2. fp2mul1271(<<a, b>>, <<c, d>>) = <<u % p, v % p>>
    BY <1>2 DEF fp2mul1271, zkq_fp2mul1271
  <2> HIDE DEF u, v
  <2>3. u % p \in felm_t /\ v % p \in felm_t /\ (u % p) % p = u % p /\ (v % p) % p = v % p
    BY <2>1, Remainder
  <2> QED BY <2>2, <2>3 DEF u, v
<1>3. CASE ~ZKQ_BIGINT2
  <2> DEFINE t1 == fpmul1271(a, c)  t2 == fpmul1271(b, d)
             m == fpadd1271(a, b)  n == fpadd1271(c, d)
             t3 == fpmul1271(m, n)
             x == fpsub1271(t1, t2)
             w == fpsub1271(t3, t1)
             y == fpsub1271(w, t2)
  <2>1. fp2mul1271(<<a, b>>, <<c, d>>) = <<x, y>>
    BY <1>3 DEF fp2mul1271
  <2>2. /\ m \in felm_t /\ m % p = (a + b) % p
        /\ n \in felm_t /\ n % p = (c + d) % p
        /\ t1 \in felm_t /\ t1 % p = (a * c) % p
        /\ t2 \in felm_t /\ t2 % p = (b * d) % p
    BY AddExact, MulExact
  <2> HIDE DEF m, n, t1, t2
  <2>3. t3 \in felm_t /\ t3 % p = (m * n) % p
    BY <2>2, MulExact
  <2> HIDE DEF t3
  <2>4. /\ x \in felm_t /\ x % p = (t1 - t2) % p
        /\ w \in felm_t /\ w % p = (t3 - t1) % p
    BY <2>2, <2>3, SubExact
  <2> HIDE DEF x, w
  <2>5. y \in felm_t /\ y % p = (w - t2) % p
    BY <2>2, <2>4, SubExact
  <2> HIDE DEF y
  <2>6. m \in Int /\ n \in Int /\ t1 \in Int /\ t2 \in Int /\ t3 \in Int /\ w \in Int
    BY <2>2, <2>3, <2>4, Elements
  <2> DEFINE As == a + b  Bs == c + d  Cs == a * c  Ds == b * d
  <2>7. As \in Int /\ Bs \in Int /\ Cs \in Int /\ Ds \in Int /\ As * Bs \in Int
    BY <1>1
  <2>8. As * Bs - Cs - Ds = a * d + b * c
    BY <1>1
  <2>9. m % p = As % p /\ n % p = Bs % p /\ t1 % p = Cs % p /\ t2 % p = Ds % p
    BY <2>2
  <2>10. Cs - Ds = a * c - b * d
    OBVIOUS
  <2> HIDE DEF As, Bs, Cs, Ds
  <2>11. x % p = (Cs - Ds) % p
    <3>1. (t1 - t2) % p = (Cs - Ds) % p
      BY <2>6, <2>7, <2>9, Modulo
    <3> QED BY <2>4, <3>1
  <2>12. t3 % p = (As * Bs) % p
    <3>1. (m * n) % p = (As * Bs) % p
      BY <2>6, <2>7, <2>9, Modulo
    <3> QED BY <2>3, <3>1
  <2>13. w % p = (As * Bs - Cs) % p
    <3> DEFINE product == As * Bs
    <3>1. product \in Int /\ t3 % p = product % p
      BY <2>7, <2>12
    <3> HIDE DEF product
    <3>2. (t3 - t1) % p = (product - Cs) % p
      BY <2>6, <2>7, <2>9, <3>1, Modulo
    <3> QED BY <2>4, <3>2 DEF product
  <2>14. As * Bs - Cs \in Int
    BY <2>7
  <2>15. y % p = (As * Bs - Cs - Ds) % p
    BY <2>5, <2>6, <2>7, <2>9, <2>13, <2>14, Modulo
  <2> QED BY <2>1, <2>4, <2>5, <2>8, <2>10, <2>11, <2>15
<1> QED BY <1>2, <1>3

\* The square of fp2sqr1271, as (a + b)(a - b) and 2ab, and the precompile's.
LEMMA Sqr2Exact ==
    ASSUME NEW a \in felm_t, NEW b \in felm_t
    PROVE  \E x \in felm_t, y \in felm_t :
              /\ fp2sqr1271(<<a, b>>) = <<x, y>>
              /\ x % p = (a * a - b * b) % p
              /\ y % p = (2 * a * b) % p
PROOF
<1>1. a \in Int /\ b \in Int
  BY Elements
<1>2. CASE ZKQ_BIGINT2
  <2> DEFINE u == a * a - b * b  v == a * b + b * a
  <2>1. u \in Int /\ v \in Int /\ v = 2 * a * b
    BY <1>1
  <2>2. fp2sqr1271(<<a, b>>) = <<u % p, v % p>>
    BY <1>2 DEF fp2sqr1271, zkq_fp2mul1271
  <2> HIDE DEF u, v
  <2>3. u % p \in felm_t /\ v % p \in felm_t /\ (u % p) % p = u % p /\ (v % p) % p = v % p
    BY <2>1, Remainder
  <2> QED BY <2>1, <2>2, <2>3 DEF u
<1>3. CASE ~ZKQ_BIGINT2
  <2> DEFINE t3 == fpmul1271(a, b)
             m == fpadd1271(a, b)  n == fpsub1271(a, b)
             x == fpmul1271(m, n)
             y == fpadd1271(t3, t3)
  <2>1. fp2sqr1271(<<a, b>>) = <<x, y>>
    BY <1>3 DEF fp2sqr1271
  <2>2. /\ m \in felm_t /\ m % p = (a + b) % p
        /\ n \in felm_t /\ n % p = (a - b) % p
        /\ t3 \in felm_t /\ t3 % p = (a * b) % p
    BY AddExact, SubExact, MulExact
  <2> HIDE DEF m, n, t3
  <2>3. /\ x \in felm_t /\ x % p = (m * n) % p
        /\ y \in felm_t /\ y % p = (t3 + t3) % p
    BY <2>2, AddExact, MulExact
  <2> HIDE DEF x, y
  <2>4. m \in Int /\ n \in Int /\ t3 \in Int
    BY <2>2, Elements
  <2> DEFINE As == a + b  Bs == a - b  Cs == a * b
  <2>5. As \in Int /\ Bs \in Int /\ Cs \in Int
    BY <1>1
  <2>6. As * Bs = a * a - b * b /\ Cs + Cs = 2 * a * b
    BY <1>1
  <2>7. m % p = As % p /\ n % p = Bs % p /\ t3 % p = Cs % p
    BY <2>2
  <2> HIDE DEF As, Bs, Cs
  <2>8. x % p = (As * Bs) % p
    BY <2>3, <2>4, <2>5, <2>7, Modulo
  <2>9. y % p = (Cs + Cs) % p
    BY <2>3, <2>4, <2>5, <2>7, Modulo
  <2> QED BY <2>1, <2>3, <2>6, <2>8, <2>9
<1> QED BY <1>2, <1>3

\* Half a number is one number: p is odd.
LEMMA HalfIsOne ==
    ASSUME NEW x \in Int, NEW y \in Int, (2 * x) % p = (2 * y) % p
    PROVE  x % p = y % p
PROOF
<1>1. PICK k \in Int : 2 * x = 2 * y + p * k
  BY Congruent
<1>2. PICK n \in Nat : Top = 2 * n
  BY TopIsEven
<1>3. p = 2 * n - 1
  BY <1>2 DEF p
<1> DEFINE l == n * k - x + y
<1>4. l \in Int /\ k = 2 * l
  BY <1>1, <1>2, <1>3
<1> HIDE DEF l
<1>5. p * k = 2 * (p * l) /\ p * l \in Int
  BY <1>4, Elements
<1>6. x = y + p * l
  BY <1>1, <1>5
<1> QED BY <1>4, <1>6, Apart

\* What AccIsExact says at any state.
LEMMA Holding ==
    ASSUME AccIsExact
    PROVE  \E c \in felm_t, d \in felm_t : acc = <<c, d>> /\ exact = <<c % p, d % p>>
BY DEF AccIsExact, Exactly, f2elm_t

\* What an operation must do to establish it.
LEMMA Establishing ==
    ASSUME NEW x \in felm_t, NEW y \in felm_t, NEW u \in Int, NEW v \in Int,
           x % p = u % p, y % p = v % p,
           acc' = <<x, y>>, exact' = Exactly(u, v)
    PROVE  AccIsExact'
PROOF
<1>1. mod1271(x) = x % p /\ mod1271(y) = y % p
  BY ReduceExact
<1>2. acc' \in f2elm_t
  BY DEF f2elm_t
<1> QED BY <1>1, <1>2 DEF AccIsExact, Exactly

\* The operands are elements.
LEMMA OperandsAreElements ==
    ASSUME NEW b \in Operands
    PROVE  \E e \in felm_t, f \in felm_t : b = <<e, f>>
BY ChainAssumption DEF f2elm_t

\* The additive operations keep the register exact: on a carry out of 127 bits, on a
\* borrow, and when a coordinate is p.
LEMMA SumsAreExact ==
    ASSUME AccIsExact, NEW b \in Operands, Add(b) \/ Sub(b) \/ SubFrom(b) \/ AddSub(b)
    PROVE  AccIsExact'
PROOF
<1>1. PICK c \in felm_t, d \in felm_t : acc = <<c, d>> /\ exact = <<c % p, d % p>>
  BY Holding
<1>2. PICK e \in felm_t, f \in felm_t : b = <<e, f>>
  BY OperandsAreElements
<1>3. c \in Int /\ d \in Int /\ e \in Int /\ f \in Int
  BY Elements
<1> DEFINE Cs == c % p  Ds == d % p
<1>4. Cs \in Int /\ Ds \in Int /\ Cs % p = c % p /\ Ds % p = d % p
  BY <1>3, Remainder
<1>5. acc = <<c, d>> /\ exact = <<Cs, Ds>>
  BY <1>1
<1> HIDE DEF Cs, Ds
<1>6. CASE Add(b)
  <2> DEFINE x == fpadd1271(c, e)  y == fpadd1271(d, f)
  <2>1. x \in felm_t /\ y \in felm_t /\ x % p = (c + e) % p /\ y % p = (d + f) % p
    BY AddExact
  <2>2. acc' = <<x, y>> /\ exact' = Exactly(Cs + e, Ds + f)
    BY <1>2, <1>5, <1>6 DEF Add, fp2add1271
  <2>3. (c + e) % p = (Cs + e) % p /\ (d + f) % p = (Ds + f) % p
    BY <1>3, <1>4, Modulo
  <2> HIDE DEF x, y
  <2>4. Cs + e \in Int /\ Ds + f \in Int
    BY <1>3, <1>4
  <2> QED BY <2>1, <2>2, <2>3, <2>4, Establishing
<1>7. CASE Sub(b)
  <2> DEFINE x == fpsub1271(c, e)  y == fpsub1271(d, f)
  <2>1. x \in felm_t /\ y \in felm_t /\ x % p = (c - e) % p /\ y % p = (d - f) % p
    BY SubExact
  <2>2. acc' = <<x, y>> /\ exact' = Exactly(Cs - e, Ds - f)
    BY <1>2, <1>5, <1>7 DEF Sub, fp2sub1271
  <2>3. (c - e) % p = (Cs - e) % p /\ (d - f) % p = (Ds - f) % p
    BY <1>3, <1>4, Modulo
  <2> HIDE DEF x, y
  <2>4. Cs - e \in Int /\ Ds - f \in Int
    BY <1>3, <1>4
  <2> QED BY <2>1, <2>2, <2>3, <2>4, Establishing
<1>8. CASE SubFrom(b)
  <2> DEFINE x == fpsub1271(e, c)  y == fpsub1271(f, d)
  <2>1. x \in felm_t /\ y \in felm_t /\ x % p = (e - c) % p /\ y % p = (f - d) % p
    BY SubExact
  <2>2. acc' = <<x, y>> /\ exact' = Exactly(e - Cs, f - Ds)
    BY <1>2, <1>5, <1>8 DEF SubFrom, fp2sub1271
  <2>3. (e - c) % p = (e - Cs) % p /\ (f - d) % p = (f - Ds) % p
    BY <1>3, <1>4, Modulo
  <2> HIDE DEF x, y
  <2>4. e - Cs \in Int /\ f - Ds \in Int
    BY <1>3, <1>4
  <2> QED BY <2>1, <2>2, <2>3, <2>4, Establishing
<1>9. CASE AddSub(b)
  <2> DEFINE cc == fpadd1271(c, c)  dd == fpadd1271(d, d)
             x == fpsub1271(cc, e)  y == fpsub1271(dd, f)
  <2>1. /\ cc \in felm_t /\ dd \in felm_t
        /\ cc % p = (c + c) % p /\ dd % p = (d + d) % p
    BY AddExact
  <2>2. acc' = <<x, y>> /\ exact' = Exactly(2 * Cs - e, 2 * Ds - f)
    BY <1>2, <1>5, <1>9 DEF AddSub, fp2addsub1271, fp2add1271, fp2sub1271
  <2> HIDE DEF cc, dd
  <2>3. x \in felm_t /\ y \in felm_t /\ x % p = (cc - e) % p /\ y % p = (dd - f) % p
    BY <2>1, SubExact
  <2> HIDE DEF x, y
  <2>4. cc \in Int /\ dd \in Int /\ c + c \in Int /\ d + d \in Int
    BY <1>3, <2>1, Elements
  <2>5. (c + c) % p = (Cs + Cs) % p /\ (d + d) % p = (Ds + Ds) % p
    BY <1>3, <1>4, Modulo
  <2> DEFINE E == 2 * Cs  F == 2 * Ds
  <2>6. E \in Int /\ F \in Int /\ E = Cs + Cs /\ F = Ds + Ds
    BY <1>4
  <2> HIDE DEF E, F
  <2>7. cc % p = E % p /\ dd % p = F % p
    BY <2>1, <2>5, <2>6
  <2>8. (cc - e) % p = (E - e) % p
    BY <1>3, <2>4, <2>6, <2>7, Modulo
  <2>9. (dd - f) % p = (F - f) % p
    BY <1>3, <2>4, <2>6, <2>7, Modulo
  <2>10. E - e \in Int /\ F - f \in Int
    BY <1>3, <2>6
  <2>11. exact' = Exactly(E - e, F - f)
    BY <2>2 DEF E, F
  <2> QED BY <2>2, <2>3, <2>8, <2>9, <2>10, <2>11, Establishing
<1> QED BY <1>6, <1>7, <1>8, <1>9

\* The multiplicative operations keep the register exact: by words, by the precompile,
\* and with whatever results a host can supply.
LEMMA ProductsAreExact ==
    ASSUME AccIsExact, Sqr \/ Norms \/ \E b \in Operands : Mul(b)
    PROVE  AccIsExact'
PROOF
<1>1. PICK c \in felm_t, d \in felm_t : acc = <<c, d>> /\ exact = <<c % p, d % p>>
  BY Holding
<1>3. c \in Int /\ d \in Int
  BY Elements
<1> DEFINE Cs == c % p  Ds == d % p
<1>4. Cs \in Int /\ Ds \in Int /\ Cs % p = c % p /\ Ds % p = d % p
  BY <1>3, Remainder
<1>5. acc = <<c, d>> /\ exact = <<Cs, Ds>>
  BY <1>1
<1> HIDE DEF Cs, Ds
<1>7. (c * c) % p = (Cs * Cs) % p /\ (d * d) % p = (Ds * Ds) % p /\ (c * d) % p = (Cs * Ds) % p
  BY <1>3, <1>4, Modulo
<1>8. ASSUME NEW b \in Operands, Mul(b)
      PROVE  AccIsExact'
  <2>a. PICK e \in felm_t, f \in felm_t : b = <<e, f>>
    BY OperandsAreElements
  <2>b. e \in Int /\ f \in Int /\ e % p = e % p /\ f % p = f % p
    BY Elements
  <2>c. /\ (c * e) % p = (Cs * e) % p /\ (d * f) % p = (Ds * f) % p
        /\ (c * f) % p = (Cs * f) % p /\ (d * e) % p = (Ds * e) % p
    BY <1>3, <1>4, <2>b, Modulo
  <2> DEFINE ce == c * e  df == d * f  cf == c * f  de == d * e
             Ce == Cs * e  Df == Ds * f  Cf == Cs * f  De == Ds * e
  <2>1. /\ ce \in Int /\ df \in Int /\ cf \in Int /\ de \in Int
        /\ Ce \in Int /\ Df \in Int /\ Cf \in Int /\ De \in Int
    BY <1>3, <1>4, <2>b
  <2>2. \E x \in felm_t, y \in felm_t :
            acc' = <<x, y>> /\ x % p = (ce - df) % p /\ y % p = (cf + de) % p
    <3>1. CASE acc' = fp2mul1271(acc, b)
      BY <2>a, <1>5, <3>1, Mul2Exact
    <3>2. CASE acc' \in Supplied(ce - df) \X Supplied(cf + de)
      <4>1. ce - df \in Int /\ cf + de \in Int
        BY <2>1
      <4> HIDE DEF ce, df, cf, de
      <4>2. acc' = <<(ce - df) % p, (cf + de) % p>>
        BY <3>2, <4>1, HostHasNoChoice
      <4> QED BY <4>1, <4>2, Remainder
    <3>3. acc' = fp2mul1271(acc, b) \/ acc' \in Supplied(ce - df) \X Supplied(cf + de)
      BY <2>a, <1>5, <1>8 DEF Mul
    <3> QED BY <3>1, <3>2, <3>3
  <2>3. exact' = Exactly(Ce - Df, Cf + De)
    BY <2>a, <1>5, <1>8 DEF Mul
  <2>4. /\ ce % p = Ce % p /\ df % p = Df % p /\ cf % p = Cf % p /\ de % p = De % p
    BY <2>c
  <2> HIDE DEF ce, df, cf, de, Ce, Df, Cf, De
  <2>5. (ce - df) % p = (Ce - Df) % p
    BY <2>1, <2>4, Modulo
  <2>6. (cf + de) % p = (Cf + De) % p
    BY <2>1, <2>4, Modulo
  <2>7. Ce - Df \in Int /\ Cf + De \in Int
    BY <2>1
  <2> QED BY <2>2, <2>3, <2>5, <2>6, <2>7, Establishing
<1>9. CASE Sqr
  <2> DEFINE cc == c * c  dd == d * d  cd == c * d
             CC == Cs * Cs  DD == Ds * Ds  CD == Cs * Ds
  <2>1. /\ cc \in Int /\ dd \in Int /\ cd \in Int
        /\ CC \in Int /\ DD \in Int /\ CD \in Int
    BY <1>3, <1>4
  <2>2. PICK x \in felm_t, y \in felm_t :
            /\ fp2sqr1271(<<c, d>>) = <<x, y>>
            /\ x % p = (cc - dd) % p
            /\ y % p = (2 * c * d) % p
    BY Sqr2Exact
  <2>3. 2 * c * d = cd + cd /\ 2 * Cs * Ds = CD + CD
    BY <1>3, <1>4
  <2>4. acc' = <<x, y>> /\ exact' = Exactly(CC - DD, CD + CD)
    BY <1>5, <1>9, <2>2, <2>3 DEF Sqr
  <2>5. cc % p = CC % p /\ dd % p = DD % p /\ cd % p = CD % p
    BY <1>7
  <2>6. x % p = (cc - dd) % p /\ y % p = (cd + cd) % p
    BY <2>2, <2>3
  <2> HIDE DEF cc, dd, cd, CC, DD, CD
  <2>7. (cc - dd) % p = (CC - DD) % p
    BY <2>1, <2>5, Modulo
  <2>8. (cd + cd) % p = (CD + CD) % p
    BY <2>1, <2>5, Modulo
  <2>9. CC - DD \in Int /\ CD + CD \in Int
    BY <2>1
  <2> QED BY <2>4, <2>6, <2>7, <2>8, <2>9, Establishing
<1>10. CASE Norms
  <2> DEFINE x == fpsqr1271(c)  y == fpsqr1271(d)
  <2>1. x \in felm_t /\ y \in felm_t /\ x % p = (c * c) % p /\ y % p = (d * d) % p
    BY MulExact
  <2>2. acc' = <<x, y>> /\ exact' = Exactly(Cs * Cs, Ds * Ds)
    BY <1>5, <1>10 DEF Norms
  <2> HIDE DEF x, y
  <2>3. Cs * Cs \in Int /\ Ds * Ds \in Int
    BY <1>4
  <2> QED BY <1>7, <2>1, <2>2, <2>3, Establishing
<1> QED BY <1>8, <1>9, <1>10

\* Negation, halving and mod1271 keep the register exact.
LEMMA RestIsExact ==
    ASSUME AccIsExact, Neg \/ Halve \/ Reduce
    PROVE  AccIsExact'
PROOF
<1>1. PICK c \in felm_t, d \in felm_t : acc = <<c, d>> /\ exact = <<c % p, d % p>>
  BY Holding
<1>2. c \in Int /\ d \in Int
  BY Elements
<1> DEFINE Cs == c % p  Ds == d % p
<1>3. Cs \in Int /\ Ds \in Int /\ Cs \in felm_t /\ Ds \in felm_t /\ Cs % p = Cs /\ Ds % p = Ds
  BY <1>2, Remainder
<1>4. acc = <<c, d>> /\ exact = <<Cs, Ds>> /\ c % p = Cs % p /\ d % p = Ds % p
  BY <1>1, <1>3
<1>5. CASE Neg
  <2> HIDE DEF Cs, Ds
  <2> DEFINE x == fpneg1271(c)  y == fpneg1271(d)
  <2>1. x \in felm_t /\ y \in felm_t /\ x % p = (-c) % p /\ y % p = (-d) % p
    BY NegExact
  <2>2. acc' = <<x, y>> /\ exact' = Exactly(-Cs, -Ds)
    BY <1>4, <1>5 DEF Neg, fp2neg1271
  <2> HIDE DEF x, y
  <2>3. (-c) % p = (-Cs) % p
    BY <1>2, <1>3, <1>4, NegativeModulo
  <2>4. (-d) % p = (-Ds) % p
    BY <1>2, <1>3, <1>4, NegativeModulo
  <2>5. -Cs \in Int /\ -Ds \in Int
    BY <1>3
  <2> QED BY <2>1, <2>2, <2>3, <2>4, <2>5, Establishing
<1>6. CASE Halve
  <2> HIDE DEF Cs, Ds
  <2> DEFINE x == fpdiv1271(c)  y == fpdiv1271(d)
  <2>1. /\ x \in felm_t /\ y \in felm_t
        /\ (2 * x) % p = c % p /\ (2 * y) % p = d % p
    BY HalveExact
  <2>2. acc' = <<x, y>>
    BY <1>4, <1>6 DEF Halve, fp2div1271
  <2>3. PICK m \in 0 .. p - 1, n \in 0 .. p - 1 :
            exact' = <<m, n>> /\ (2 * m) % p = Cs /\ (2 * n) % p = Ds
    BY <1>4, <1>6 DEF Halve, Exactly
  <2> HIDE DEF x, y
  <2>4. x \in Int /\ y \in Int /\ m \in Int /\ n \in Int /\ m % p = m /\ n % p = n
    <3>1. x \in Int /\ y \in Int /\ m \in Int /\ n \in Int
      BY <2>1, Elements
    <3>2. m % p = m
      BY Elements
    <3>3. n % p = n
      BY Elements
    <3> QED BY <3>1, <3>2, <3>3
  <2>5. x % p = m % p
    BY <1>3, <1>4, <2>1, <2>3, <2>4, HalfIsOne
  <2>6. y % p = n % p
    BY <1>3, <1>4, <2>1, <2>3, <2>4, HalfIsOne
  <2>7. exact' = Exactly(m, n)
    BY <2>3, <2>4 DEF Exactly
  <2> QED BY <2>1, <2>2, <2>4, <2>5, <2>6, <2>7, Establishing
<1>7. CASE Reduce
  <2>1. acc' = <<Cs, Ds>>
    BY <1>4, <1>7, ReduceExact DEF Reduce
  <2>2. exact' = Exactly(Cs, Ds)
    BY <1>3, <1>4, <1>7 DEF Reduce, Exactly
  <2> QED BY <1>3, <2>1, <2>2, Establishing
<1> QED BY <1>5, <1>6, <1>7

\* Every chain of the field functions that the point formulas can string together, of any
\* length and for any word, leaves each coordinate in 0 .. p and congruent to the exact
\* value; mod1271 then leaves the value itself.
THEOREM ChainIsExact == RingSpec => []AccIsExact
PROOF
<1>1. FieldInit => AccIsExact
  <2> SUFFICES ASSUME FieldInit PROVE AccIsExact
    OBVIOUS
  <2>1. PICK c \in felm_t, d \in felm_t : acc = <<c, d>>
    BY OperandsAreElements DEF FieldInit
  <2>2. exact = <<c % p, d % p>>
    BY <2>1 DEF FieldInit, Exactly
  <2>3. mod1271(c) = c % p /\ mod1271(d) = d % p
    BY ReduceExact
  <2> QED BY <2>1, <2>2, <2>3 DEF AccIsExact, Exactly, f2elm_t
<1>2. AccIsExact /\ [RingNext]_fieldVars => AccIsExact'
  <2> SUFFICES ASSUME AccIsExact, [RingNext]_fieldVars PROVE AccIsExact'
    OBVIOUS
  <2>1. CASE UNCHANGED fieldVars
    BY <2>1 DEF fieldVars, AccIsExact, Exactly
  <2>2. ASSUME NEW b \in Operands, Add(b) \/ Sub(b) \/ SubFrom(b) \/ AddSub(b)
        PROVE  AccIsExact'
    BY <2>2, SumsAreExact
  <2>3. ASSUME NEW b \in Operands, Mul(b)
        PROVE  AccIsExact'
    BY <2>3, ProductsAreExact
  <2>4. CASE Sqr \/ Norms
    BY <2>4, ProductsAreExact
  <2>5. CASE Neg \/ Halve \/ Reduce
    BY <2>5, RestIsExact
  <2> QED BY <2>1, <2>2, <2>3, <2>4, <2>5 DEF RingNext
<1> QED BY <1>1, <1>2, PTL DEF RingSpec

-----------------------------------------------------------------------------
(* The power of the inversion.                                             *)

\* How many ones an exponent has in each register, all of them lowest.
Ones(a, t1, t2, t3, t4, t5) ==
    [n \in Register |-> CASE n = "a" -> a [] n = "t1" -> t1 [] n = "t2" -> t2
                          [] n = "t3" -> t3 [] n = "t4" -> t4 [] n = "t5" -> t5]

\* Before each line, and after the last.
HeldOnes == <<
    Ones(1, 0, 0, 0, 0, 0),
    Ones(1, 0, 2, 0, 0, 0),
    Ones(1, 0, 2, 4, 0, 0),
    Ones(1, 0, 2, 4, 8, 0),
    Ones(1, 0, 2, 4, 8, 16),
    Ones(1, 0, 32, 4, 8, 16),
    Ones(1, 64, 32, 4, 8, 16),
    Ones(1, 96, 32, 4, 8, 16),
    Ones(1, 112, 32, 4, 8, 16),
    Ones(1, 120, 32, 4, 8, 16),
    Ones(1, 124, 32, 4, 8, 16),
    Ones(1, 125, 32, 4, 8, 16) >>

\* n ones from bit k on.
Run(k, n) == k .. k + n - 1

\* What a line does: it shifts by as many bits as its factor has.
Fits(l, from, to) ==
    /\ l.from \in Register /\ l.to \in Register /\ l.factor \in Register
    /\ l.factor # l.to /\ l.squarings \in Nat \ {0}
    /\ from \in [Register -> Nat] /\ from[l.factor] = l.squarings
    /\ to = [from EXCEPT ![l.to] = from[l.from] + l.squarings]

\* Each of the eleven lines fits the ones the registers hold.
LEMMA LinesFit == \A n \in 1 .. 11 : Fits(Lines[n], HeldOnes[n], HeldOnes[n + 1])
<1>1. Fits(Lines[1], HeldOnes[1], HeldOnes[2])
  BY DEF Fits, Lines, Line, HeldOnes, Ones, Register
<1>2. Fits(Lines[2], HeldOnes[2], HeldOnes[3])
  BY DEF Fits, Lines, Line, HeldOnes, Ones, Register
<1>3. Fits(Lines[3], HeldOnes[3], HeldOnes[4])
  BY DEF Fits, Lines, Line, HeldOnes, Ones, Register
<1>4. Fits(Lines[4], HeldOnes[4], HeldOnes[5])
  BY DEF Fits, Lines, Line, HeldOnes, Ones, Register
<1>5. Fits(Lines[5], HeldOnes[5], HeldOnes[6])
  BY DEF Fits, Lines, Line, HeldOnes, Ones, Register
<1>6. Fits(Lines[6], HeldOnes[6], HeldOnes[7])
  BY DEF Fits, Lines, Line, HeldOnes, Ones, Register
<1>7. Fits(Lines[7], HeldOnes[7], HeldOnes[8])
  BY DEF Fits, Lines, Line, HeldOnes, Ones, Register
<1>8. Fits(Lines[8], HeldOnes[8], HeldOnes[9])
  BY DEF Fits, Lines, Line, HeldOnes, Ones, Register
<1>9. Fits(Lines[9], HeldOnes[9], HeldOnes[10])
  BY DEF Fits, Lines, Line, HeldOnes, Ones, Register
<1>10. Fits(Lines[10], HeldOnes[10], HeldOnes[11])
  BY DEF Fits, Lines, Line, HeldOnes, Ones, Register
<1>11. Fits(Lines[11], HeldOnes[11], HeldOnes[12])
  BY DEF Fits, Lines, Line, HeldOnes, Ones, Register
<1>12. \A n \in 1 .. 11 : n = 1 \/ n = 2 \/ n = 3 \/ n = 4 \/ n = 5 \/ n = 6 \/ n = 7 \/ n = 8 \/ n = 9 \/ n = 10 \/ n = 11
  OBVIOUS
<1>13. QED
  BY <1>1, <1>2, <1>3, <1>4, <1>5, <1>6, <1>7, <1>8, <1>9, <1>10, <1>11, <1>12

\* Exponents without a common bit are added by union.
LEMMA PlusApart ==
    ASSUME NEW x, NEW y, x \cap y = {}
    PROVE  Plus(x, y) = x \cup y
BY DEF Plus

\* Shifting a run of ones, and adding the run of ones that fills up below it.
LEMMA RunsShift ==
    ASSUME NEW k \in Nat, NEW n \in Nat
    PROVE  /\ Shift(Run(k, n)) = Run(k + 1, n)
           /\ Plus(Run(n, k), Run(0, n)) = Run(0, k + n)
<1>1. Shift(Run(k, n)) = Run(k + 1, n)
  BY DEF Shift, Run
<1>2. Run(n, k) \cap Run(0, n) = {}
  BY DEF Run
<1>3. Run(n, k) \cup Run(0, n) = Run(0, k + n)
  BY DEF Run
<1>4. QED
  BY <1>1, <1>2, <1>3, PlusApart

\* Between two squarings the line's register holds its source, shifted; the others
\* hold what they held before the line.
ExpInv ==
    /\ stage \in 1 .. 12
    /\ DOMAIN t = Register
    /\ stage = 12 => \A n \in Register : t[n] = Run(0, HeldOnes[12][n])
    /\ stage \in 1 .. 11 =>
         /\ left \in 0 .. Lines[stage].squarings
         /\ \A n \in Register : n # Lines[stage].to \/ left = Lines[stage].squarings =>
               t[n] = Run(0, HeldOnes[stage][n])
         /\ left < Lines[stage].squarings =>
               t[Lines[stage].to] = Run(Lines[stage].squarings - left, HeldOnes[stage][Lines[stage].from])

\* The addition chain of fpexp1251 raises to the power 2^125 - 1, whose square's square
\* times the element is its inverse: no line squares too little or multiplies by the
\* wrong register.
THEOREM ExponentIsRight == ExpSpec => []PowerIsInverse
<1>0. Len(Lines) = 11
  BY DEF Lines
<1>1. ExpInit => ExpInv
  <2> SUFFICES ASSUME ExpInit PROVE ExpInv
    OBVIOUS
  <2>1. Lines[1].squarings = 1 /\ Lines[1].to = "t2"
    BY DEF Lines, Line
  <2>2. /\ stage = 1 /\ left = 1 /\ DOMAIN t = Register
        /\ \A n \in Register : t[n] = IF n = "a" THEN {0} ELSE {}
    BY <2>1 DEF ExpInit
  <2>3. \A n \in Register : HeldOnes[1][n] = IF n = "a" THEN 1 ELSE 0
    BY DEF HeldOnes, Ones, Register
  <2>4. \A n \in Register : t[n] = Run(0, HeldOnes[1][n])
    <3>1. Run(0, 1) = {0} /\ Run(0, 0) = {}
      BY DEF Run
    <3>2. QED
      BY <2>2, <2>3, <3>1
  <2>5. QED
    BY <2>1, <2>2, <2>4 DEF ExpInv
<1>2. ASSUME ExpInv, [ExpNext]_expVars
      PROVE  ExpInv'
  <2> DEFINE l == Lines[stage]
             held == HeldOnes[stage]
  <2>1. ASSUME stage \in 1 .. 11
        PROVE  Fits(l, held, HeldOnes[stage + 1])
    BY <2>1, LinesFit
  <2>2. CASE Square
    <3>1. stage \in 1 .. 11 /\ left > 0 /\ stage' = stage /\ left' = left - 1
      BY <1>0, <1>2, <2>2 DEF Square, ExpInv
    <3> DEFINE source == IF left = l.squarings THEN l.from ELSE l.to
    <3>2. t' = [t EXCEPT ![l.to] = Shift(t[source])]
      BY <2>2 DEF Square
    <3>3. Fits(l, held, HeldOnes[stage + 1])
      BY <2>1, <3>1
    <3>4. /\ left \in 0 .. l.squarings
          /\ \A n \in Register : n # l.to \/ left = l.squarings => t[n] = Run(0, held[n])
          /\ left < l.squarings => t[l.to] = Run(l.squarings - left, held[l.from])
          /\ DOMAIN t = Register
      BY <1>2, <3>1 DEF ExpInv
    <3> HIDE DEF l, held
    <3>5. t[source] = Run(l.squarings - left, held[l.from])
      BY <3>3, <3>4 DEF Fits
    <3>6. Shift(t[source]) = Run(l.squarings - left + 1, held[l.from])
      <4>1. l.squarings - left \in Nat /\ held[l.from] \in Nat
        BY <3>1, <3>3, <3>4 DEF Fits
      <4>2. QED
        BY <3>5, <4>1, RunsShift
    <3>7. t'[l.to] = Run(l.squarings - left', held[l.from])
      BY <3>1, <3>2, <3>3, <3>4, <3>6 DEF Fits
    <3>8. \A n \in Register : n # l.to => t'[n] = Run(0, held[n])
      BY <3>2, <3>4
    <3>9. left' \in 0 .. l.squarings /\ left' < l.squarings
      BY <3>1, <3>3, <3>4 DEF Fits
    <3>10. DOMAIN t' = Register
      BY <3>2, <3>4
    <3>11. l' = l /\ held' = held
      BY <3>1 DEF l, held, HeldOnes, Ones, Lines, Line, Register
    <3>12. QED
      BY <3>1, <3>7, <3>8, <3>9, <3>10, <3>11 DEF ExpInv, l, held
  <2>3. CASE Multiply
    <3>1. /\ stage \in 1 .. 11 /\ left = 0 /\ stage' = stage + 1
          /\ left' = IF stage < 11 THEN Lines[stage + 1].squarings ELSE 0
      BY <1>0, <1>2, <2>3 DEF Multiply, ExpInv
    <3>2. t' = [t EXCEPT ![l.to] = Plus(t[l.to], t[l.factor])]
      BY <2>3 DEF Multiply
    <3>3. Fits(l, held, HeldOnes[stage + 1])
      BY <2>1, <3>1
    <3>4. /\ \A n \in Register : n # l.to => t[n] = Run(0, held[n])
          /\ 0 < l.squarings => t[l.to] = Run(l.squarings - 0, held[l.from])
          /\ DOMAIN t = Register
      BY <1>2, <3>1 DEF ExpInv
    <3> HIDE DEF l, held
    <3>5. t[l.to] = Run(l.squarings, held[l.from]) /\ t[l.factor] = Run(0, l.squarings)
      BY <3>3, <3>4 DEF Fits
    <3>6. Plus(t[l.to], t[l.factor]) = Run(0, held[l.from] + l.squarings)
      <4>1. l.squarings \in Nat /\ held[l.from] \in Nat
        BY <3>3 DEF Fits
      <4>2. QED
        BY <3>5, <4>1, RunsShift
    <3>7. DOMAIN t' = Register /\ \A n \in Register : t'[n] = Run(0, HeldOnes[stage + 1][n])
      BY <3>2, <3>3, <3>4, <3>6 DEF Fits
    <3>8. CASE stage = 11
      BY <3>1, <3>7, <3>8 DEF ExpInv
    <3>9. CASE stage \in 1 .. 10
      <4>1. Lines[stage + 1].squarings \in Nat
        BY <3>9, LinesFit DEF Fits
      <4>2. stage + 1 \in 1 .. 11 /\ left' = Lines[stage + 1].squarings
        BY <3>1, <3>9
      <4>3. QED
        BY <3>1, <3>7, <4>1, <4>2 DEF ExpInv
    <3>10. QED
      BY <3>1, <3>8, <3>9
  <2>4. CASE UNCHANGED expVars
    BY <1>2, <2>4 DEF ExpInv, expVars
  <2>5. QED
    BY <1>2, <2>2, <2>3, <2>4 DEF ExpNext
<1>3. ExpInv => PowerIsInverse
  <2> SUFFICES ASSUME ExpInv, stage = 12 PROVE t.t1 = 0 .. 124 /\ Plus(Shift(Shift(t.t1)), {0}) = (0 .. 126) \ {1}
    BY <1>0 DEF PowerIsInverse, ExpDone
  <2>1. t["t1"] = Run(0, HeldOnes[12]["t1"])
    BY DEF ExpInv, Register
  <2>2. HeldOnes[12]["t1"] = 125
    BY DEF HeldOnes, Ones, Register
  <2>3. t.t1 = Run(0, 125)
    BY <2>1, <2>2
  <2>4. Shift(Shift(Run(0, 125))) = Run(2, 125)
    <3>1. Shift(Run(0, 125)) = Run(0 + 1, 125) /\ Shift(Run(1, 125)) = Run(1 + 1, 125)
      BY RunsShift
    <3>2. QED
      BY <3>1
  <2>5. Plus(Run(2, 125), {0}) = Run(2, 125) \cup {0}
    BY PlusApart DEF Run
  <2>6. QED
    BY <2>3, <2>4, <2>5 DEF Run
<1>4. QED
  BY <1>1, <1>2, <1>3, PTL DEF ExpSpec

-----------------------------------------------------------------------------
(* The scalar of a signature.                                              *)

\* Numbers that are the same modulo the order.
Same(x, y) == \E n \in Int : x = y + curve_order * n

\* What the assumption says of the order, and the inverse of R that SMALL_R_PRIME stands for.
LEMMA ScalarSizes ==
    /\ R \in Nat /\ R > 0 /\ curve_order \in Nat /\ curve_order >= 3 /\ 2 * curve_order <= R
    /\ SMALL_R_PRIME \in Nat /\ SMALL_R_PRIME < R
    /\ \E quot \in Int : R * quot = curve_order * SMALL_R_PRIME + 1
    /\ Montgomery_Rprime \in 0 .. curve_order - 1 /\ Same(Montgomery_Rprime, R * R)
<1>1. R \in Nat /\ curve_order \in Nat /\ curve_order >= 3 /\ 2 * curve_order <= R
  BY ScalarAssumption
<1>2. SMALL_R_PRIME \in Nat /\ SMALL_R_PRIME < R
  BY <1>1, ScalarAssumption
<1>3. \E quot \in Int : R * quot = curve_order * SMALL_R_PRIME + 1
  <2> DEFINE x == curve_order * SMALL_R_PRIME + 1
             quot == x \div R
  <2>1. x \in Int /\ x % R = 0
    BY <1>1, <1>2, ScalarAssumption
  <2> HIDE DEF x
  <2>2. quot \in Int /\ x = R * quot
    BY <1>1, <2>1, DivMod
  <2>3. QED
    BY <2>2 DEF x
<1>4. Montgomery_Rprime \in 0 .. curve_order - 1 /\ Same(Montgomery_Rprime, R * R)
  <2> DEFINE x == R * R
             q == x \div curve_order
             rest == x % curve_order
  <2>1. x \in Int /\ Montgomery_Rprime = rest
    BY <1>1, ScalarAssumption
  <2> HIDE DEF x
  <2>2. q \in Int /\ rest \in Int /\ 0 <= rest /\ rest < curve_order
        /\ x = curve_order * q + rest
    BY <1>1, <2>1, DivMod
  <2> HIDE DEF q, rest
  <2>3. rest = x + curve_order * (-q) /\ -q \in Int
    BY <1>1, <2>2
  <2>4. QED
    BY <1>1, <2>1, <2>2, <2>3 DEF Same, x
<1>5. QED
  BY <1>1, <1>2, <1>3, <1>4

LEMMA SameProduct ==
    ASSUME NEW x \in Int, NEW y \in Int, NEW u \in Int, NEW v \in Int, Same(x, u), Same(y, v)
    PROVE  Same(x * y, u * v) /\ Same(x - y, u - v)
<1>1. PICK m \in Int : x = u + curve_order * m
  BY DEF Same
<1>2. PICK n \in Int : y = v + curve_order * n
  BY DEF Same
<1>3. x * y = u * v + curve_order * (m * v + u * n + curve_order * (m * n))
  BY <1>1, <1>2, ScalarSizes
<1>4. x - y = (u - v) + curve_order * (m - n)
  BY <1>1, <1>2, ScalarSizes
<1>5. m * v + u * n + curve_order * (m * n) \in Int /\ m - n \in Int
  BY <1>1, <1>2, ScalarSizes
<1>6. QED
  BY <1>3, <1>4, <1>5 DEF Same

LEMMA SameChain ==
    ASSUME NEW x \in Int, NEW y \in Int, NEW z \in Int, Same(x, y), Same(y, z)
    PROVE  Same(x, z)
<1>1. PICK m \in Int : x = y + curve_order * m
  BY DEF Same
<1>2. PICK n \in Int : y = z + curve_order * n
  BY DEF Same
<1>3. x = z + curve_order * (m + n) /\ m + n \in Int
  BY <1>1, <1>2, ScalarSizes
<1>4. QED
  BY <1>3 DEF Same

LEMMA SameSelf == \A x \in Int : Same(x, x)
<1>1. \A x \in Int : x = x + curve_order * 0
  BY ScalarSizes
<1>2. QED
  BY <1>1 DEF Same

\* R can be cancelled.
LEMMA Cancel ==
    ASSUME NEW x \in Int, NEW y \in Int, Same(R * x, R * y)
    PROVE  Same(x, y)
<1>1. PICK n \in Int : R * x = R * y + curve_order * n
  BY DEF Same
<1>2. PICK quot \in Int : R * quot = curve_order * SMALL_R_PRIME + 1
  BY ScalarSizes
<1>3. (R * x) * quot = (R * quot) * x /\ (R * y) * quot = (R * quot) * y
  BY ScalarSizes
<1>4. (R * quot) * x = (R * quot) * y + curve_order * (n * quot)
  <2>1. (R * x) * quot = (R * y + curve_order * n) * quot
    BY <1>1
  <2>2. (R * y + curve_order * n) * quot = (R * y) * quot + curve_order * (n * quot)
    BY ScalarSizes
  <2>3. QED
    BY <1>3, <2>1, <2>2
<1> DEFINE m == n * quot + SMALL_R_PRIME * y - SMALL_R_PRIME * x
<1>5. m \in Int
  BY ScalarSizes
<1>6. /\ (R * quot) * x = x + curve_order * (SMALL_R_PRIME * x)
      /\ (R * quot) * y = y + curve_order * (SMALL_R_PRIME * y)
  BY <1>2, ScalarSizes
<1>7. x = y + curve_order * m
  BY <1>4, <1>6, ScalarSizes
<1>8. QED
  BY <1>5, <1>7 DEF Same

-----------------------------------------------------------------------------
(* One multiplication.                                                     *)

\* The reduction adds a multiple of the order that makes the product divisible by R.
LEMMA Divisible ==
    ASSUME NEW product \in Int
    PROVE  LET Q == ((product % R) * SMALL_R_PRIME) % R IN
           /\ Q \in 0 .. R - 1
           /\ \E u \in Int : product + Q * curve_order = R * u
<1> DEFINE low == product % R
           q == product \div R
           x == low * SMALL_R_PRIME
           Q == x % R
           l == x \div R
<1>1. PICK quot \in Int : R * quot = curve_order * SMALL_R_PRIME + 1
  BY ScalarSizes
<1>2. low \in Int /\ q \in Int /\ product = R * q + low
  BY ScalarSizes, DivMod
<1> HIDE DEF low, q
<1>3. x \in Int
  BY <1>2, ScalarSizes
<1>4. Q \in Int /\ l \in Int /\ 0 <= Q /\ Q < R /\ x = R * l + Q
  <2> HIDE DEF x
  <2>1. QED
    BY <1>3, ScalarSizes, DivMod
<1> HIDE DEF Q, l
<1> DEFINE u == q - l * curve_order + low * quot
<1>5. Q * curve_order = low * (curve_order * SMALL_R_PRIME) - R * (l * curve_order)
  <2>1. Q = low * SMALL_R_PRIME - R * l
    BY <1>2, <1>4, ScalarSizes
  <2>2. Q * curve_order = (low * SMALL_R_PRIME - R * l) * curve_order
    BY <2>1
  <2>3. QED
    BY <1>2, <1>4, <2>2, ScalarSizes
<1>6. low * (R * quot) = low * (curve_order * SMALL_R_PRIME) + low
  BY <1>1, <1>2, ScalarSizes
<1>7. R * u = R * q - R * (l * curve_order) + low * (R * quot)
  BY <1>1, <1>2, <1>4, ScalarSizes
<1>8. u \in Int /\ product + Q * curve_order = R * u
  BY <1>1, <1>2, <1>4, <1>5, <1>6, <1>7, ScalarSizes
<1>9. QED
  BY <1>4, <1>8, ScalarSizes DEF Q, low

\* Montgomery_multiply_mod_order of stock_qubic.c divides a product by R, modulo the order
\* and to the end: one subtraction is enough whenever the second operand is below the
\* order, and the carry out of the eighth word never comes.
THEOREM MontgomeryExact ==
    ASSUME NEW a \in Scalar, NEW b \in 0 .. curve_order - 1
    PROVE  LET m == Montgomery_multiply_mod_order(a, b) IN
           m \in 0 .. curve_order - 1 /\ Same(R * m, a * b)
<1> DEFINE product == IF b = 1 THEN a ELSE a * b
           Q == ((product % R) * SMALL_R_PRIME) % R
           sum == product + Q * curve_order
           high == (sum \div R) % R
           difference == (high - curve_order) % R
           m == Montgomery_multiply_mod_order(a, b)
<1>1. a \in Nat /\ b \in Nat /\ a <= R - 1 /\ b <= curve_order - 1
  BY ScalarSizes DEF Scalar
<1>2. product = a * b /\ product \in Nat /\ product <= R * curve_order - curve_order
  <2>1. a * b \in Nat /\ a * b <= (R - 1) * curve_order
    BY <1>1, ScalarSizes, ProductBound
  <2>2. b = 1 => a * b = a
    BY <1>1
  <2>3. QED
    BY <2>1, <2>2, ScalarSizes
<1>3. PICK u \in Int : Q \in 0 .. R - 1 /\ sum = R * u
  <2> HIDE DEF product
  <2>1. product \in Int
    BY <1>2
  <2>2. QED
    BY <2>1, Divisible
<1>4. 0 <= u /\ u < 2 * curve_order
  <2> HIDE DEF product, Q
  <2>1. Q * curve_order \in Nat /\ Q * curve_order <= (R - 1) * curve_order
    BY <1>3, ScalarSizes, ProductBound
  <2>2. R * u >= 0 /\ R * u < R * (2 * curve_order)
    BY <1>2, <1>3, <2>1, ScalarSizes
  <2>3. u >= 0
    BY <2>2, ScalarSizes
  <2>4. u < 2 * curve_order
    <3>1. SUFFICES ASSUME u >= 2 * curve_order PROVE FALSE
      BY ScalarSizes
    <3>2. R * u >= R * (2 * curve_order)
      BY <3>1, ScalarSizes
    <3>3. QED
      BY <2>2, <3>2, ScalarSizes
  <2>5. QED
    BY <2>3, <2>4
<1>5. high = u /\ sum \div (R * R) = 0
  <2> HIDE DEF sum
  <2>1. sum \div R = u
    BY <1>3, ScalarSizes, Unique
  <2>2. u % R = u
    BY <1>4, ScalarSizes
  <2>3. sum \in Nat /\ sum < R * R /\ R * R \in Nat /\ R * R > 0
    <3>1. u <= R - 1 /\ R - 1 \in Nat /\ u \in Nat
      BY <1>4, ScalarSizes
    <3>2. R * u <= R * (R - 1) /\ R * u \in Nat
      BY <3>1, ScalarSizes, ProductBound
    <3>3. R * (R - 1) = R * R - R /\ R * R \in Nat
      BY ScalarSizes
    <3>4. QED
      BY <1>3, <3>2, <3>3, ScalarSizes
  <2>4. sum \div (R * R) = 0
    <3> DEFINE RR == R * R
    <3> HIDE DEF RR
    <3>1. sum = RR * 0 + sum /\ RR \in Nat /\ RR > 0 /\ 0 <= sum /\ sum < RR
      BY <2>3 DEF RR
    <3>2. sum \div RR = 0
      BY <2>3, <3>1, Unique
    <3>3. QED
      BY <3>2 DEF RR
  <2>5. QED
    BY <2>1, <2>2, <2>4
<1>6. m = IF u < curve_order THEN u ELSE u - curve_order
  <2>1. m = IF 0 # (IF u < curve_order THEN 1 ELSE 0)
            THEN (((u - curve_order) % R) + curve_order) % R ELSE (u - curve_order) % R
    BY <1>5 DEF Montgomery_multiply_mod_order
  <2>2. CASE u < curve_order
    <3>1. (u - curve_order) % R = u - curve_order + R
      <4>1. u - curve_order = R * (-1) + (u - curve_order + R)
            /\ 0 <= u - curve_order + R /\ u - curve_order + R < R
        BY <1>4, <2>2, ScalarSizes
      <4>2. QED
        BY <4>1, <1>4, ScalarSizes, Unique
    <3>2. (u + R) % R = u
      <4>1. u + R = R * 1 + u
        BY <1>4, ScalarSizes
      <4>2. QED
        BY <4>1, <1>4, <2>2, ScalarSizes, Unique
    <3>3. u - curve_order + R + curve_order = u + R
      BY <1>4, ScalarSizes
    <3>4. QED
      BY <2>1, <2>2, <3>1, <3>2, <3>3
  <2>3. CASE u >= curve_order
    <3>1. (u - curve_order) % R = u - curve_order
      BY <1>4, <2>3, ScalarSizes
    <3>2. QED
      BY <1>4, <2>1, <2>3, <3>1, ScalarSizes
  <2>4. QED
    BY <1>4, <2>2, <2>3, ScalarSizes
<1> HIDE DEF m, product
<1>7. Same(R * u, a * b)
  <2>1. Q \in Int /\ R * u = a * b + curve_order * Q
    BY <1>1, <1>2, <1>3, ScalarSizes
  <2>2. QED
    BY <2>1 DEF Same
<1>8. m \in 0 .. curve_order - 1 /\ Same(R * m, R * u)
  <2>1. CASE u < curve_order
    BY <1>4, <1>6, <2>1, SameSelf, ScalarSizes
  <2>2. CASE u >= curve_order
    <3>1. m \in 0 .. curve_order - 1 /\ m = u - curve_order
      BY <1>4, <1>6, <2>2, ScalarSizes
    <3>2. R * m = R * u + curve_order * (-R) /\ -R \in Int
      BY <3>1, ScalarSizes
    <3>3. QED
      BY <3>1, <3>2 DEF Same
  <2>3. QED
    BY <1>4, <2>1, <2>2, ScalarSizes
<1>9. QED
  <2>1. R * m \in Int /\ R * u \in Int /\ a * b \in Int
    BY <1>1, <1>8, ScalarSizes
  <2>2. Same(R * m, a * b)
    BY <1>7, <1>8, <2>1, SameChain
  <2>3. QED
    BY <1>8, <2>2 DEF m

Below == 0 .. curve_order - 1

\* The three uses sign makes of it: into Montgomery form, out of it, and within it.
LEMMA IntoForm ==
    ASSUME NEW x \in Scalar, NEW e \in Int, Same(x, e)
    PROVE  LET m == Montgomery_multiply_mod_order(x, Montgomery_Rprime) IN
           m \in Below /\ Same(m, e * R)
<1> DEFINE m == Montgomery_multiply_mod_order(x, Montgomery_Rprime)
<1>1. m \in Below /\ Same(R * m, x * Montgomery_Rprime)
  BY ScalarSizes, MontgomeryExact DEF Below
<1> HIDE DEF m
<1>2. m \in Int /\ x \in Int /\ Montgomery_Rprime \in Int /\ R * R \in Int
  BY <1>1, ScalarSizes DEF Below, Scalar
<1>3. Same(x * Montgomery_Rprime, e * (R * R))
  BY <1>2, ScalarSizes, SameProduct
<1>4. Same(R * m, e * (R * R))
  <2>1. R * m \in Int /\ x * Montgomery_Rprime \in Int /\ e * (R * R) \in Int
    BY <1>2, ScalarSizes
  <2>2. QED
    BY <1>1, <1>3, <2>1, SameChain
<1>5. e * (R * R) = R * (e * R) /\ e * R \in Int
  BY ScalarSizes
<1>6. QED
  BY <1>1, <1>2, <1>4, <1>5, Cancel DEF m

LEMMA OutOfForm ==
    ASSUME NEW x \in Scalar, NEW e \in Int, Same(x, e * R)
    PROVE  LET m == Montgomery_multiply_mod_order(x, 1) IN m \in Below /\ Same(m, e)
<1> DEFINE m == Montgomery_multiply_mod_order(x, 1)
<1>1. m \in Below /\ Same(R * m, x * 1)
  BY ScalarSizes, MontgomeryExact DEF Below
<1> HIDE DEF m
<1>2. m \in Int /\ x \in Int /\ x * 1 = x /\ e * R = R * e /\ R * e \in Int /\ R * m \in Int
  BY <1>1, ScalarSizes DEF Below, Scalar
<1>3. Same(R * m, R * e)
  BY <1>1, <1>2, SameChain
<1>4. QED
  BY <1>1, <1>2, <1>3, Cancel DEF m

LEMMA WithinForm ==
    ASSUME NEW x \in Scalar, NEW y \in Below, NEW d \in Int, NEW e \in Int,
           Same(x, d * R), Same(y, e * R)
    PROVE  LET m == Montgomery_multiply_mod_order(x, y) IN
           m \in Below /\ Same(m, d * e * R)
<1> DEFINE m == Montgomery_multiply_mod_order(x, y)
<1>1. m \in Below /\ Same(R * m, x * y)
  BY MontgomeryExact DEF Below
<1> HIDE DEF m
<1>2. /\ m \in Int /\ x \in Int /\ y \in Int /\ d * R \in Int /\ e * R \in Int
      /\ d * e * R \in Int
  BY <1>1, ScalarSizes DEF Below, Scalar
<1>3. Same(x * y, (d * R) * (e * R))
  BY <1>2, SameProduct
<1>4. (d * R) * (e * R) = R * (d * e * R)
  BY ScalarSizes
<1>5. Same(R * m, R * (d * e * R))
  <2>1. R * m \in Int /\ x * y \in Int /\ R * (d * e * R) \in Int
    BY <1>2, ScalarSizes
  <2>2. QED
    BY <1>1, <1>3, <1>4, <2>1, SameChain
<1>6. QED
  BY <1>1, <1>2, <1>5, Cancel DEF m

\* The last call: r - k * h, the order added where it borrows.
LEMMA DifferenceExact ==
    ASSUME NEW x \in Below, NEW y \in Below
    PROVE  Difference(x, y) = (x - y) % curve_order
<1>1. x \in Int /\ y \in Int /\ 0 <= x /\ x < curve_order /\ 0 <= y /\ y < curve_order
  BY ScalarSizes DEF Below
<1>2. CASE x >= y
  <2>1. (x - y) % curve_order = x - y
    BY <1>1, <1>2, ScalarSizes
  <2>2. QED
    BY <1>1, <1>2, <2>1 DEF Difference
<1>3. CASE x < y
  <2>1. (x - y) % R = x - y + R
    <3>1. x - y = R * (-1) + (x - y + R) /\ 0 <= x - y + R /\ x - y + R < R
      BY <1>1, <1>3, ScalarSizes
    <3>2. QED
      BY <3>1, <1>1, ScalarSizes, Unique
  <2>2. (x - y + R + curve_order) % R = x - y + curve_order
    <3>1. x - y + R + curve_order = R * 1 + (x - y + curve_order)
          /\ 0 <= x - y + curve_order /\ x - y + curve_order < R
      BY <1>1, <1>3, ScalarSizes
    <3>2. QED
      BY <3>1, <1>1, ScalarSizes, Unique
  <2>3. (x - y) % curve_order = x - y + curve_order
    <3>1. x - y = curve_order * (-1) + (x - y + curve_order)
          /\ 0 <= x - y + curve_order /\ x - y + curve_order < curve_order
      BY <1>1, <1>3, ScalarSizes
    <3>2. QED
      BY <3>1, <1>1, ScalarSizes, Unique
  <2>4. QED
    BY <1>1, <1>3, <2>1, <2>2, <2>3 DEF Difference
<1>4. QED
  BY <1>1, <1>2, <1>3

LEMMA SameRemainder ==
    ASSUME NEW x \in Int, NEW y \in Int, Same(x, y)
    PROVE  x % curve_order = y % curve_order
<1> DEFINE q == y \div curve_order
           rest == y % curve_order
<1>1. PICK n \in Int : x = y + curve_order * n
  BY DEF Same
<1>2. q \in Int /\ rest \in Int /\ 0 <= rest /\ rest < curve_order /\ y = curve_order * q + rest
  BY ScalarSizes, DivMod
<1> HIDE DEF q, rest
<1> DEFINE l == q + n
<1>3. x = curve_order * l + rest /\ l \in Int
  BY <1>1, <1>2, ScalarSizes
<1> HIDE DEF l
<1>4. x % curve_order = rest
  BY <1>2, <1>3, ScalarSizes, Unique
<1>5. QED
  BY <1>4 DEF rest

-----------------------------------------------------------------------------
(* The nine calls.                                                         *)

\* What the registers hold before each call.
Holds ==
    LET g1 == given[1]  g2 == given[2]  g3 == given[3] IN
    /\ call = 1 => r = g2
    /\ call = 2 => Same(r, g2 * R)
    /\ call \in 3 .. 10 => r \in Below /\ Same(r, g2)
    /\ call \in 1 .. 3 => h = g3
    /\ call = 4 => Same(h, g3 * R)
    /\ call \in {5, 6} => Same(h, g3)
    /\ call = 7 => h \in Below /\ Same(h, g3 * R)
    /\ call \in {6, 7} => Same(s, g1 * R)
    /\ call = 8 => Same(s, g1 * g3 * R)
    /\ call = 9 => s \in Below /\ Same(s, g1 * g3)
    /\ call = 10 => s = (g2 - g1 * g3) % curve_order

ScalarInv ==
    /\ given \in Triples
    /\ r \in Scalar /\ h \in Scalar /\ s \in Scalar
    /\ call \in 1 .. 10
    /\ Holds

LEMMA GivenAreScalars ==
    ASSUME given \in Triples
    PROVE  given[1] \in Scalar /\ given[2] \in Scalar /\ given[3] \in Scalar
BY TriplesAssumption

LEMMA ScalarsAreNumbers ==
    /\ \A x \in Scalar : x \in Int
    /\ \A x \in Below : x \in Scalar /\ x \in Int
    /\ 0 \in Scalar /\ 1 \in Below /\ Montgomery_Rprime \in Below /\ Below \subseteq Scalar
BY ScalarSizes DEF Scalar, Below

LEMMA TheCalls ==
    /\ Len(Calls) = 8
    /\ Calls[1] = <<"r", "Rprime", "r">> /\ Calls[2] = <<"r", "ONE", "r">>
    /\ Calls[3] = <<"h", "Rprime", "h">> /\ Calls[4] = <<"h", "ONE", "h">>
    /\ Calls[5] = <<"k", "Rprime", "s">> /\ Calls[6] = <<"h", "Rprime", "h">>
    /\ Calls[7] = <<"s", "h", "s">> /\ Calls[8] = <<"s", "ONE", "s">>
BY DEF Calls

LEMMA TheOperands ==
    /\ Operand("k") = given[1] /\ Operand("r") = r /\ Operand("h") = h /\ Operand("s") = s
    /\ Operand("Rprime") = Montgomery_Rprime /\ Operand("ONE") = 1
BY DEF Operand

\* Every multiplication's second operand is below the order, as MontgomeryExact asks.
LEMMA OperandsBelow ==
    ASSUME ScalarInv, call <= Len(Calls)
    PROVE  Operand(Calls[call][2]) \in Below
<1>1. call \in 1 .. 8
  BY TheCalls DEF ScalarInv
<1>2. CASE call \in {1, 3, 5, 6}
  BY <1>2, TheCalls, TheOperands, ScalarsAreNumbers
<1>3. CASE call \in {2, 4, 8}
  BY <1>3, TheCalls, TheOperands, ScalarsAreNumbers
<1>4. CASE call = 7
  BY <1>4, TheCalls, TheOperands DEF ScalarInv, Holds
<1>5. QED
  BY <1>1, <1>2, <1>3, <1>4

\* One call writes one register.
LEMMA MultiplicationStep ==
    ASSUME Multiplication, NEW x, NEW y, NEW z, Calls[call] = <<x, y, z>>
    PROVE  LET product == Montgomery_multiply_mod_order(Operand(x), Operand(y)) IN
           /\ r' = IF z = "r" THEN product ELSE r
           /\ h' = IF z = "h" THEN product ELSE h
           /\ s' = IF z = "s" THEN product ELSE s
           /\ call' = call + 1 /\ given' = given
BY DEF Multiplication

LEMMA MultiplicationKeeps ==
    ASSUME ScalarInv, Multiplication
    PROVE  ScalarInv'
<1> DEFINE g1 == given[1]  g2 == given[2]  g3 == given[3]
<1>1. /\ call \in 1 .. 8 /\ call' = call + 1 /\ given' = given /\ given \in Triples
      /\ r \in Scalar /\ h \in Scalar /\ s \in Scalar
  BY TheCalls DEF ScalarInv, Multiplication
<1>2. /\ g1 \in Scalar /\ g2 \in Scalar /\ g3 \in Scalar
      /\ g1 \in Int /\ g2 \in Int /\ g3 \in Int /\ g1 * g3 \in Int
  BY <1>1, GivenAreScalars, ScalarsAreNumbers
<1>3. Same(g1, g1) /\ Same(g2, g2) /\ Same(g3, g3)
  BY <1>2, SameSelf
<1>4. CASE call = 1
  <2>1. /\ r' = Montgomery_multiply_mod_order(r, Montgomery_Rprime)
        /\ h' = h /\ s' = s
    BY <1>4, MultiplicationStep, TheCalls, TheOperands
  <2>2. r = g2 /\ h = g3
    BY <1>4 DEF ScalarInv, Holds
  <2>3. r' \in Below /\ Same(r', g2 * R)
    BY <1>1, <1>2, <1>3, <2>1, <2>2, IntoForm
  <2>4. QED
    BY <1>1, <1>4, <2>1, <2>2, <2>3, ScalarsAreNumbers DEF ScalarInv, Holds
<1>5. CASE call = 2
  <2>1. r' = Montgomery_multiply_mod_order(r, 1) /\ h' = h /\ s' = s
    BY <1>5, MultiplicationStep, TheCalls, TheOperands
  <2>2. Same(r, g2 * R) /\ h = g3
    BY <1>5 DEF ScalarInv, Holds
  <2>3. r' \in Below /\ Same(r', g2)
    BY <1>1, <1>2, <2>1, <2>2, OutOfForm
  <2>4. QED
    BY <1>1, <1>5, <2>1, <2>2, <2>3, ScalarsAreNumbers DEF ScalarInv, Holds
<1>6. CASE call \in 3 .. 8
  <2> DEFINE Rest == r \in Below /\ Same(r, g2)
  <2>1. Rest /\ call' \in 4 .. 9
    BY <1>1, <1>6 DEF ScalarInv, Holds
  <2>2. CASE call = 3
    <3>1. h' = Montgomery_multiply_mod_order(h, Montgomery_Rprime) /\ r' = r /\ s' = s
      BY <2>2, MultiplicationStep, TheCalls, TheOperands
    <3>2. h = g3
      BY <2>2 DEF ScalarInv, Holds
    <3>3. h' \in Below /\ Same(h', g3 * R)
      BY <1>1, <1>2, <1>3, <3>1, <3>2, IntoForm
    <3>4. QED
      BY <1>1, <2>1, <2>2, <3>1, <3>3, ScalarsAreNumbers DEF ScalarInv, Holds
  <2>3. CASE call = 4
    <3>1. h' = Montgomery_multiply_mod_order(h, 1) /\ r' = r /\ s' = s
      BY <2>3, MultiplicationStep, TheCalls, TheOperands
    <3>2. Same(h, g3 * R)
      BY <2>3 DEF ScalarInv, Holds
    <3>3. h' \in Below /\ Same(h', g3)
      BY <1>1, <1>2, <3>1, <3>2, OutOfForm
    <3>4. QED
      BY <1>1, <2>1, <2>3, <3>1, <3>3, ScalarsAreNumbers DEF ScalarInv, Holds
  <2>4. CASE call = 5
    <3>1. s' = Montgomery_multiply_mod_order(g1, Montgomery_Rprime) /\ r' = r /\ h' = h
      BY <2>4, MultiplicationStep, TheCalls, TheOperands
    <3>2. Same(h, g3)
      BY <2>4 DEF ScalarInv, Holds
    <3>3. s' \in Below /\ Same(s', g1 * R)
      BY <1>2, <1>3, <3>1, IntoForm
    <3>4. QED
      BY <1>1, <2>1, <2>4, <3>1, <3>2, <3>3, ScalarsAreNumbers DEF ScalarInv, Holds
  <2>5. CASE call = 6
    <3>1. h' = Montgomery_multiply_mod_order(h, Montgomery_Rprime) /\ r' = r /\ s' = s
      BY <2>5, MultiplicationStep, TheCalls, TheOperands
    <3>2. Same(h, g3) /\ Same(s, g1 * R)
      BY <2>5 DEF ScalarInv, Holds
    <3>3. h' \in Below /\ Same(h', g3 * R)
      BY <1>1, <1>2, <3>1, <3>2, IntoForm
    <3>4. QED
      BY <1>1, <2>1, <2>5, <3>1, <3>2, <3>3, ScalarsAreNumbers DEF ScalarInv, Holds
  <2>6. CASE call = 7
    <3>1. s' = Montgomery_multiply_mod_order(s, h) /\ r' = r /\ h' = h
      BY <2>6, MultiplicationStep, TheCalls, TheOperands
    <3>2. h \in Below /\ Same(h, g3 * R) /\ Same(s, g1 * R)
      BY <2>6 DEF ScalarInv, Holds
    <3>3. s' \in Below /\ Same(s', g1 * g3 * R)
      BY <1>1, <1>2, <3>1, <3>2, WithinForm
    <3>4. QED
      BY <1>1, <2>1, <2>6, <3>1, <3>3, ScalarsAreNumbers DEF ScalarInv, Holds
  <2>7. CASE call = 8
    <3>1. s' = Montgomery_multiply_mod_order(s, 1) /\ r' = r /\ h' = h
      BY <2>7, MultiplicationStep, TheCalls, TheOperands
    <3>2. Same(s, g1 * g3 * R)
      BY <2>7 DEF ScalarInv, Holds
    <3>3. s' \in Below /\ Same(s', g1 * g3)
      BY <1>1, <1>2, <3>1, <3>2, OutOfForm
    <3>4. QED
      BY <1>1, <2>1, <2>7, <3>1, <3>3, ScalarsAreNumbers DEF ScalarInv, Holds
  <2>8. QED
    BY <1>6, <2>2, <2>3, <2>4, <2>5, <2>6, <2>7
<1>7. QED
  BY <1>1, <1>4, <1>5, <1>6

LEMMA SubtractionKeeps ==
    ASSUME ScalarInv, Subtraction
    PROVE  ScalarInv'
<1> DEFINE g1 == given[1]  g2 == given[2]  g3 == given[3]
<1>1. /\ call = 9 /\ call' = 10 /\ s' = Difference(r, s) /\ given \in Triples
      /\ UNCHANGED <<given, r, h>> /\ r \in Scalar /\ h \in Scalar
  BY TheCalls DEF ScalarInv, Subtraction
<1>2. r \in Below /\ Same(r, g2) /\ s \in Below /\ Same(s, g1 * g3)
  BY <1>1 DEF ScalarInv, Holds
<1>3. /\ g1 * g3 \in Int /\ g2 \in Int /\ r \in Int /\ s \in Int
      /\ r - s \in Int /\ g2 - g1 * g3 \in Int
  BY <1>1, <1>2, GivenAreScalars, ScalarsAreNumbers
<1>4. Same(r - s, g2 - g1 * g3)
  BY <1>2, <1>3, SameProduct
<1>5. s' = (g2 - g1 * g3) % curve_order
  BY <1>1, <1>2, <1>3, <1>4, DifferenceExact, SameRemainder
<1>6. s' \in Below
  <2>1. \A x \in Int : x % curve_order \in Below
    BY ScalarSizes, DivMod DEF Below
  <2>2. QED
    BY <1>3, <1>5, <2>1
<1>7. QED
  BY <1>1, <1>2, <1>5, <1>6, ScalarsAreNumbers DEF ScalarInv, Holds

\* sign computes r - k * h modulo the order, fully reduced, from any three 256-bit hashes:
\* no carry is lost on the way, and verify's test of the scalar's size never refuses it.
THEOREM SignatureScalar == ScalarSpec => []SignatureScalarExact
<1>1. ScalarInit => ScalarInv
  BY GivenAreScalars, ScalarsAreNumbers DEF ScalarInit, ScalarInv, Holds
<1>2. ScalarInv /\ [ScalarNext]_scalarVars => ScalarInv'
  <2> SUFFICES ASSUME ScalarInv, [ScalarNext]_scalarVars PROVE ScalarInv'
    OBVIOUS
  <2>1. CASE Multiplication
    BY <2>1, MultiplicationKeeps
  <2>2. CASE Subtraction
    BY <2>2, SubtractionKeeps
  <2>3. CASE UNCHANGED scalarVars
    BY <2>3 DEF scalarVars, ScalarInv, Holds
  <2>4. QED
    BY <2>1, <2>2, <2>3 DEF ScalarNext
<1>3. ScalarInv => SignatureScalarExact
  <2> SUFFICES ASSUME ScalarInv PROVE SignatureScalarExact
    OBVIOUS
  <2>1. call <= Len(Calls) => Operand(Calls[call][2]) < curve_order
    BY OperandsBelow, ScalarSizes DEF Below
  <2>2. call = Len(Calls) + 2 => s = (given[2] - given[1] * given[3]) % curve_order
    BY TheCalls DEF ScalarInv, Holds
  <2>3. QED
    BY <2>1, <2>2 DEF SignatureScalarExact, ScalarInv
<1>4. QED
  BY <1>1, <1>2, <1>3, PTL DEF ScalarSpec

-----------------------------------------------------------------------------
(* Signed windows.                                                         *)

\* Induction over an interval.
LEMMA UpTo ==
    ASSUME NEW n \in Nat, NEW S, 0 \in S, \A k \in 0 .. n - 1 : k \in S => k + 1 \in S
    PROVE  \A k \in 0 .. n : k \in S
<1> DEFINE Missing == {k \in 0 .. n : k \notin S}
<1> SUFFICES ASSUME Missing # {} PROVE FALSE
  OBVIOUS
<1>1. Missing \in SUBSET Nat
  OBVIOUS
<1>2. PICK k \in Missing : \A x \in Missing : <<x, k>> \notin OpToRel(<, Nat)
  <2> HIDE DEF Missing
  <2>1. QED
    BY <1>1, NatLessThanWellFounded, WFMin
<1>3. k \in 0 .. n /\ k # 0 /\ k \notin S
  BY <1>2
<1>4. k - 1 \in 0 .. n - 1 /\ k - 1 + 1 = k
  BY <1>3
<1>5. k - 1 \in Missing
  BY <1>3, <1>4
<1>6. <<k - 1, k>> \in OpToRel(<, Nat)
  BY <1>3, <1>4 DEF OpToRel
<1>7. QED
  BY <1>2, <1>5, <1>6

\* Powers of two, up to the Lth.
Doubles(L) == L \in Nat /\ 2 ^ 0 = 1 /\ \A n \in 0 .. L : 2 ^ n \in Nat /\ 2 ^ (n + 1) = 2 * 2 ^ n

\* Every power is twice the one before.
LEMMA DoublesIs ==
    ASSUME NEW L, Doubles(L), NEW n \in 0 .. L
    PROVE  2 ^ n \in Nat /\ 2 ^ n >= 1 /\ (n # 0 => 2 ^ n = 2 * 2 ^ (n - 1))
<1> DEFINE Good == {k \in 0 .. L : 2 ^ k >= 1}
<1>1. L \in Nat /\ 2 ^ 0 = 1 /\ \A k \in 0 .. L : 2 ^ k \in Nat /\ 2 ^ (k + 1) = 2 * 2 ^ k
  BY DEF Doubles
<1>2. 0 \in Good
  BY <1>1
<1>3. \A k \in 0 .. L - 1 : k \in Good => k + 1 \in Good
  <2> SUFFICES ASSUME NEW k \in 0 .. L - 1, k \in Good PROVE k + 1 \in Good
    OBVIOUS
  <2> DEFINE x == 2 ^ k
             y == 2 ^ (k + 1)
  <2>1. k \in 0 .. L /\ k + 1 \in 0 .. L
    BY <1>1
  <2>2. x \in Nat /\ x >= 1 /\ y = 2 * x
    BY <1>1, <2>1
  <2> HIDE DEF x, y
  <2>3. y >= 1
    BY <2>2
  <2>4. QED
    BY <2>1, <2>3 DEF y
<1>4. \A k \in 0 .. L : k \in Good
  <2> HIDE DEF Good
  <2>1. QED
    BY <1>1, <1>2, <1>3, UpTo
<1>5. n # 0 => 2 ^ n = 2 * 2 ^ (n - 1)
  <2> SUFFICES ASSUME n # 0 PROVE 2 ^ n = 2 * 2 ^ (n - 1)
    OBVIOUS
  <2> DEFINE m == n - 1
  <2>1. m \in 0 .. L /\ m + 1 = n
    BY <1>1
  <2> HIDE DEF m
  <2>2. 2 ^ (m + 1) = 2 * 2 ^ m
    BY <1>1, <2>1
  <2>3. QED
    BY <2>1, <2>2 DEF m
<1>6. QED
  BY <1>1, <1>4, <1>5

\* Powers are multiplied by adding their exponents.
LEMMA DoublesPlus ==
    ASSUME NEW L, Doubles(L), NEW m \in Nat, NEW n \in Nat, m + n <= L
    PROVE  2 ^ (m + n) = 2 ^ m * 2 ^ n
<1> DEFINE Good == {k \in 0 .. n : 2 ^ (m + k) = 2 ^ m * 2 ^ k}
<1>1. L \in Nat
  BY DEF Doubles
<1>2. 0 \in Good
  <2>1. 2 ^ m \in Nat /\ 2 ^ 0 = 1 /\ m + 0 = m
    BY <1>1 DEF Doubles
  <2> DEFINE x == 2 ^ m
  <2> HIDE DEF x
  <2>2. x * 1 = x
    BY <2>1 DEF x
  <2>3. QED
    BY <2>1, <2>2 DEF x
<1>3. \A k \in 0 .. n - 1 : k \in Good => k + 1 \in Good
  <2> SUFFICES ASSUME NEW k \in 0 .. n - 1, k \in Good PROVE k + 1 \in Good
    OBVIOUS
  <2> DEFINE i == k + 1
             j == m + k
             l == m + i
  <2>1. /\ i \in 0 .. L /\ i # 0 /\ i - 1 = k /\ k \in 0 .. L /\ m \in 0 .. L
        /\ l \in 0 .. L /\ l # 0 /\ l - 1 = j /\ j \in 0 .. L /\ i \in 0 .. n
    BY <1>1
  <2> HIDE DEF i, j, l
  <2>2. 2 ^ i = 2 * 2 ^ k /\ 2 ^ l = 2 * 2 ^ j
    <3>1. 2 ^ i = 2 * 2 ^ (i - 1)
      BY <2>1, DoublesIs
    <3>2. 2 ^ l = 2 * 2 ^ (l - 1)
      BY <2>1, DoublesIs
    <3>3. QED
      BY <2>1, <3>1, <3>2
  <2>3. 2 ^ j = 2 ^ m * 2 ^ k
    BY DEF j
  <2>4. 2 ^ k \in Nat /\ 2 ^ m \in Nat
    BY <2>1, DoublesIs
  <2> DEFINE x == 2 ^ m
             y == 2 ^ k
             z == 2 ^ j
  <2>5. x \in Nat /\ y \in Nat /\ z = x * y
    BY <2>3, <2>4
  <2> HIDE DEF x, y, z
  <2>6. 2 * z = x * (2 * y)
    BY <2>5
  <2>7. 2 ^ l = 2 ^ m * 2 ^ i
    BY <2>2, <2>6 DEF x, y, z
  <2>8. QED
    BY <2>1, <2>7 DEF i, l
<1> HIDE DEF Good
<1>4. \A k \in 0 .. n : k \in Good
  BY <1>2, <1>3, UpTo
<1>5. n \in Good
  BY <1>4
<1>6. QED
  BY <1>5 DEF Good

\* The powers of a word.
LEMMA PowerIs ==
    ASSUME NEW n \in 0 .. HalfBits
    PROVE  2 ^ n \in Nat /\ 2 ^ n >= 1 /\ (n # 0 => 2 ^ n = 2 * 2 ^ (n - 1))
<1>1. Doubles(HalfBits)
  BY PowersAssumption DEF Doubles
<1>2. QED
  BY <1>1, DoublesIs

LEMMA PowerPlus ==
    ASSUME NEW m \in Nat, NEW n \in Nat, m + n <= HalfBits
    PROVE  2 ^ (m + n) = 2 ^ m * 2 ^ n
<1>1. Doubles(HalfBits)
  BY PowersAssumption DEF Doubles
<1>2. QED
  BY <1>1, DoublesPlus

LEMMA PowerGrows ==
    ASSUME NEW m \in Nat, NEW n \in Nat, m <= n, n <= HalfBits
    PROVE  2 ^ m <= 2 ^ n
<1> DEFINE k == n - m
           x == 2 ^ m
           y == 2 ^ k
<1>1. k \in Nat /\ m + k = n /\ m \in 0 .. HalfBits /\ k \in 0 .. HalfBits
  BY PowersAssumption
<1> HIDE DEF k
<1>2. 2 ^ (m + k) = 2 ^ m * 2 ^ k
  BY <1>1, PowerPlus
<1>3. x \in Nat /\ y \in Nat /\ y >= 1
  BY <1>1, PowerIs
<1> HIDE DEF x, y
<1>4. x <= x * y
  BY <1>3
<1>5. QED
  BY <1>1, <1>2, <1>4 DEF x, y

\* A window's digit, and what is left of the scalar above it.
DigitOf(scalar, w) ==
    IF scalar % 2 ^ w > 2 ^ (w - 1) - 1 THEN (scalar % 2 ^ w) - 2 ^ w ELSE scalar % 2 ^ w
RestOf(scalar, w) == (scalar \div 2 ^ w) + (IF DigitOf(scalar, w) < 0 THEN 1 ELSE 0)
ZeroDigits(w) == [i \in 1 .. w - 1 |-> 0]

Windows == {w \in Nat : 2 <= w /\ w <= HalfBits}

\* The window of an odd scalar: an odd digit below half the window in size, and fewer
\* bits to go.
LEMMA WindowIs ==
    ASSUME NEW w \in Windows, NEW scalar \in Nat, scalar % 2 = 1
    PROVE  /\ 2 ^ w \in Nat /\ 2 ^ (w - 1) \in Nat /\ 2 ^ w = 2 * 2 ^ (w - 1)
           /\ DigitOf(scalar, w) \in -(2 ^ (w - 1)) + 1 .. 2 ^ (w - 1) - 1
           /\ DigitOf(scalar, w) % 2 = 1
           /\ RestOf(scalar, w) \in Nat /\ RestOf(scalar, w) < scalar
           /\ scalar = DigitOf(scalar, w) + 2 ^ w * RestOf(scalar, w)
           /\ \A k \in Nat : scalar <= 2 ^ w * k => RestOf(scalar, w) <= k
           /\ scalar <= 2 ^ (w - 1) => RestOf(scalar, w) = 0
<1> DEFINE q == 2 ^ w
           e == 2 ^ (w - 1)
           low == scalar % q
           high == scalar \div q
           d == DigitOf(scalar, w)
           rest == RestOf(scalar, w)
<1>1. w \in Nat /\ w >= 2 /\ w <= HalfBits /\ HalfBits \in Nat
  BY PowersAssumption DEF Windows
<1>2. q = 2 * e /\ e \in Nat /\ \E u \in Nat : u >= 1 /\ e = 2 * u
  <2> DEFINE i == w - 1
             j == i - 1
  <2>1. i \in 0 .. HalfBits /\ i # 0 /\ w \in 0 .. HalfBits /\ w # 0 /\ j \in 0 .. HalfBits
    BY <1>1
  <2> HIDE DEF i, j
  <2>2. 2 ^ w = 2 * 2 ^ (w - 1)
    BY <2>1, PowerIs
  <2>3. 2 ^ i \in Nat /\ 2 ^ i = 2 * 2 ^ (i - 1)
    BY <2>1, PowerIs
  <2>4. 2 ^ j \in Nat /\ 2 ^ j >= 1
    BY <2>1, PowerIs
  <2> DEFINE u == 2 ^ j
  <2>5. u \in Nat /\ u >= 1 /\ e = 2 * u
    BY <2>3, <2>4 DEF i, j
  <2> HIDE DEF u, e
  <2>6. QED
    BY <2>2, <2>3, <2>5 DEF i, e
<1>3. PICK u \in Nat : u >= 1 /\ e = 2 * u
  BY <1>2
<1>4. d = IF low > e - 1 THEN low - q ELSE low
  BY DEF DigitOf
<1>5. rest = high + (IF d < 0 THEN 1 ELSE 0)
  BY DEF RestOf
<1> HIDE DEF q, e, d, rest
<1>6. e >= 2 /\ q >= 4 /\ q \in Nat /\ e \in Nat /\ q = 4 * u
  BY <1>2, <1>3
<1>7. low \in Nat /\ low < q /\ high \in Int /\ scalar = q * high + low
  <2>1. q > 0 /\ scalar \in Int
    BY <1>6
  <2>2. low \in Int /\ high \in Int /\ 0 <= low /\ low < q /\ scalar = q * high + low
    BY <1>6, <2>1, DivMod, Zenon
  <2> HIDE DEF low, high
  <2>3. QED
    BY <2>2
<1> HIDE DEF low, high
<1>8. high \in Nat
  <2> SUFFICES ASSUME high < 0 PROVE FALSE
    BY <1>7
  <2>1. q * high <= q * (-1)
    BY <1>6, <1>7
  <2>2. QED
    BY <1>6, <1>7, <2>1
<1>9. q * high \in Nat /\ q * high >= 4 * high
  BY <1>6, <1>8
<1>10. low % 2 = 1
  <2>1. q * high = 2 * (2 * (u * high)) /\ u * high \in Nat
    BY <1>3, <1>6, <1>8
  <2> DEFINE x == 2 * (u * high)
  <2>2. x \in Nat /\ scalar = 2 * x + low
    BY <1>7, <2>1
  <2> HIDE DEF x
  <2>3. QED
    BY <1>7, <2>2
<1>11. low # e
  BY <1>3, <1>10
<1>12. CASE low <= e - 1
  <2>1. d = low /\ rest = high
    BY <1>4, <1>5, <1>6, <1>7, <1>12
  <2>2. scalar = d + q * rest
    BY <1>7, <1>9, <2>1
  <2>3. d \in -e + 1 .. e - 1 /\ d % 2 = 1
    BY <1>6, <1>7, <1>10, <1>12, <2>1
  <2>4. rest \in Nat /\ rest < scalar
    <3> DEFINE x == q * high
    <3> HIDE DEF x
    <3>1. x \in Nat /\ x >= 4 * high /\ scalar = x + low /\ low >= 1
      BY <1>7, <1>9, <1>10 DEF x
    <3>2. QED
      BY <1>7, <1>8, <2>1, <3>1
  <2>5. ASSUME NEW k \in Nat, scalar <= q * k
        PROVE  rest <= k
    <3> SUFFICES ASSUME k < high PROVE FALSE
      BY <1>8, <2>1
    <3>1. q * k <= q * high /\ q * k \in Nat
      <4>1. high - k \in Nat /\ q * high = q * k + q * (high - k)
        BY <1>6, <1>8
      <4> DEFINE l == high - k
      <4>2. q * l \in Nat /\ q * k \in Nat
        <5>1. l \in Nat
          BY <4>1
        <5> HIDE DEF l
        <5>2. QED
          BY <1>6, <5>1
      <4>3. q * high = q * k + q * l
        BY <4>1
      <4> DEFINE a1 == q * k
                 a2 == q * l
                 a3 == q * high
      <4>4. a3 = a1 + a2 /\ a1 \in Nat /\ a2 \in Nat
        BY <4>2, <4>3
      <4> HIDE DEF a1, a2, a3
      <4>5. a1 <= a3
        BY <4>4
      <4>6. QED
        BY <4>4, <4>5 DEF a1, a3
    <3> DEFINE x == q * high
               y == q * k
    <3>2. x \in Nat /\ y \in Nat /\ y <= x /\ scalar = x + low /\ scalar <= y /\ low >= 1
      BY <1>7, <1>9, <1>10, <2>5, <3>1
    <3> HIDE DEF x, y
    <3>3. QED
      BY <1>7, <3>2
  <2>6. scalar <= e => rest = 0
    <3> SUFFICES ASSUME scalar <= e, high >= 1 PROVE FALSE
      BY <1>8, <2>1
    <3>1. q * high >= q
      BY <1>6, <1>8
    <3> DEFINE x == q * high
    <3>2. x >= q /\ x \in Nat /\ scalar = x + low
      BY <1>7, <1>9, <3>1
    <3> HIDE DEF x
    <3>3. QED
      BY <1>2, <1>6, <1>7, <3>2
  <2>7. QED
    BY <1>2, <1>6, <2>2, <2>3, <2>4, <2>5, <2>6 DEF q, e, d, rest
<1>13. CASE low > e - 1
  <2>1. d = low - q /\ d < 0 /\ rest = high + 1
    BY <1>4, <1>5, <1>6, <1>7, <1>13
  <2>2. scalar = d + q * rest
    <3>1. q * (high + 1) = q * high + q
      BY <1>6, <1>8
    <3> DEFINE x == q * high
               y == q * (high + 1)
    <3>2. x \in Nat /\ y = x + q /\ scalar = x + low
      BY <1>7, <1>9, <3>1
    <3> HIDE DEF x, y
    <3>3. scalar = d + y
      BY <1>6, <1>7, <2>1, <3>2
    <3>4. QED
      BY <2>1, <3>3 DEF y
  <2>3. d \in -e + 1 .. e - 1 /\ d % 2 = 1
    <3>1. d \in -e + 1 .. e - 1
      BY <1>2, <1>6, <1>7, <1>11, <1>13, <2>1
    <3>2. d = low + 2 * (-(2 * u)) /\ -(2 * u) \in Int
      BY <1>6, <1>7, <2>1
    <3>3. QED
      BY <1>7, <1>10, <3>1, <3>2
  <2>4. rest \in Nat /\ rest < scalar
    <3> DEFINE x == q * high
    <3> HIDE DEF x
    <3>1. x \in Nat /\ x >= 4 * high /\ scalar = x + low /\ low >= 2
      BY <1>6, <1>7, <1>9, <1>13 DEF x
    <3>2. QED
      BY <1>7, <1>8, <2>1, <3>1
  <2>5. ASSUME NEW k \in Nat, scalar <= q * k
        PROVE  rest <= k
    <3> SUFFICES ASSUME k <= high PROVE FALSE
      BY <1>8, <2>1
    <3>1. q * k <= q * high /\ q * k \in Nat
      <4>1. high - k \in Nat /\ q * high = q * k + q * (high - k)
        BY <1>6, <1>8
      <4> DEFINE l == high - k
      <4>2. q * l \in Nat /\ q * k \in Nat
        <5>1. l \in Nat
          BY <4>1
        <5> HIDE DEF l
        <5>2. QED
          BY <1>6, <5>1
      <4>3. q * high = q * k + q * l
        BY <4>1
      <4> DEFINE a1 == q * k
                 a2 == q * l
                 a3 == q * high
      <4>4. a3 = a1 + a2 /\ a1 \in Nat /\ a2 \in Nat
        BY <4>2, <4>3
      <4> HIDE DEF a1, a2, a3
      <4>5. a1 <= a3
        BY <4>4
      <4>6. QED
        BY <4>4, <4>5 DEF a1, a3
    <3> DEFINE x == q * high
               y == q * k
    <3>2. x \in Nat /\ y \in Nat /\ y <= x /\ scalar = x + low /\ scalar <= y /\ low >= 1
      BY <1>7, <1>9, <1>10, <2>5, <3>1
    <3> HIDE DEF x, y
    <3>3. QED
      BY <1>7, <3>2
  <2>6. ~ (scalar <= e)
    <3> DEFINE x == q * high
    <3>1. x \in Nat /\ scalar = x + low
      BY <1>7, <1>9
    <3> HIDE DEF x
    <3>2. QED
      BY <1>6, <1>7, <1>11, <1>13, <3>1
  <2>7. QED
    BY <1>2, <1>6, <2>2, <2>3, <2>4, <2>5, <2>6 DEF q, e, d, rest
<1>14. QED
  BY <1>6, <1>7, <1>12, <1>13

\* The digits of every number up to m.
NafTurn(w, f, scalar) ==
    IF scalar = 0 THEN <<>>
    ELSE IF scalar % 2 = 0 THEN <<0>> \o f[scalar \div 2]
    ELSE IF RestOf(scalar, w) = 0 THEN <<DigitOf(scalar, w)>>
    ELSE <<DigitOf(scalar, w)>> \o ZeroDigits(w) \o f[RestOf(scalar, w)]
NafUpTo(w, m, f) == [scalar \in 0 .. m |-> NafTurn(w, f, scalar)]
NafOf(w, m) == CHOOSE f : f = NafUpTo(w, m, f)

\* They are those of wNAF.
LEMMA NafIs == \A w : wNAF(w) = NafOf(w, Half - 1)
BY Zenon DEF wNAF, NafOf, NafUpTo, NafTurn, RestOf, DigitOf, ZeroDigits

\* A number is zero, or even, or has a digit and a rest, which is zero or not.
LEMMA NafZero ==
    ASSUME NEW w, NEW f
    PROVE  NafTurn(w, f, 0) = <<>>
BY DEF NafTurn

LEMMA NafEven ==
    ASSUME NEW w, NEW f, NEW scalar \in Nat, scalar # 0, scalar % 2 = 0
    PROVE  /\ scalar \div 2 \in Nat /\ scalar \div 2 < scalar /\ scalar = 2 * (scalar \div 2)
           /\ NafTurn(w, f, scalar) = <<0>> \o f[scalar \div 2]
<1>1. NafTurn(w, f, scalar) = <<0>> \o f[scalar \div 2]
  BY Zenon DEF NafTurn
<1>2. scalar \div 2 \in Nat /\ scalar \div 2 < scalar /\ scalar = 2 * (scalar \div 2)
  OBVIOUS
<1>3. QED
  BY <1>1, <1>2, Zenon

LEMMA NafLast ==
    ASSUME NEW w, NEW f, NEW scalar \in Nat, scalar % 2 = 1, RestOf(scalar, w) = 0
    PROVE  NafTurn(w, f, scalar) = <<DigitOf(scalar, w)>>
<1>1. scalar # 0 /\ scalar % 2 # 0
  OBVIOUS
<1>2. QED
  BY <1>1, Zenon DEF NafTurn

LEMMA NafOdd ==
    ASSUME NEW w, NEW f, NEW scalar \in Nat, scalar % 2 = 1, RestOf(scalar, w) # 0
    PROVE  NafTurn(w, f, scalar) = <<DigitOf(scalar, w)>> \o ZeroDigits(w) \o f[RestOf(scalar, w)]
<1>1. scalar # 0 /\ scalar % 2 # 0
  OBVIOUS
<1>2. QED
  BY <1>1, Zenon DEF NafTurn

\* A number's digits depend on those of smaller ones only.
LEMMA NafAgrees ==
    ASSUME NEW w \in Windows, NEW f, NEW g, NEW scalar \in Nat, \A x \in 0 .. scalar - 1 : f[x] = g[x]
    PROVE  NafTurn(w, f, scalar) = NafTurn(w, g, scalar)
<1> DEFINE rest == RestOf(scalar, w)
           low == scalar \div 2
<1>1. CASE scalar = 0
  BY <1>1, NafZero
<1>2. CASE scalar # 0 /\ scalar % 2 = 0
  <2>1. low \in Nat /\ low < scalar
    BY <1>2
  <2>2. f[low] = g[low]
    BY <2>1
  <2>3. NafTurn(w, f, scalar) = <<0>> \o f[low]
    BY <1>2, NafEven
  <2>4. NafTurn(w, g, scalar) = <<0>> \o g[low]
    BY <1>2, NafEven
  <2>5. QED
    BY <2>2, <2>3, <2>4, Zenon
<1>3. CASE scalar % 2 = 1 /\ rest = 0
  <2>1. NafTurn(w, f, scalar) = <<DigitOf(scalar, w)>>
    BY <1>3, NafLast
  <2>2. NafTurn(w, g, scalar) = <<DigitOf(scalar, w)>>
    BY <1>3, NafLast
  <2>3. QED
    BY <2>1, <2>2
<1>4. CASE scalar % 2 = 1 /\ rest # 0
  <2>1. NafTurn(w, f, scalar) = <<DigitOf(scalar, w)>> \o ZeroDigits(w) \o f[rest]
    BY <1>4, NafOdd
  <2>2. NafTurn(w, g, scalar) = <<DigitOf(scalar, w)>> \o ZeroDigits(w) \o g[rest]
    BY <1>4, NafOdd
  <2>3. rest \in Nat /\ rest < scalar
    BY <1>4, WindowIs
  <2> HIDE DEF rest
  <2>4. f[rest] = g[rest]
    BY <2>3
  <2>5. QED
    BY <2>1, <2>2, <2>4, Zenon
<1>5. scalar % 2 = 0 \/ scalar % 2 = 1
  OBVIOUS
<1>6. QED
  BY <1>1, <1>2, <1>3, <1>4, <1>5, Zenon

\* So that there are such digits.
LEMMA NafSolved ==
    ASSUME NEW w \in Windows, NEW n \in Nat
    PROVE  NafOf(w, n) = NafUpTo(w, n, NafOf(w, n))
<1> DEFINE Solvable == {m \in 0 .. n : \E f : f = NafUpTo(w, m, f)}
<1>1. \E f : f = NafUpTo(w, 0, f)
  <2> DEFINE f == [x \in 0 .. 0 |-> NafTurn(w, <<>>, x)]
  <2>1. \A x \in 0 .. 0 : NafTurn(w, <<>>, x) = NafTurn(w, f, x)
    <3> SUFFICES ASSUME NEW x \in 0 .. 0 PROVE NafTurn(w, <<>>, x) = NafTurn(w, f, x)
      OBVIOUS
    <3> DEFINE empty == <<>>
    <3> HIDE DEF f, empty
    <3>1. x \in Nat /\ \A y \in 0 .. x - 1 : empty[y] = f[y]
      OBVIOUS
    <3>2. NafTurn(w, empty, x) = NafTurn(w, f, x)
      BY <3>1, NafAgrees
    <3>3. QED
      BY <3>2 DEF empty
  <2>2. f = NafUpTo(w, 0, f)
    BY <2>1, Zenon DEF NafUpTo
  <2>3. QED
    BY <2>2
<1>2. ASSUME NEW m \in 0 .. n - 1, NEW f, f = NafUpTo(w, m, f)
      PROVE  \E g : g = NafUpTo(w, m + 1, g)
  <2> DEFINE next == m + 1
             g == [x \in 0 .. next |-> IF x = next THEN NafTurn(w, f, x) ELSE f[x]]
  <2>1. next \in Nat /\ next # 0 /\ \A x \in 0 .. next : x \in Nat /\ (x = next \/ x \in 0 .. m)
    OBVIOUS
  <2>2. \A x \in 0 .. m : g[x] = f[x]
    OBVIOUS
  <2>3. \A x \in 0 .. m : f[x] = NafTurn(w, f, x)
    <3>1. f = [x \in 0 .. m |-> NafTurn(w, f, x)]
      BY <1>2, Zenon DEF NafUpTo
    <3>2. QED
      BY <3>1
  <2>4. ASSUME NEW x \in 0 .. next
        PROVE  (IF x = next THEN NafTurn(w, f, x) ELSE f[x]) = NafTurn(w, g, x)
    <3> HIDE DEF g
    <3>1. \A y \in 0 .. x - 1 : f[y] = g[y]
      BY <2>2
    <3>2. NafTurn(w, f, x) = NafTurn(w, g, x)
      <4>1. x \in Nat
        OBVIOUS
      <4>2. QED
        BY <3>1, <4>1, NafAgrees
    <3> HIDE DEF next
    <3>3. QED
      BY <2>1, <2>3, <3>2, Zenon
  <2>5. g = NafUpTo(w, next, g)
    <3>1. g = [x \in 0 .. next |-> IF x = next THEN NafTurn(w, f, x) ELSE f[x]]
      OBVIOUS
    <3> HIDE DEF g, next
    <3>2. QED
      BY <2>4, <3>1, Zenon DEF NafUpTo
  <2>6. QED
    BY <2>5, Zenon
<1>3. 0 \in Solvable /\ \A m \in 0 .. n - 1 : m \in Solvable => m + 1 \in Solvable
  <2>1. 0 \in 0 .. n /\ \A m \in 0 .. n - 1 : m + 1 \in 0 .. n
    OBVIOUS
  <2>2. QED
    BY <1>1, <1>2, <2>1, Zenon
<1>4. n \in Solvable
  <2> HIDE DEF Solvable
  <2>1. \A m \in 0 .. n : m \in Solvable
    BY <1>3, UpTo
  <2>2. QED
    BY <2>1
<1>5. \E f : f = NafUpTo(w, n, f)
  BY <1>4
<1>6. QED
  BY <1>5, Zenon DEF NafOf

\* From the top, one digit after the other, the digits d amount to scalar.
Amounts(d, scalar) ==
    \E v \in [0 .. Len(d) -> Int] :
        v[0] = scalar /\ v[Len(d)] = 0 /\ \A i \in 1 .. Len(d) : v[i - 1] = d[i] + 2 * v[i]

\* A digit is zero, or it is odd, has its place in the table and zeros behind it.
Spaced(w, d) ==
    \A i \in 1 .. Len(d) : d[i] # 0 =>
        /\ d[i] % 2 = 1 /\ d[i] \in -(2 ^ (w - 1)) + 1 .. 2 ^ (w - 1) - 1
        /\ \A j \in i + 1 .. i + w - 1 : j <= Len(d) => d[j] = 0

\* A scalar of n bits, or one more than they hold, has n + 1 digits at most.
Short(d, scalar) == \A n \in 0 .. HalfBits : scalar <= 2 ^ n => Len(d) <= n + 1

Recodes(w, d, scalar) == d \in Seq(Int) /\ Amounts(d, scalar) /\ Spaced(w, d) /\ Short(d, scalar)

LEMMA RecodesZero == ASSUME NEW w PROVE Recodes(w, <<>>, 0)
<1> DEFINE d == <<>>
           v == [i \in 0 .. 0 |-> 0]
<1>1. d \in Seq(Int) /\ Len(d) = 0
  OBVIOUS
<1> HIDE DEF d
<1>2. Amounts(d, 0)
  <2>1. v \in [0 .. Len(d) -> Int] /\ v[0] = 0 /\ v[Len(d)] = 0 /\ \A i \in 1 .. Len(d) : v[i - 1] = d[i] + 2 * v[i]
    BY <1>1
  <2> HIDE DEF v
  <2>2. QED
    BY <2>1, Zenon DEF Amounts
<1>3. Spaced(w, d) /\ Short(d, 0)
  BY <1>1, PowersAssumption DEF Spaced, Short
<1>4. QED
  BY <1>1, <1>2, <1>3, Zenon DEF Recodes, d

LEMMA RecodesEven ==
    ASSUME NEW w \in Windows, NEW scalar \in Nat, scalar # 0, NEW low \in Nat, scalar = 2 * low,
           NEW d, Recodes(w, d, low)
    PROVE  Recodes(w, <<0>> \o d, scalar)
<1> DEFINE e == <<0>> \o d
<1>1. d \in Seq(Int) /\ Amounts(d, low) /\ Spaced(w, d) /\ Short(d, low)
  BY Zenon DEF Recodes
<1>2. Len(d) \in Nat /\ \A i \in 1 .. Len(d) : d[i] \in Int
  BY <1>1
<1>3. e \in Seq(Int) /\ Len(e) = Len(d) + 1 /\ e[1] = 0 /\ \A i \in 2 .. Len(e) : e[i] = d[i - 1]
  BY <1>1
<1> HIDE DEF e
<1>4. Amounts(e, scalar)
  <2>1. PICK v \in [0 .. Len(d) -> Int] :
          v[0] = low /\ v[Len(d)] = 0 /\ \A i \in 1 .. Len(d) : v[i - 1] = d[i] + 2 * v[i]
    BY <1>1, Zenon DEF Amounts
  <2> DEFINE u == [i \in 0 .. Len(e) |-> IF i = 0 THEN scalar ELSE v[i - 1]]
  <2>2. u \in [0 .. Len(e) -> Int] /\ u[0] = scalar /\ u[Len(e)] = 0
    BY <1>2, <1>3, <2>1
  <2>3. ASSUME NEW i \in 1 .. Len(e)
        PROVE  u[i - 1] = e[i] + 2 * u[i]
    <3>1. CASE i = 1
      <4>1. u[0] = scalar /\ u[1] = low /\ e[1] = 0
        BY <1>2, <1>3, <2>1
      <4> HIDE DEF u
      <4>2. QED
        BY <3>1, <4>1
    <3>2. CASE i # 1
      <4>1. i - 1 \in 1 .. Len(d) /\ u[i - 1] = v[i - 2] /\ u[i] = v[i - 1] /\ e[i] = d[i - 1] /\ i - 2 = (i - 1) - 1
        BY <1>2, <1>3, <3>2
      <4>2. v[(i - 1) - 1] = d[i - 1] + 2 * v[i - 1]
        BY <2>1, <4>1
      <4> HIDE DEF u
      <4>3. QED
        BY <4>1, <4>2
    <3>3. QED
      BY <3>1, <3>2
  <2> HIDE DEF u
  <2>4. QED
    BY <2>2, <2>3, Zenon DEF Amounts
<1>5. Spaced(w, e)
  <2> SUFFICES ASSUME NEW i \in 1 .. Len(e), e[i] # 0
               PROVE  /\ e[i] % 2 = 1 /\ e[i] \in -(2 ^ (w - 1)) + 1 .. 2 ^ (w - 1) - 1
                      /\ \A j \in i + 1 .. i + w - 1 : j <= Len(e) => e[j] = 0
    BY Zenon DEF Spaced
  <2> DEFINE k == i - 1
  <2>1. k \in 1 .. Len(d) /\ e[i] = d[k]
    BY <1>2, <1>3
  <2>2. /\ d[k] % 2 = 1 /\ d[k] \in -(2 ^ (w - 1)) + 1 .. 2 ^ (w - 1) - 1
        /\ \A j \in k + 1 .. k + w - 1 : j <= Len(d) => d[j] = 0
    <3> HIDE DEF k
    <3>1. QED
      BY <1>1, <2>1, Zenon DEF Spaced
  <2>3. ASSUME NEW j \in i + 1 .. i + w - 1, j <= Len(e)
        PROVE  e[j] = 0
    <3>1. w \in Nat
      BY DEF Windows
    <3>2. j - 1 \in k + 1 .. k + w - 1 /\ j - 1 <= Len(d) /\ e[j] = d[j - 1]
      BY <1>2, <1>3, <2>1, <2>3, <3>1
    <3>3. QED
      BY <2>2, <3>2
  <2>4. QED
    BY <2>1, <2>2, <2>3
<1>6. Short(e, scalar)
  <2> SUFFICES ASSUME NEW n \in 0 .. HalfBits, scalar <= 2 ^ n PROVE Len(e) <= n + 1
    BY DEF Short
  <2>1. n # 0 /\ 2 ^ n = 2 * 2 ^ (n - 1)
    <3>1. 2 ^ 0 = 1
      BY PowersAssumption
    <3>2. n # 0
      <4> SUFFICES ASSUME n = 0 PROVE FALSE
        OBVIOUS
      <4>1. scalar <= 1
        BY <3>1
      <4>2. QED
        BY <4>1
    <3>3. QED
      BY <3>2, PowerIs
  <2> DEFINE m == n - 1
             x == 2 ^ m
  <2>2. m \in 0 .. HalfBits /\ n = m + 1
    BY <2>1, PowersAssumption
  <2>3. x \in Nat /\ scalar <= 2 * x
    <3>1. scalar <= 2 * x
      BY <2>1
    <3> HIDE DEF m
    <3>2. QED
      BY <2>2, <3>1, PowerIs
  <2> HIDE DEF x, m
  <2>4. low <= x
    BY <2>3
  <2>5. Len(d) <= m + 1
    BY <1>1, <2>2, <2>4 DEF Short, x
  <2>6. QED
    BY <1>2, <1>3, <2>2, <2>5
<1>7. QED
  BY <1>3, <1>4, <1>5, <1>6, Zenon DEF Recodes, e

LEMMA RecodesLast ==
    ASSUME NEW w \in Windows, NEW scalar \in Nat, scalar % 2 = 1, RestOf(scalar, w) = 0
    PROVE  Recodes(w, <<DigitOf(scalar, w)>>, scalar)
<1> DEFINE digit == DigitOf(scalar, w)
           d == <<digit>>
           v == [i \in 0 .. 1 |-> IF i = 0 THEN scalar ELSE 0]
           top == 2 ^ (w - 1)
           q == 2 ^ w
<1>1. digit \in -top + 1 .. top - 1 /\ digit % 2 = 1 /\ top \in Nat
  BY WindowIs
<1>2. scalar = digit
  <2>1. q \in Nat /\ scalar = digit + q * 0
    BY WindowIs
  <2> HIDE DEF q, digit
  <2>2. digit \in Int
    BY <1>1
  <2>3. QED
    BY <2>1, <2>2
<1> HIDE DEF digit, top
<1>3. d \in Seq(Int) /\ Len(d) = 1 /\ d[1] = digit
  BY <1>1
<1> HIDE DEF d
<1>4. Amounts(d, scalar)
  <2>1. v \in [0 .. Len(d) -> Int] /\ v[0] = scalar /\ v[Len(d)] = 0 /\ \A i \in 1 .. Len(d) : v[i - 1] = d[i] + 2 * v[i]
    BY <1>2, <1>3
  <2> HIDE DEF v
  <2>2. QED
    BY <2>1, Zenon DEF Amounts
<1>5. Spaced(w, d)
  <2>1. w \in Nat
    BY DEF Windows
  <2>2. \A i \in 1 .. Len(d) : d[i] # 0 =>
          /\ d[i] % 2 = 1 /\ d[i] \in -top + 1 .. top - 1
          /\ \A j \in i + 1 .. i + w - 1 : j <= Len(d) => d[j] = 0
    BY <1>1, <1>3, <2>1
  <2>3. QED
    BY <2>2, Zenon DEF Spaced, top
<1>6. Short(d, scalar)
  BY <1>3, PowersAssumption DEF Short
<1>7. QED
  BY <1>3, <1>4, <1>5, <1>6, Zenon DEF Recodes, d, digit

\* A digit and the zeros behind it, with the digits of the rest behind them.
LEMMA DigitZerosDigits ==
    ASSUME NEW w \in Windows, NEW digit \in Int, NEW d \in Seq(Int)
    PROVE  LET e == <<digit>> \o ZeroDigits(w) \o d
           IN  /\ e \in Seq(Int) /\ Len(e) = w + Len(d) /\ e[1] = digit
               /\ \A i \in 2 .. w : e[i] = 0
               /\ \A i \in w + 1 .. w + Len(d) : e[i] = d[i - w]
<1> DEFINE zeros == ZeroDigits(w)
           a == <<digit>> \o zeros
           e == a \o d
<1>1. w \in Nat /\ w >= 2
  BY DEF Windows
<1>2. zeros \in Seq(Int) /\ Len(zeros) = w - 1 /\ \A i \in 1 .. w - 1 : zeros[i] = 0
  <2>1. w - 1 \in Nat
    BY <1>1
  <2> DEFINE k == w - 1
  <2> HIDE DEF k
  <2>2. [i \in 1 .. k |-> 0] \in Seq(Int) /\ Len([i \in 1 .. k |-> 0]) = k
    BY <2>1 DEF k
  <2>3. QED
    BY <2>2 DEF ZeroDigits, k
<1> HIDE DEF zeros
<1>3. a \in Seq(Int) /\ Len(a) = w /\ a[1] = digit /\ \A i \in 2 .. w : a[i] = 0
  BY <1>1, <1>2
<1> HIDE DEF a
<1>4. e \in Seq(Int) /\ Len(e) = w + Len(d) /\ \A i \in 1 .. Len(e) : e[i] = IF i <= w THEN a[i] ELSE d[i - w]
  BY <1>1, <1>3
<1>5. Len(d) \in Nat
  OBVIOUS
<1> HIDE DEF e
<1>6. /\ e \in Seq(Int) /\ Len(e) = w + Len(d) /\ e[1] = digit
      /\ \A i \in 2 .. w : e[i] = 0
      /\ \A i \in w + 1 .. w + Len(d) : e[i] = d[i - w]
  <2>1. \A i \in 1 .. w : e[i] = a[i]
    BY <1>1, <1>4, <1>5
  <2>2. \A i \in w + 1 .. w + Len(d) : e[i] = d[i - w]
    BY <1>1, <1>4, <1>5
  <2>3. e[1] = digit /\ \A i \in 2 .. w : e[i] = 0
    BY <1>1, <1>3, <2>1
  <2>4. QED
    BY <1>4, <2>2, <2>3
<1>7. QED
  BY <1>6, Zenon DEF e, a, zeros

LEMMA RecodesOdd ==
    ASSUME NEW w \in Windows, NEW scalar \in Nat, scalar % 2 = 1, RestOf(scalar, w) # 0,
           NEW d, Recodes(w, d, RestOf(scalar, w))
    PROVE  Recodes(w, <<DigitOf(scalar, w)>> \o ZeroDigits(w) \o d, scalar)
<1> DEFINE digit == DigitOf(scalar, w)
           rest == RestOf(scalar, w)
           e == <<digit>> \o ZeroDigits(w) \o d
           q == 2 ^ w
           top == 2 ^ (w - 1)
<1>1. d \in Seq(Int) /\ Amounts(d, rest) /\ Spaced(w, d) /\ Short(d, rest)
  BY Zenon DEF Recodes
<1>2. /\ top \in Nat /\ digit \in -top + 1 .. top - 1 /\ digit % 2 = 1 /\ rest \in Nat
      /\ q \in Nat /\ q = 2 * top /\ scalar = digit + q * rest
  BY WindowIs
<1>3. w \in Nat /\ w >= 2 /\ w <= HalfBits /\ HalfBits \in Nat /\ Len(d) \in Nat
  BY <1>1, PowersAssumption DEF Windows
<1>4. digit \in Int
  <2> HIDE DEF digit, top
  <2>1. QED
    BY <1>2
<1>5. /\ e \in Seq(Int) /\ Len(e) = w + Len(d) /\ e[1] = digit
      /\ \A i \in 2 .. w : e[i] = 0
      /\ \A i \in w + 1 .. w + Len(d) : e[i] = d[i - w]
  <2> HIDE DEF digit
  <2>1. QED
    BY <1>1, <1>4, DigitZerosDigits
<1>6. rest # 0
  OBVIOUS
<1> HIDE DEF e, digit, rest
<1>7. Amounts(e, scalar)
  <2>1. PICK v \in [0 .. Len(d) -> Int] :
          v[0] = rest /\ v[Len(d)] = 0 /\ \A i \in 1 .. Len(d) : v[i - 1] = d[i] + 2 * v[i]
    BY <1>1, Zenon DEF Amounts
  <2>2. PICK z \in [1 .. w -> Int] : scalar = digit + 2 * z[1] /\ z[w] = rest /\ \A i \in 2 .. w : z[i - 1] = 2 * z[i]
    <3> DEFINE z == [i \in 1 .. w |-> 2 ^ (w - i) * rest]
    <3>1. ASSUME NEW i \in 1 .. w
          PROVE  2 ^ (w - i) * rest \in Int
      <4> DEFINE k == w - i
                 x == 2 ^ k
      <4>1. k \in 0 .. HalfBits
        BY <1>3
      <4>2. x \in Nat
        <5> HIDE DEF k
        <5>1. QED
          BY <4>1, PowerIs
      <4> HIDE DEF x
      <4>3. x * rest \in Int
        BY <1>2, <4>2
      <4>4. QED
        BY <4>3 DEF x
    <3>2. z \in [1 .. w -> Int]
      BY <3>1
    <3>3. scalar = digit + 2 * z[1]
      <4> DEFINE x == top * rest
      <4>1. z[1] = x
        BY <1>3
      <4>2. q * rest = 2 * x
        <5> HIDE DEF q, top
        <5>1. QED
          BY <1>2
      <4> HIDE DEF z, x
      <4>3. scalar = digit + 2 * x
        BY <1>2, <4>2
      <4>4. QED
        BY <4>1, <4>3
    <3>4. z[w] = rest
      <4>1. z[w] = 2 ^ 0 * rest
        BY <1>3
      <4>2. 1 * rest = rest
        BY <1>2
      <4>3. 2 ^ 0 = 1
        BY PowersAssumption
      <4>4. QED
        BY <4>1, <4>2, <4>3, Zenon
    <3>5. ASSUME NEW i \in 2 .. w
          PROVE  z[i - 1] = 2 * z[i]
      <4> DEFINE k == w - i
                 l == k + 1
                 x == 2 ^ k
                 y == 2 ^ l
      <4>1. /\ k \in 0 .. HalfBits /\ l \in 0 .. HalfBits /\ l # 0 /\ l - 1 = k
            /\ w - (i - 1) = l /\ i \in 1 .. w /\ i - 1 \in 1 .. w
        BY <1>3
      <4>2. z[i] = x * rest /\ z[i - 1] = y * rest
        BY <4>1
      <4>3. x \in Nat /\ y = 2 * x
        <5> HIDE DEF k, l
        <5>1. 2 ^ k \in Nat
          BY <4>1, PowerIs
        <5>2. 2 ^ l = 2 * 2 ^ (l - 1)
          BY <4>1, PowerIs
        <5>3. QED
          BY <4>1, <5>1, <5>2
      <4> HIDE DEF z, x, y
      <4>4. y * rest = 2 * (x * rest)
        BY <1>2, <4>3
      <4>5. QED
        BY <4>2, <4>4
    <3> HIDE DEF z
    <3>6. QED
      BY <3>2, <3>3, <3>4, <3>5
  <2> DEFINE u == [i \in 0 .. Len(e) |-> IF i = 0 THEN scalar ELSE IF i <= w THEN z[i] ELSE v[i - w]]
  <2>3. u \in [0 .. Len(e) -> Int] /\ u[0] = scalar
    BY <1>3, <1>5
  <2>4. u[Len(e)] = 0
    <3>1. CASE Len(d) = 0
      <4>1. u[Len(e)] = z[w]
        BY <1>3, <1>5, <3>1
      <4>2. QED
        BY <2>1, <2>2, <3>1, <4>1
    <3>2. CASE Len(d) # 0
      <4>1. Len(e) \in 0 .. Len(e) /\ Len(e) # 0 /\ ~ (Len(e) <= w) /\ Len(e) - w = Len(d)
        BY <1>3, <1>5, <3>2
      <4>2. u[Len(e)] = v[Len(e) - w]
        BY <4>1
      <4>3. QED
        BY <2>1, <4>1, <4>2
    <3>3. QED
      BY <3>1, <3>2
  <2>5. ASSUME NEW i \in 1 .. Len(e)
        PROVE  u[i - 1] = e[i] + 2 * u[i]
    <3>1. CASE i = 1
      <4>1. u[0] = scalar /\ u[1] = z[1] /\ e[1] = digit
        BY <1>3, <1>5
      <4> HIDE DEF u
      <4>2. QED
        BY <2>2, <3>1, <4>1
    <3>2. CASE i \in 2 .. w
      <4>1. u[i - 1] = z[i - 1] /\ u[i] = z[i] /\ e[i] = 0 /\ z[i] \in Int
        BY <1>3, <1>5, <3>2
      <4> HIDE DEF u
      <4>2. QED
        BY <2>2, <3>2, <4>1
    <3>3. CASE i \in w + 1 .. w + Len(d)
      <4> DEFINE k == i - w
      <4>1. k \in 1 .. Len(d) /\ u[i] = v[k] /\ e[i] = d[k]
        BY <1>3, <1>5, <3>3
      <4>2. u[i - 1] = v[k - 1]
        <5>1. CASE k = 1
          <6>1. u[i - 1] = z[w] /\ k - 1 = 0
            BY <1>3, <1>5, <3>3, <5>1
          <6>2. QED
            BY <2>1, <2>2, <6>1
        <5>2. CASE k # 1
          <6>1. i - 1 \in 0 .. Len(e) /\ i - 1 # 0 /\ ~ (i - 1 <= w) /\ (i - 1) - w = k - 1
            BY <1>3, <1>5, <3>3, <4>1, <5>2
          <6>2. u[i - 1] = v[(i - 1) - w]
            BY <6>1
          <6>3. QED
            BY <6>1, <6>2
        <5>3. QED
          BY <5>1, <5>2
      <4>3. v[k - 1] = d[k] + 2 * v[k]
        BY <2>1, <4>1
      <4> HIDE DEF u, k
      <4>4. QED
        BY <4>1, <4>2, <4>3
    <3>4. QED
      BY <1>3, <1>5, <3>1, <3>2, <3>3
  <2> HIDE DEF u
  <2>6. QED
    BY <2>3, <2>4, <2>5, Zenon DEF Amounts
<1>8. Spaced(w, e)
  <2> SUFFICES ASSUME NEW i \in 1 .. Len(e), e[i] # 0
               PROVE  /\ e[i] % 2 = 1 /\ e[i] \in -top + 1 .. top - 1
                      /\ \A j \in i + 1 .. i + w - 1 : j <= Len(e) => e[j] = 0
    BY Zenon DEF Spaced
  <2> HIDE DEF top
  <2>1. CASE i = 1
    BY <1>2, <1>3, <1>5, <2>1
  <2>2. CASE i \in w + 1 .. w + Len(d)
    <3> DEFINE k == i - w
    <3>1. k \in 1 .. Len(d) /\ e[i] = d[k]
      BY <1>3, <1>5, <2>2
    <3>2. /\ d[k] % 2 = 1 /\ d[k] \in -top + 1 .. top - 1
          /\ \A j \in k + 1 .. k + w - 1 : j <= Len(d) => d[j] = 0
      <4> HIDE DEF k
      <4>1. QED
        BY <1>1, <3>1, Zenon DEF Spaced, top
    <3>3. ASSUME NEW j \in i + 1 .. i + w - 1, j <= Len(e)
          PROVE  e[j] = 0
      <4>1. j - w \in k + 1 .. k + w - 1 /\ j - w <= Len(d) /\ e[j] = d[j - w]
        BY <1>3, <1>5, <2>2, <3>1, <3>3
      <4>2. QED
        BY <3>2, <4>1
    <3>4. QED
      BY <3>1, <3>2, <3>3
  <2>3. i = 1 \/ i \in w + 1 .. w + Len(d)
    BY <1>3, <1>5
  <2>4. QED
    BY <2>1, <2>2, <2>3
<1>9. Short(e, scalar)
  <2> SUFFICES ASSUME NEW n \in 0 .. HalfBits, scalar <= 2 ^ n PROVE Len(e) <= n + 1
    BY DEF Short
  <2>1. n >= w
    <3> SUFFICES ASSUME n <= w - 1 PROVE FALSE
      BY <1>3
    <3> DEFINE k == w - 1
    <3>1. k \in Nat /\ n \in Nat /\ n <= k /\ k <= HalfBits
      BY <1>3
    <3>2. 2 ^ n \in Nat /\ 2 ^ n <= 2 ^ k
      <4> HIDE DEF k
      <4>1. 2 ^ n <= 2 ^ k
        BY <3>1, PowerGrows
      <4>2. 2 ^ n \in Nat
        BY PowerIs
      <4>3. QED
        BY <4>1, <4>2
    <3>3. scalar <= top
      BY <1>2, <3>2
    <3>4. RestOf(scalar, w) = 0
      BY <3>3, WindowIs
    <3>5. QED
      BY <1>6, <3>4 DEF rest
  <2> DEFINE k == n - w
             x == 2 ^ k
  <2>2. k \in Nat /\ w + k = n /\ k \in 0 .. HalfBits
    BY <1>3, <2>1
  <2> HIDE DEF k
  <2>3. 2 ^ n = 2 ^ w * 2 ^ k /\ x \in Nat
    <3>1. 2 ^ (w + k) = 2 ^ w * 2 ^ k
      BY <1>3, <2>2, PowerPlus
    <3>2. 2 ^ k \in Nat
      BY <2>2, PowerIs
    <3>3. QED
      BY <2>2, <3>1, <3>2
  <2>4. rest <= x
    <3>1. scalar <= 2 ^ w * x
      BY <2>3
    <3> HIDE DEF x
    <3>2. RestOf(scalar, w) <= x
      BY <2>3, <3>1, WindowIs
    <3>3. QED
      BY <3>2 DEF rest
  <2>5. Len(d) <= k + 1
    BY <1>1, <2>2, <2>4, Zenon DEF Short, x
  <2>6. QED
    BY <1>3, <1>5, <2>2, <2>5
<1>10. QED
  BY <1>5, <1>7, <1>8, <1>9, Zenon DEF Recodes, e, digit

\* Every word is recoded.
LEMMA WordsRecoded ==
    ASSUME NEW w \in Windows
    PROVE  \A scalar \in 0 .. Half - 1 : Recodes(w, wNAF(w)[scalar], scalar)
<1> DEFINE naf == wNAF(w)
           most == Half - 1
           Done == {m \in 0 .. most : \A scalar \in 0 .. m : Recodes(w, naf[scalar], scalar)}
<1>1. Half \in Nat /\ most \in Nat
  <2> DEFINE x == 2 ^ HalfBits
  <2>1. HalfBits \in 0 .. HalfBits
    BY PowersAssumption
  <2>2. x \in Nat /\ x >= 1
    BY <2>1, PowerIs
  <2>3. Half = x
    BY ScalarAssumption
  <2> HIDE DEF x
  <2>4. QED
    BY <2>2, <2>3
<1> HIDE DEF most
<1>2. \A scalar \in 0 .. most : naf[scalar] = NafTurn(w, naf, scalar)
  <2>1. naf = NafOf(w, most)
    BY NafIs, Zenon DEF most
  <2> HIDE DEF naf
  <2>2. naf = NafUpTo(w, most, naf)
    BY <1>1, <2>1, NafSolved
  <2>3. naf = [scalar \in 0 .. most |-> NafTurn(w, naf, scalar)]
    BY <2>2, Zenon DEF NafUpTo
  <2>4. QED
    BY <2>3
<1> HIDE DEF naf
<1>3. ASSUME NEW scalar \in 0 .. most, \A x \in 0 .. scalar - 1 : Recodes(w, naf[x], x)
      PROVE  Recodes(w, naf[scalar], scalar)
  <2>1. naf[scalar] = NafTurn(w, naf, scalar) /\ scalar \in Nat
    BY <1>1, <1>2
  <2>2. CASE scalar = 0
    <3>1. naf[scalar] = <<>>
      BY <2>1, <2>2, NafZero
    <3>2. QED
      BY <2>2, <3>1, RecodesZero
  <2>3. CASE scalar # 0 /\ scalar % 2 = 0
    <3> DEFINE low == scalar \div 2
    <3>1. low \in Nat /\ low < scalar /\ scalar = 2 * low /\ NafTurn(w, naf, scalar) = <<0>> \o naf[low]
      BY <2>1, <2>3, NafEven
    <3> HIDE DEF low
    <3>2. Recodes(w, naf[low], low)
      BY <1>3, <2>1, <3>1
    <3>3. Recodes(w, <<0>> \o naf[low], scalar)
      BY <2>1, <2>3, <3>1, <3>2, RecodesEven
    <3>4. QED
      BY <2>1, <3>1, <3>3, Zenon
  <2>4. CASE scalar % 2 = 1 /\ RestOf(scalar, w) = 0
    <3>1. NafTurn(w, naf, scalar) = <<DigitOf(scalar, w)>>
      BY <2>1, <2>4, NafLast
    <3>2. Recodes(w, <<DigitOf(scalar, w)>>, scalar)
      BY <2>1, <2>4, RecodesLast
    <3>3. QED
      BY <2>1, <3>1, <3>2, Zenon
  <2>5. CASE scalar % 2 = 1 /\ RestOf(scalar, w) # 0
    <3> DEFINE rest == RestOf(scalar, w)
               e == <<DigitOf(scalar, w)>> \o ZeroDigits(w) \o naf[rest]
    <3>1. NafTurn(w, naf, scalar) = e
      BY <2>1, <2>5, NafOdd
    <3>2. rest \in Nat /\ rest < scalar
      BY <2>1, <2>5, WindowIs
    <3>3. Recodes(w, naf[rest], rest)
      <4> HIDE DEF rest
      <4>1. QED
        BY <1>3, <2>1, <3>2
    <3>4. Recodes(w, e, scalar)
      BY <2>1, <2>5, <3>3, RecodesOdd
    <3> HIDE DEF e
    <3>5. QED
      BY <2>1, <3>1, <3>4, Zenon
  <2>6. scalar % 2 = 0 \/ scalar % 2 = 1
    BY <2>1
  <2>7. QED
    BY <2>2, <2>3, <2>4, <2>5, <2>6, Zenon
<1>4. 0 \in Done
  <2>1. 0 \in 0 .. most /\ \A x \in 0 .. 0 - 1 : FALSE
    BY <1>1
  <2>2. Recodes(w, naf[0], 0)
    BY <1>3, <2>1
  <2>3. \A x \in 0 .. 0 : x = 0
    OBVIOUS
  <2>4. QED
    BY <2>1, <2>2, <2>3
<1>5. ASSUME NEW m \in 0 .. most - 1, m \in Done
      PROVE  m + 1 \in Done
  <2> DEFINE n == m + 1
  <2>1. n \in 0 .. most /\ n - 1 = m /\ \A x \in 0 .. n : x = n \/ x \in 0 .. m
    BY <1>1
  <2>2. \A x \in 0 .. m : Recodes(w, naf[x], x)
    BY <1>5
  <2> HIDE DEF n
  <2>3. Recodes(w, naf[n], n)
    BY <1>3, <2>1, <2>2
  <2>4. \A x \in 0 .. n : Recodes(w, naf[x], x)
    BY <2>1, <2>2, <2>3, Zenon
  <2>5. n \in Done
    BY <2>1, <2>4
  <2>6. QED
    BY <2>5 DEF n
<1>6. most \in Done
  <2> HIDE DEF Done
  <2>1. \A m \in 0 .. most - 1 : m \in Done => m + 1 \in Done
    BY <1>5
  <2>2. \A m \in 0 .. most : m \in Done
    BY <1>1, <1>4, <2>1, UpTo
  <2>3. QED
    BY <1>1, <2>2
<1>7. QED
  BY <1>6 DEF naf, most

\* Nothing of a word is lost, whatever the window.
LEMMA RecodingIsExact == \A scalar \in 0 .. Half - 1 : RecodingExact(scalar)
<1> SUFFICES ASSUME NEW scalar \in 0 .. Half - 1, NEW w \in 2 .. HalfBits - 2
             PROVE  LET digits == wNAF_recode(scalar, w)
                        sum[n \in 0 .. HalfBits + 1] ==
                            IF n > HalfBits THEN 0 ELSE digits[n] + 2 * sum[n + 1]
                    IN  /\ sum[0] = scalar
                        /\ Len(wNAF(w)[scalar]) <= HalfBits + 1
                        /\ \A n \in 0 .. HalfBits : digits[n] # 0 =>
                            /\ digits[n] % 2 = 1
                            /\ digits[n] \in -(2 ^ (w - 1)) + 1 .. 2 ^ (w - 1) - 1
                            /\ \A m \in n + 1 .. n + w - 1 : m <= HalfBits => digits[m] = 0
  BY Zenon DEF RecodingExact
<1> DEFINE d == wNAF(w)[scalar]
           top == 2 ^ (w - 1)
           digits == wNAF_recode(scalar, w)
           N == HalfBits + 1
           Body(f) == [n \in 0 .. HalfBits + 1 |-> IF n > HalfBits THEN 0 ELSE digits[n] + 2 * f[n + 1]]
           sum == CHOOSE f : f = Body(f)
<1>1. HalfBits \in Nat /\ w \in Nat /\ w >= 2 /\ w \in Windows
  BY PowersAssumption DEF Windows
<1>2. d \in Seq(Int) /\ Amounts(d, scalar) /\ Spaced(w, d) /\ Short(d, scalar)
  BY <1>1, WordsRecoded, Zenon DEF Recodes
<1>3. digits = [i \in 0 .. HalfBits |-> IF i < Len(d) THEN d[i + 1] ELSE 0]
  BY Zenon DEF wNAF_recode
<1>4. Len(d) \in Nat /\ Len(d) <= N
  <2>1. scalar <= 2 ^ HalfBits
    <3> DEFINE x == 2 ^ HalfBits
    <3>1. x \in Nat
      <4>1. HalfBits \in 0 .. HalfBits
        BY <1>1
      <4>2. QED
        BY <4>1, PowerIs
    <3>2. Half = x
      BY ScalarAssumption
    <3> HIDE DEF x
    <3>3. scalar <= x
      BY <3>1, <3>2
    <3>4. QED
      BY <3>3 DEF x
  <2>2. HalfBits \in 0 .. HalfBits
    BY <1>1
  <2> HIDE DEF d
  <2>3. Len(d) <= HalfBits + 1
    BY <1>2, <2>1, <2>2, Zenon DEF Short
  <2>4. QED
    BY <1>2, <2>3
<1> HIDE DEF d, digits
<1>5. sum[0] = scalar
  <2>1. PICK v \in [0 .. Len(d) -> Int] :
          v[0] = scalar /\ v[Len(d)] = 0 /\ \A i \in 1 .. Len(d) : v[i - 1] = d[i] + 2 * v[i]
    BY <1>2, Zenon DEF Amounts
  <2> DEFINE u == [n \in 0 .. N |-> IF n <= Len(d) THEN v[n] ELSE 0]
  <2>2. ASSUME NEW n \in 0 .. HalfBits + 1
        PROVE  u[n] = IF n > HalfBits THEN 0 ELSE digits[n] + 2 * u[n + 1]
    <3>1. CASE n < Len(d)
      <4> DEFINE i == n + 1
      <4>1. i \in 1 .. Len(d) /\ i - 1 = n /\ ~ (n > HalfBits) /\ u[n] = v[n] /\ u[n + 1] = v[i] /\ digits[n] = d[i]
        BY <1>1, <1>3, <1>4, <3>1
      <4>2. v[i - 1] = d[i] + 2 * v[i]
        BY <2>1, <4>1
      <4> HIDE DEF u, i
      <4>3. QED
        BY <4>1, <4>2
    <3>2. CASE ~ (n < Len(d))
      <4>1. u[n] = 0
        BY <1>1, <1>4, <2>1, <3>2
      <4>2. CASE n > HalfBits
        BY <4>1, <4>2
      <4>3. CASE ~ (n > HalfBits)
        <5>1. u[n + 1] = 0 /\ digits[n] = 0
          BY <1>1, <1>3, <1>4, <3>2, <4>3
        <5> HIDE DEF u
        <5>2. QED
          BY <4>1, <4>3, <5>1
      <4>4. QED
        BY <4>2, <4>3
    <3>3. QED
      BY <3>1, <3>2
  <2>3. u = Body(u)
    <3>1. u = [n \in 0 .. N |-> u[n]]
      OBVIOUS
    <3> HIDE DEF u
    <3>2. QED
      BY <2>2, <3>1, Zenon
  <2>4. u[0] = scalar
    BY <1>1, <1>4, <2>1
  <2> HIDE DEF u, Body
  <2>5. sum = Body(sum)
    BY <2>3
  <2> HIDE DEF sum
  <2>6. \A n \in 0 .. N : sum[n] = IF n > HalfBits THEN 0 ELSE digits[n] + 2 * sum[n + 1]
    BY <2>5 DEF Body
  <2> DEFINE S == {k \in 0 .. N : sum[N - k] = u[N - k]}
  <2>7. 0 \in S
    <3>1. N \in 0 .. N /\ N > HalfBits /\ 0 \in 0 .. N /\ N - 0 = N
      BY <1>1
    <3>2. sum[N] = 0 /\ u[N] = 0
      BY <2>2, <2>6, <3>1
    <3>3. QED
      BY <3>1, <3>2
  <2>8. ASSUME NEW k \in 0 .. N - 1, k \in S
        PROVE  k + 1 \in S
    <3> DEFINE n == N - (k + 1)
    <3>1. n \in 0 .. N /\ ~ (n > HalfBits) /\ n + 1 = N - k /\ k + 1 \in 0 .. N
      BY <1>1
    <3> HIDE DEF n
    <3>2. sum[n + 1] = u[n + 1]
      BY <2>8, <3>1
    <3>3. sum[n] = digits[n] + 2 * sum[n + 1] /\ u[n] = digits[n] + 2 * u[n + 1]
      BY <2>2, <2>6, <3>1
    <3>4. sum[n] = u[n]
      BY <3>2, <3>3
    <3>5. QED
      BY <3>1, <3>4 DEF n
  <2>9. N \in S
    <3> HIDE DEF S
    <3>1. N \in Nat /\ \A k \in 0 .. N - 1 : k \in S => k + 1 \in S
      BY <1>1, <2>8
    <3> HIDE DEF N
    <3>2. \A k \in 0 .. N : k \in S
      BY <2>7, <3>1, UpTo
    <3>3. QED
      BY <3>1, <3>2
  <2>10. sum[N - N] = u[N - N] /\ N - N = 0
    BY <1>1, <2>9
  <2>11. QED
    BY <2>4, <2>10
<1>6. ASSUME NEW n \in 0 .. HalfBits, digits[n] # 0
      PROVE  /\ digits[n] % 2 = 1 /\ digits[n] \in -top + 1 .. top - 1
             /\ \A m \in n + 1 .. n + w - 1 : m <= HalfBits => digits[m] = 0
  <2> DEFINE i == n + 1
  <2> HIDE DEF top
  <2>1. i \in 1 .. Len(d) /\ digits[n] = d[i]
    BY <1>1, <1>3, <1>4, <1>6
  <2>2. /\ d[i] % 2 = 1 /\ d[i] \in -top + 1 .. top - 1
        /\ \A j \in i + 1 .. i + w - 1 : j <= Len(d) => d[j] = 0
    <3> HIDE DEF i
    <3>1. QED
      BY <1>2, <1>6, <2>1, Zenon DEF Spaced, top
  <2>3. ASSUME NEW m \in n + 1 .. n + w - 1, m <= HalfBits
        PROVE  digits[m] = 0
    <3>1. m \in 0 .. HalfBits /\ digits[m] = IF m < Len(d) THEN d[m + 1] ELSE 0
      BY <1>1, <1>3, <2>3
    <3>2. m < Len(d) => m + 1 \in i + 1 .. i + w - 1 /\ m + 1 <= Len(d)
      BY <1>1, <1>4, <3>1
    <3>3. QED
      BY <2>2, <3>1, <3>2
  <2>4. QED
    BY <2>1, <2>2, <2>3
<1> HIDE DEF Body, sum
<1>7. /\ sum[0] = scalar
      /\ Len(d) <= HalfBits + 1
      /\ \A n \in 0 .. HalfBits : digits[n] # 0 =>
          /\ digits[n] % 2 = 1
          /\ digits[n] \in -top + 1 .. top - 1
          /\ \A m \in n + 1 .. n + w - 1 : m <= HalfBits => digits[m] = 0
  BY <1>4, <1>5, <1>6
<1>8. QED
  BY <1>7, Zenon DEF Body, sum, d, digits, top

\* wNAF_recode loses nothing of the words of any hash.
THEOREM RecodingLosesNothing == ScalarSpec => []RecodedExactly
<1>1. ScalarInit => given \in Triples
  BY DEF ScalarInit
<1>2. given \in Triples /\ [ScalarNext]_scalarVars => (given \in Triples)'
  BY DEF ScalarNext, Multiplication, Subtraction, scalarVars
<1>3. given \in Triples => RecodedExactly
  <2> SUFFICES ASSUME given \in Triples PROVE RecodingExact(given[1] % Half)
    BY DEF RecodedExactly
  <2> DEFINE k == given[1]
             x == k % Half
             y == 2 ^ HalfBits
  <2>1. k \in Nat
    BY TriplesAssumption, ScalarAssumption DEF Scalar
  <2>2. y \in Nat /\ y >= 1 /\ Half = y
    <3>1. HalfBits \in 0 .. HalfBits
      BY PowersAssumption
    <3>2. QED
      BY <3>1, PowerIs, ScalarAssumption
  <2> HIDE DEF k, y
  <2>3. x \in 0 .. Half - 1
    BY <2>1, <2>2
  <2> HIDE DEF x
  <2>4. RecodingExact(x)
    BY <2>3, RecodingIsExact
  <2>5. QED
    BY <2>4 DEF x, k
<1>4. QED
  BY <1>1, <1>2, <1>3, PTL DEF ScalarSpec

-----------------------------------------------------------------------------
(* The comb.                                                               *)

\* A function that goes on from its last value, turn by turn.
GoesOn(f, lo, n, S, x, g) ==
    f \in [lo .. lo + n -> S] /\ f[lo] = x /\ \A i \in lo + 1 .. lo + n : f[i] = g[<<i, f[i - 1]>>]

LEMMA TurnByTurn ==
    ASSUME NEW lo \in Nat, NEW n \in Nat, NEW S, NEW x \in S, NEW g \in [Nat \X S -> S]
    PROVE  \E f : GoesOn(f, lo, n, S, x, g)
<1> DEFINE Solves(f, m) ==
               f \in [lo .. lo + m -> S] /\ f[lo] = x /\ \A i \in lo + 1 .. lo + m : f[i] = g[<<i, f[i - 1]>>]
           Solved == {m \in 0 .. n : \E f : Solves(f, m)}
<1>1. 0 \in Solved
  <2> DEFINE f == [i \in lo .. lo + 0 |-> x]
  <2>1. f \in [lo .. lo + 0 -> S] /\ f[lo] = x /\ \A i \in lo + 1 .. lo + 0 : FALSE
    OBVIOUS
  <2> HIDE DEF f
  <2>2. Solves(f, 0)
    BY <2>1
  <2> HIDE DEF Solves
  <2>3. QED
    BY <2>2
<1>2. ASSUME NEW m \in 0 .. n - 1, NEW f, Solves(f, m)
      PROVE  \E e : Solves(e, m + 1)
  <2> DEFINE end == lo + m + 1
             e == [i \in lo .. end |-> IF i = end THEN g[<<end, f[end - 1]>>] ELSE f[i]]
  <2>1. end \in Nat /\ end - 1 \in lo .. lo + m /\ end = lo + (m + 1) /\ lo # end
        /\ \A i \in lo .. end : i = end \/ i \in lo .. lo + m
    OBVIOUS
  <2>2. f[end - 1] \in S /\ \A i \in lo .. lo + m : f[i] \in S
    BY <1>2, <2>1
  <2>3. g[<<end, f[end - 1]>>] \in S
    BY <2>1, <2>2
  <2>4. e \in [lo .. end -> S]
    BY <2>1, <2>2, <2>3
  <2>5. \A i \in lo .. lo + m : e[i] = f[i]
    BY <2>1
  <2>6. e[end] = g[<<end, f[end - 1]>>]
    BY <2>1
  <2> HIDE DEF e
  <2>7. ASSUME NEW i \in lo + 1 .. end
        PROVE  e[i] = g[<<i, e[i - 1]>>]
    <3>1. i - 1 \in lo .. lo + m /\ e[i - 1] = f[i - 1]
      BY <2>1, <2>5
    <3>2. CASE i = end
      BY <2>6, <3>1, <3>2
    <3>3. CASE i # end
      <4>1. i \in lo + 1 .. lo + m /\ i \in lo .. lo + m
        BY <2>1, <3>3
      <4>2. f[i] = g[<<i, f[i - 1]>>]
        BY <1>2, <4>1
      <4>3. QED
        BY <2>5, <3>1, <4>1, <4>2
    <3>4. QED
      BY <3>2, <3>3
  <2>8. e[lo] = x
    BY <1>2, <2>1, <2>5
  <2>9. Solves(e, m + 1)
    BY <2>1, <2>4, <2>7, <2>8
  <2> HIDE DEF Solves
  <2>10. QED
    BY <2>9
<1>3. \A m \in 0 .. n - 1 : m \in Solved => m + 1 \in Solved
  <2>1. \A m \in 0 .. n - 1 : m + 1 \in 0 .. n
    OBVIOUS
  <2> HIDE DEF Solves
  <2>2. QED
    BY <1>2, <2>1
<1>4. n \in Solved
  <2> HIDE DEF Solved
  <2>1. \A m \in 0 .. n : m \in Solved
    BY <1>1, <1>3, UpTo
  <2>2. QED
    BY <2>1
<1>5. PICK f : Solves(f, n)
  <2> HIDE DEF Solves
  <2>1. QED
    BY <1>4
<1>6. QED
  BY <1>5, Zenon DEF GoesOn

\* The scalar made odd, the order added if need be, is the same modulo the order and has a bit more.
LEMMA OddIs ==
    ASSUME NEW k \in Scalar
    PROVE  LET m == OddScalar(k) IN
           m \in Nat /\ m < 2 * curve_order /\ m % 2 = 1 /\ (m - k) % curve_order = 0
<1> DEFINE x == Montgomery_multiply_mod_order(k, Montgomery_Rprime)
           y == Montgomery_multiply_mod_order(x, 1)
           m == OddScalar(k)
<1>1. k \in Int /\ Same(k, k)
  BY ScalarSizes, SameSelf DEF Scalar
<1>2. x \in Below /\ Same(x, k * R)
  BY <1>1, IntoForm
<1>3. y \in Below /\ Same(y, k)
  <2> HIDE DEF x
  <2>1. x \in Scalar
    BY <1>2, ScalarSizes DEF Below, Scalar
  <2>2. QED
    BY <1>1, <1>2, <2>1, OutOfForm
<1>4. m = IF y % 2 = 0 THEN (y + curve_order) % R ELSE y
  BY Zenon DEF OddScalar, Reduced
<1> HIDE DEF x, y, m
<1>5. y \in Nat /\ y < curve_order /\ curve_order % 2 = 1
  BY <1>3, ScalarSizes, ScalarAssumption DEF Below
<1>6. m = (IF y % 2 = 0 THEN y + curve_order ELSE y)
  <2>1. y % 2 = 0 => (y + curve_order) % R = y + curve_order
    BY <1>5, ScalarSizes
  <2>2. QED
    BY <1>4, <2>1
<1>7. m \in Nat /\ m < 2 * curve_order /\ m % 2 = 1
  BY <1>5, <1>6, ScalarSizes
<1>8. (m - k) % curve_order = 0
  <2>1. PICK n \in Int : y = k + curve_order * n
    BY <1>3 DEF Same
  <2>2. m - k = curve_order * n \/ m - k = curve_order * (n + 1)
    BY <1>1, <1>5, <1>6, <2>1, ScalarSizes
  <2> DEFINE z == m - k
             none == 0
  <2> HIDE DEF none
  <2>3. PICK i \in Int : z = curve_order * i + none
    <3>1. n + 1 \in Int /\ curve_order * n \in Int /\ curve_order * (n + 1) \in Int
      BY <2>1, ScalarSizes
    <3>2. QED
      BY <2>2, <3>1 DEF none
  <2>4. z \in Int /\ none \in Int /\ 0 <= none /\ none < curve_order /\ curve_order \in Nat /\ curve_order > 0
    BY <1>1, <1>7, ScalarSizes DEF none
  <2> HIDE DEF z
  <2>5. z % curve_order = none
    BY <2>3, <2>4, Unique
  <2>6. QED
    BY <2>5 DEF z, none
<1>9. QED
  BY <1>7, <1>8 DEF m

\* A quotient by twice as much is half of it.
LEMMA HalfQuotient ==
    ASSUME NEW x \in Nat, NEW q \in Nat, q > 0
    PROVE  /\ x \div q \in Nat /\ x \div (2 * q) \in Nat
           /\ x \div q = 2 * (x \div (2 * q)) + ((x \div q) % 2)
<1> DEFINE y == x \div q
           low == x % q
           z == y \div 2
           bit == y % 2
           more == 2 * q
           rest == q * bit + low
<1>1. y \in Int /\ low \in Int /\ 0 <= low /\ low < q /\ x = q * y + low
  BY DivMod
<1>2. y \in Nat
  <2> HIDE DEF y, low
  <2> SUFFICES ASSUME y < 0 PROVE FALSE
    BY <1>1
  <2>1. q * y <= -q
    <3>1. -y - 1 \in Nat
      BY <1>1
    <3>2. q * (-y - 1) >= 0
      BY <3>1
    <3>3. q * (-y - 1) = -(q * y) - q
      BY <1>1
    <3>4. q * y \in Int
      BY <1>1
    <3>5. QED
      BY <3>2, <3>3, <3>4
  <2>2. q * y \in Int
    BY <1>1
  <2>3. QED
    BY <1>1, <2>1, <2>2
<1> HIDE DEF y, low
<1>3. z \in Nat /\ bit \in {0, 1} /\ y = 2 * z + bit
  BY <1>2
<1> HIDE DEF z, bit
<1>4. rest \in Int /\ 0 <= rest /\ rest < more /\ more \in Nat /\ more > 0
  <2>1. CASE bit = 0
    BY <1>1, <2>1
  <2>2. CASE bit = 1
    BY <1>1, <2>2
  <2>3. QED
    BY <1>3, <2>1, <2>2
<1>5. x = more * z + rest
  <2>1. q * (2 * z + bit) = more * z + q * bit
    BY <1>3
  <2>2. q * bit \in Int /\ more * z \in Int
    BY <1>3
  <2>3. QED
    BY <1>1, <1>3, <2>1, <2>2
<1> HIDE DEF rest, more
<1>6. x \div more = z
  BY <1>3, <1>4, <1>5, Unique
<1>7. QED
  BY <1>2, <1>3, <1>6 DEF y, bit, more

\* The powers of a word.
LEMMA LimbIs ==
    ASSUME NEW n \in 0 .. Limbs
    PROVE  Limb ^ n \in Nat /\ Limb ^ n >= 1
<1> DEFINE Good == {k \in 0 .. Limbs : Limb ^ k \in Nat /\ Limb ^ k >= 1}
<1>1. Limb \in Nat /\ Limb >= 2 /\ Limbs \in Nat /\ Limb ^ 0 = 1
      /\ \A k \in 0 .. Limbs - 1 : Limb ^ (k + 1) = Limb * Limb ^ k
  BY LimbAssumption
<1>2. 0 \in Good
  BY <1>1
<1>3. \A k \in 0 .. Limbs - 1 : k \in Good => k + 1 \in Good
  <2> SUFFICES ASSUME NEW k \in 0 .. Limbs - 1, k \in Good PROVE k + 1 \in Good
    OBVIOUS
  <2> DEFINE x == Limb ^ k
             y == Limb ^ (k + 1)
  <2>1. x \in Nat /\ x >= 1 /\ y = Limb * x /\ k + 1 \in 0 .. Limbs
    BY <1>1
  <2> HIDE DEF x, y
  <2>2. y \in Nat /\ y >= 1
    BY <1>1, <2>1
  <2>3. QED
    BY <2>1, <2>2 DEF y
<1> HIDE DEF Good
<1>4. \A k \in 0 .. Limbs : k \in Good
  BY <1>1, <1>2, <1>3, UpTo
<1>5. QED
  BY <1>4 DEF Good

\* A word more of a number.
LEMMA WordMore ==
    ASSUME NEW v \in Nat, NEW q \in Nat, q >= 1, NEW l \in Nat, l >= 1
    PROVE  v % (l * q) = (v % q) + ((v \div q) % l) * q
<1> DEFINE y == v \div q
           low == v % q
           z == y \div l
           w == y % l
           rest == low + w * q
           more == l * q
<1>1. y \in Int /\ low \in Int /\ 0 <= low /\ low < q /\ v = q * y + low
  BY DivMod
<1> HIDE DEF y, low
<1>2. z \in Int /\ w \in Int /\ 0 <= w /\ w <= l - 1 /\ y = l * z + w
  BY <1>1, DivMod
<1> HIDE DEF z, w
<1>3. w * q \in Int /\ 0 <= w * q /\ w * q <= (l - 1) * q
  <2>1. w \in Nat /\ l - 1 - w \in Nat
    BY <1>2
  <2>2. w * q \in Nat /\ (l - 1 - w) * q \in Nat
    BY <2>1
  <2>3. (l - 1 - w) * q = (l - 1) * q - w * q
    BY <2>1
  <2>4. (l - 1) * q \in Int
    BY <1>1
  <2>5. QED
    BY <2>2, <2>3, <2>4
<1>4. (l - 1) * q = more - q /\ more \in Nat
  BY <1>1
<1>5. rest \in Int /\ 0 <= rest /\ rest < more
  <2> DEFINE a == w * q
             b == (l - 1) * q
  <2> HIDE DEF a, b, more
  <2>1. a \in Int /\ 0 <= a /\ a <= b /\ b = more - q /\ more \in Nat
    BY <1>3, <1>4 DEF a, b
  <2>2. QED
    BY <1>1, <2>1 DEF a
<1>6. v = more * z + rest
  <2>1. q * (l * z + w) = (l * q) * z + w * q
    BY <1>2
  <2>2. (l * q) * z \in Int /\ w * q \in Int
    BY <1>2
  <2> DEFINE a == w * q
             b == (l * q) * z
  <2>3. q * y = b + a
    BY <1>2, <2>1
  <2> HIDE DEF a, b
  <2>4. v = b + a + low /\ a \in Int /\ b \in Int
    BY <1>1, <2>2, <2>3 DEF a, b
  <2>5. QED
    BY <1>1, <2>4 DEF a, b
<1>7. more > 0
  BY <1>5
<1> HIDE DEF rest, more
<1>8. v % more = rest
  BY <1>2, <1>4, <1>5, <1>6, <1>7, Unique
<1>9. QED
  BY <1>8 DEF rest, more, w, y, low

\* What a word and a carry become.
LEMMA WordCarries ==
    ASSUME NEW l \in Nat, l >= 2, NEW w \in 0 .. l - 1, NEW c \in {0, 1}
    PROVE  LET carried == IF (w + c) % l = 0 THEN c ELSE 0 IN
           /\ carried \in {0, 1} /\ (w + c) % l \in Nat
           /\ ((w + c) % l) + carried * l = w + c
<1>1. CASE w + c = l
  <2>1. (w + c) % l = 0 /\ c = 1
    BY <1>1
  <2>2. QED
    BY <1>1, <2>1
<1>2. CASE w + c # l
  <2>1. w + c \in 0 .. l - 1
    BY <1>2
  <2>2. (w + c) % l = w + c
    BY <2>1
  <2>3. CASE c = 0
    BY <2>2, <2>3
  <2>4. CASE c = 1
    BY <2>2, <2>4
  <2>5. QED
    BY <2>3, <2>4
<1>3. QED
  BY <1>1, <1>2

\* The carries of AddBit and its sums, as functions that solve their equations.
CarriesOf(v, bit, f) ==
    [n \in 0 .. Limbs |->
        IF n = 0 THEN bit ELSE IF (WordOf(v, n - 1) + f[n - 1]) % Limb = 0 THEN f[n - 1] ELSE 0]
Carries(v, bit) == CHOOSE f : f = CarriesOf(v, bit, f)
WordsOf(v, bit, f) ==
    [n \in 0 .. Limbs |->
        IF n = 0 THEN 0
        ELSE f[n - 1] + ((WordOf(v, n - 1) + Carries(v, bit)[n - 1]) % Limb) * Limb ^ (n - 1)]
Packed(v, bit) == CHOOSE f : f = WordsOf(v, bit, f)

LEMMA AddBitIs ==
    ASSUME NEW v, NEW bit
    PROVE  AddBit(v, bit) = Packed(v, bit)[Limbs]
BY Zenon DEF AddBit, Packed, WordsOf, Carries, CarriesOf

\* A word is one.
LEMMA WordIs ==
    ASSUME NEW v \in Nat, NEW n \in 0 .. Limbs
    PROVE  WordOf(v, n) \in 0 .. Limb - 1
<1> DEFINE q == Limb ^ n
           y == v \div q
<1>1. q \in Nat /\ q > 0
  BY LimbIs
<1> HIDE DEF q
<1>2. y \in Int
  BY <1>1, DivMod
<1> HIDE DEF y
<1>3. Limb \in Nat /\ Limb > 0
  BY LimbAssumption
<1>4. y % Limb \in 0 .. Limb - 1
  BY <1>2, <1>3
<1>5. QED
  BY <1>4 DEF WordOf, y, q

\* The carries are bits.
LEMMA CarriesAre ==
    ASSUME NEW v \in Nat, NEW bit \in {0, 1}
    PROVE  LET c == Carries(v, bit) IN
           /\ c[0] = bit
           /\ \A n \in 0 .. Limbs : c[n] \in {0, 1}
           /\ \A n \in 0 .. Limbs - 1 :
                c[n + 1] = IF (WordOf(v, n) + c[n]) % Limb = 0 THEN c[n] ELSE 0
<1> DEFINE S == {0, 1}
           Next(n, x) == IF (WordOf(v, n - 1) + x) % Limb = 0 THEN x ELSE 0
           g == [z \in Nat \X S |-> Next(z[1], z[2])]
           c == Carries(v, bit)
<1>1. Limbs \in Nat
  BY LimbAssumption
<1>2. \A n, x : x \in S => Next(n, x) \in S
  OBVIOUS
<1> HIDE DEF Next
<1>3. g \in [Nat \X S -> S]
  <2>1. \A z \in Nat \X S : Next(z[1], z[2]) \in S
    BY <1>2
  <2> HIDE DEF S
  <2>2. QED
    BY <2>1
<1>4. \A i \in Nat, y \in S : g[<<i, y>>] = Next(i, y)
  <2> HIDE DEF S
  <2>1. QED
    OBVIOUS
<1> HIDE DEF g
<1>5. \E f : f = CarriesOf(v, bit, f)
  <2>1. \E f : GoesOn(f, 0, Limbs, S, bit, g)
    <3> HIDE DEF S
    <3>1. bit \in S
      BY DEF S
    <3>2. QED
      BY <1>1, <1>3, <3>1, TurnByTurn
  <2>2. PICK f \in [0 .. Limbs -> S] : f[0] = bit /\ \A i \in 1 .. Limbs : f[i] = g[<<i, f[i - 1]>>]
    <3> HIDE DEF S
    <3>1. QED
      BY <1>1, <2>1 DEF GoesOn
  <2>3. ASSUME NEW n \in 0 .. Limbs
        PROVE  f[n] = IF n = 0 THEN bit ELSE IF (WordOf(v, n - 1) + f[n - 1]) % Limb = 0 THEN f[n - 1] ELSE 0
    <3>1. CASE n = 0
      BY <2>2, <3>1
    <3>2. CASE n # 0
      <4>1. n \in 1 .. Limbs /\ n - 1 \in 0 .. Limbs /\ n \in Nat
        BY <1>1, <3>2
      <4>2. f[n] = Next(n, f[n - 1])
        <5>1. f[n - 1] \in S
          BY <4>1
        <5> HIDE DEF S
        <5>2. QED
          BY <1>4, <2>2, <4>1, <5>1
      <4>3. QED
        BY <3>2, <4>2, Zenon DEF Next
    <3>3. QED
      BY <3>1, <3>2
  <2>4. f = [n \in 0 .. Limbs |-> f[n]]
    OBVIOUS
  <2>5. f = CarriesOf(v, bit, f)
    BY <2>3, <2>4, Zenon DEF CarriesOf
  <2>6. QED
    BY <2>5
<1>6. c = CarriesOf(v, bit, c)
  BY <1>5, Zenon DEF Carries
<1> HIDE DEF c
<1>7. \A n \in 0 .. Limbs :
        c[n] = IF n = 0 THEN bit ELSE IF (WordOf(v, n - 1) + c[n - 1]) % Limb = 0 THEN c[n - 1] ELSE 0
  BY <1>6, Zenon DEF CarriesOf
<1>8. c[0] = bit
  <2>1. 0 \in 0 .. Limbs
    BY <1>1
  <2>2. QED
    BY <1>7, <2>1
<1>9. ASSUME NEW n \in 0 .. Limbs - 1
      PROVE  c[n + 1] = IF (WordOf(v, n) + c[n]) % Limb = 0 THEN c[n] ELSE 0
  <2>1. n + 1 \in 0 .. Limbs /\ n + 1 # 0 /\ (n + 1) - 1 = n
    BY <1>1
  <2>2. c[n + 1] = IF (WordOf(v, (n + 1) - 1) + c[(n + 1) - 1]) % Limb = 0 THEN c[(n + 1) - 1] ELSE 0
    BY <1>7, <2>1, Zenon
  <2>3. QED
    BY <2>1, <2>2
<1>10. \A n \in 0 .. Limbs : c[n] \in {0, 1}
  <2> DEFINE Good == {n \in 0 .. Limbs : c[n] \in {0, 1}}
  <2>1. 0 \in Good
    BY <1>1, <1>8
  <2>2. \A n \in 0 .. Limbs - 1 : n \in Good => n + 1 \in Good
    <3> SUFFICES ASSUME NEW n \in 0 .. Limbs - 1, n \in Good PROVE n + 1 \in Good
      OBVIOUS
    <3> DEFINE wraps == (WordOf(v, n) + c[n]) % Limb = 0
    <3>1. c[n + 1] = IF wraps THEN c[n] ELSE 0
      BY <1>9
    <3> HIDE DEF wraps
    <3>2. n + 1 \in 0 .. Limbs
      BY <1>1
    <3>3. QED
      BY <3>1, <3>2
  <2> HIDE DEF Good
  <2>3. \A n \in 0 .. Limbs : n \in Good
    BY <1>1, <2>1, <2>2, UpTo
  <2>4. QED
    BY <2>3 DEF Good
<1>11. QED
  BY <1>8, <1>9, <1>10 DEF c

\* The sums are numbers, a word more at a time.
LEMMA PackedIs ==
    ASSUME NEW v \in Nat, NEW bit \in {0, 1}
    PROVE  LET x == Packed(v, bit) IN
           /\ x[0] = 0
           /\ \A n \in 0 .. Limbs : x[n] \in Nat
           /\ \A n \in 0 .. Limbs - 1 :
                x[n + 1] = x[n] + ((WordOf(v, n) + Carries(v, bit)[n]) % Limb) * Limb ^ n
<1> DEFINE S == Nat
           Extra(n) == ((WordOf(v, n) + Carries(v, bit)[n]) % Limb) * Limb ^ n
           Turn(i, y) == y + (IF i - 1 \in 0 .. Limbs - 1 THEN Extra(i - 1) ELSE 0)
           g == [z \in Nat \X S |-> Turn(z[1], z[2])]
           x == Packed(v, bit)
<1>1. Limbs \in Nat /\ Limb \in Nat /\ Limb >= 2
  BY LimbAssumption
<1>2. \A n \in 0 .. Limbs - 1 : Extra(n) \in Nat
  <2> SUFFICES ASSUME NEW n \in 0 .. Limbs - 1 PROVE Extra(n) \in Nat
    OBVIOUS
  <2> DEFINE w == WordOf(v, n)
             c == Carries(v, bit)[n]
             q == Limb ^ n
  <2>1. n \in 0 .. Limbs
    BY <1>1
  <2>2. w \in 0 .. Limb - 1
    BY <2>1, WordIs
  <2>3. c \in {0, 1}
    BY <2>1, CarriesAre
  <2>4. q \in Nat
    BY <2>1, LimbIs
  <2> HIDE DEF w, c, q
  <2>5. (w + c) % Limb \in Nat
    BY <1>1, <2>2, <2>3, WordCarries
  <2>6. ((w + c) % Limb) * q \in Nat
    BY <2>4, <2>5
  <2>7. QED
    BY <2>6 DEF w, c, q
<1> HIDE DEF Extra
<1>3. \A i, y : y \in S => Turn(i, y) \in S
  BY <1>2
<1>4. \A i \in 1 .. Limbs, y \in S : Turn(i, y) = y + Extra(i - 1)
  <2> SUFFICES ASSUME NEW i \in 1 .. Limbs, NEW y \in S PROVE Turn(i, y) = y + Extra(i - 1)
    OBVIOUS
  <2>1. i - 1 \in 0 .. Limbs - 1
    BY <1>1
  <2>2. QED
    BY <2>1
<1> HIDE DEF Turn
<1>5. g \in [Nat \X S -> S]
  <2>1. \A z \in Nat \X S : Turn(z[1], z[2]) \in S
    BY <1>3
  <2> HIDE DEF S
  <2>2. QED
    BY <2>1
<1>6. \A i \in Nat, y \in S : g[<<i, y>>] = Turn(i, y)
  <2> HIDE DEF S
  <2>1. QED
    OBVIOUS
<1> HIDE DEF g
<1>7. \E f : f = WordsOf(v, bit, f)
  <2>1. \E f : GoesOn(f, 0, Limbs, S, 0, g)
    <3>1. 0 \in S
      OBVIOUS
    <3> HIDE DEF S
    <3>2. QED
      BY <1>1, <1>5, <3>1, TurnByTurn
  <2>2. PICK f \in [0 .. Limbs -> S] : f[0] = 0 /\ \A i \in 1 .. Limbs : f[i] = g[<<i, f[i - 1]>>]
    <3> HIDE DEF S
    <3>1. QED
      BY <1>1, <2>1 DEF GoesOn
  <2>3. ASSUME NEW n \in 0 .. Limbs
        PROVE  f[n] = IF n = 0 THEN 0 ELSE f[n - 1] + ((WordOf(v, n - 1) + Carries(v, bit)[n - 1]) % Limb) * Limb ^ (n - 1)
    <3>1. CASE n = 0
      BY <2>2, <3>1
    <3>2. CASE n # 0
      <4>1. n \in 1 .. Limbs /\ n - 1 \in 0 .. Limbs
        BY <1>1, <3>2
      <4>2. f[n] = f[n - 1] + Extra(n - 1)
        <5>1. f[n - 1] \in S /\ n \in Nat /\ f[n] = g[<<n, f[n - 1]>>]
          BY <2>2, <4>1
        <5> HIDE DEF S
        <5>2. QED
          BY <1>4, <1>6, <4>1, <5>1
      <4>3. QED
        BY <3>2, <4>2, Zenon DEF Extra
    <3>3. QED
      BY <3>1, <3>2
  <2>4. f = [n \in 0 .. Limbs |-> f[n]]
    OBVIOUS
  <2>5. f = WordsOf(v, bit, f)
    BY <2>3, <2>4, Zenon DEF WordsOf
  <2>6. QED
    BY <2>5
<1>8. x = WordsOf(v, bit, x)
  BY <1>7, Zenon DEF Packed
<1> HIDE DEF x
<1>9. \A n \in 0 .. Limbs :
        x[n] = IF n = 0 THEN 0 ELSE x[n - 1] + ((WordOf(v, n - 1) + Carries(v, bit)[n - 1]) % Limb) * Limb ^ (n - 1)
  BY <1>8, Zenon DEF WordsOf
<1>10. x[0] = 0
  <2>1. 0 \in 0 .. Limbs
    BY <1>1
  <2>2. QED
    BY <1>9, <2>1
<1>11. ASSUME NEW n \in 0 .. Limbs - 1
      PROVE  x[n + 1] = x[n] + Extra(n)
  <2>1. n + 1 \in 0 .. Limbs /\ n + 1 # 0 /\ (n + 1) - 1 = n
    BY <1>1
  <2>2. x[n + 1] = x[(n + 1) - 1] + Extra((n + 1) - 1)
    BY <1>9, <2>1, Zenon DEF Extra
  <2>3. QED
    BY <2>1, <2>2
<1>12. \A n \in 0 .. Limbs : x[n] \in Nat
  <2> DEFINE Good == {n \in 0 .. Limbs : x[n] \in Nat}
  <2>1. 0 \in Good
    BY <1>1, <1>10
  <2>2. \A n \in 0 .. Limbs - 1 : n \in Good => n + 1 \in Good
    <3> SUFFICES ASSUME NEW n \in 0 .. Limbs - 1, n \in Good PROVE n + 1 \in Good
      OBVIOUS
    <3>1. x[n + 1] = x[n] + Extra(n) /\ Extra(n) \in Nat /\ n + 1 \in 0 .. Limbs
      BY <1>1, <1>2, <1>11
    <3>2. QED
      BY <3>1
  <2> HIDE DEF Good
  <2>3. \A n \in 0 .. Limbs : n \in Good
    BY <1>1, <2>1, <2>2, UpTo
  <2>4. QED
    BY <2>3 DEF Good
<1>13. QED
  BY <1>10, <1>11, <1>12 DEF x, Extra

\* A word of the sum, with its carry, is the word of the number and the carry into it.
LEMMA WordAdded ==
    ASSUME NEW l \in Nat, NEW q \in Nat, NEW w \in Int, NEW c \in Int, NEW new \in Int, NEW carried \in Int,
           new + carried * l = w + c
    PROVE  new * q + carried * (l * q) = w * q + c * q
<1>1. (new + carried * l) * q = (w + c) * q
  OBVIOUS
<1>2. (new + carried * l) * q = new * q + carried * (l * q)
  OBVIOUS
<1>3. (w + c) * q = w * q + c * q
  OBVIOUS
<1>4. QED
  BY <1>1, <1>2, <1>3

\* The words below the nth, and the carry out of them, are those of the number and the bit.
LEMMA WordsAdd ==
    ASSUME NEW v \in Nat, NEW bit \in {0, 1}
    PROVE  \A n \in 0 .. Limbs :
             Packed(v, bit)[n] + Carries(v, bit)[n] * Limb ^ n = (v % (Limb ^ n)) + bit
<1> DEFINE x == Packed(v, bit)
           f == Carries(v, bit)
           Good == {n \in 0 .. Limbs : x[n] + f[n] * Limb ^ n = (v % (Limb ^ n)) + bit}
<1>1. /\ Limbs \in Nat /\ Limb \in Nat /\ Limb >= 2 /\ Limb ^ 0 = 1
      /\ \A n \in 0 .. Limbs - 1 : Limb ^ (n + 1) = Limb * Limb ^ n
  BY LimbAssumption
<1>2. /\ f[0] = bit
      /\ \A n \in 0 .. Limbs : f[n] \in {0, 1}
      /\ \A n \in 0 .. Limbs - 1 : f[n + 1] = IF (WordOf(v, n) + f[n]) % Limb = 0 THEN f[n] ELSE 0
  BY CarriesAre
<1>3. /\ x[0] = 0
      /\ \A n \in 0 .. Limbs : x[n] \in Nat
      /\ \A n \in 0 .. Limbs - 1 : x[n + 1] = x[n] + ((WordOf(v, n) + f[n]) % Limb) * Limb ^ n
  BY PackedIs
<1> HIDE DEF x, f
<1>4. 0 \in Good
  <2>1. v % 1 = 0
    OBVIOUS
  <2>2. x[0] + f[0] * Limb ^ 0 = (v % (Limb ^ 0)) + bit
    BY <1>1, <1>2, <1>3, <2>1
  <2>3. QED
    BY <1>1, <2>2
<1>5. \A n \in 0 .. Limbs - 1 : n \in Good => n + 1 \in Good
  <2> SUFFICES ASSUME NEW n \in 0 .. Limbs - 1, n \in Good PROVE n + 1 \in Good
    OBVIOUS
  <2> DEFINE q == Limb ^ n
             more == Limb ^ (n + 1)
             w == WordOf(v, n)
             c == f[n]
             carried == f[n + 1]
             new == (w + c) % Limb
             below == v % q
             above == v % more
             sum == x[n]
             next == x[n + 1]
  <2>1. n \in 0 .. Limbs /\ n + 1 \in 0 .. Limbs
    BY <1>1
  <2>2. q \in Nat /\ q >= 1 /\ more = Limb * q
    BY <1>1, <2>1, LimbIs
  <2>3. w = (v \div q) % Limb /\ w \in 0 .. Limb - 1
    BY <2>1, WordIs DEF WordOf
  <2>4. c \in {0, 1} /\ carried = IF (w + c) % Limb = 0 THEN c ELSE 0
    BY <1>2, <2>1
  <2>5. sum \in Nat /\ next = sum + new * q
    BY <1>3, <2>1
  <2>6. sum + c * q = below + bit
    <3>1. x[n] + f[n] * Limb ^ n = (v % (Limb ^ n)) + bit
      OBVIOUS
    <3>2. QED
      BY <3>1, Zenon DEF sum, c, q, below
  <2> HIDE DEF Good
  <2> HIDE DEF q, more, sum, next, c
  <2>7. (v % (Limb * q)) = (v % q) + ((v \div q) % Limb) * q
    <3>1. Limb \in Nat /\ Limb >= 1 /\ q \in Nat /\ q >= 1
      BY <1>1, <2>2
    <3>2. QED
      BY <3>1, WordMore, Zenon
  <2>8. above = below + w * q
    BY <2>2, <2>3, <2>7
  <2>9. below \in Int
    BY <2>2, DivMod
  <2> HIDE DEF w, below, above, carried
  <2>10. carried \in {0, 1} /\ new \in Nat /\ new + carried * Limb = w + c
    BY <1>1, <2>3, <2>4, WordCarries
  <2> HIDE DEF new
  <2>11. new * q + carried * (Limb * q) = w * q + c * q
    <3>1. w \in Int /\ c \in Int /\ new \in Int /\ carried \in Int
      BY <2>3, <2>4, <2>10
    <3>2. QED
      BY <1>1, <2>2, <2>10, <3>1, WordAdded
  <2> DEFINE a == new * q
             b == carried * (Limb * q)
             d == w * q
             e == c * q
  <2>12. a \in Int /\ b \in Int /\ d \in Int /\ e \in Int
    BY <1>1, <2>2, <2>3, <2>4, <2>10
  <2>13. carried * more = b
    BY <2>2
  <2>14. sum \in Int /\ bit \in Int /\ sum + e = below + bit /\ above = below + d /\ next = sum + a /\ a + b = d + e
    BY <2>5, <2>6, <2>8, <2>11
  <2> HIDE DEF a, b, d, e
  <2>15. next + b = above + bit
    BY <2>9, <2>12, <2>14
  <2>16. next + carried * more = above + bit
    BY <2>13, <2>15
  <2>17. x[n + 1] + f[n + 1] * Limb ^ (n + 1) = (v % (Limb ^ (n + 1))) + bit
    BY <2>16, Zenon DEF next, carried, more, above
  <2>18. QED
    <3> HIDE DEF next, carried, more, above
    <3>1. QED
      BY <2>1, <2>17 DEF Good
<1> HIDE DEF Good
<1>6. \A n \in 0 .. Limbs : n \in Good
  BY <1>1, <1>4, <1>5, UpTo
<1>7. QED
  BY <1>6 DEF Good, x, f

\* Word by word, AddBit adds the bit: no carry is lost on the way.
LEMMA AddBitExact ==
    ASSUME NEW v \in Nat, NEW bit \in {0, 1}, v + bit < R
    PROVE  AddBit(v, bit) = v + bit
<1> DEFINE sum == Packed(v, bit)[Limbs]
           c == Carries(v, bit)[Limbs]
<1>1. Limbs \in 0 .. Limbs /\ Limb ^ Limbs = R
  BY LimbAssumption
<1>2. R \in Nat /\ R > 0
  BY ScalarSizes
<1>3. sum \in Nat
  BY <1>1, PackedIs
<1>4. c \in {0, 1}
  BY <1>1, CarriesAre
<1>5. sum + c * R = (v % R) + bit
  BY <1>1, WordsAdd
<1>6. v % R = v
  BY <1>2
<1>7. AddBit(v, bit) = sum
  BY AddBitIs
<1> HIDE DEF sum, c
<1>8. CASE c = 0
  BY <1>2, <1>3, <1>5, <1>6, <1>7, <1>8
<1>9. CASE c = 1
  BY <1>2, <1>3, <1>5, <1>6, <1>9
<1>10. QED
  BY <1>4, <1>8, <1>9

\* The sign row of a half scalar, the sign of a column, and a turn of the loop over the others.
SignRow(half) ==
    [i \in 0 .. Columns - 1 |-> IF i = Columns - 1 THEN 0 ELSE ((half \div 2 ^ i) % 2) - 1]
Factor(half, n) == IF SignRow(half)[n] = -1 THEN -1 ELSE 1
CombTurn(half, f, i) ==
    IF i = Columns THEN half \div 2 ^ (Columns - 1)
    ELSE AddBit(f[i - 1] \div 2, IF SignRow(half)[(i - 1) % Columns] = -1 THEN f[i - 1] % 2 ELSE 0)
CombUpTo(half, f) == [i \in Columns .. Rows * Columns |-> CombTurn(half, f, i)]
Remaining(half) == CHOOSE f : f = CombUpTo(half, f)

\* They are those of comb.
LEMMA CombIs ==
    ASSUME NEW k
    PROVE  LET half == OddScalar(k) \div 2 IN
           comb(k) = [digits |-> [i \in 0 .. Rows * Columns - 1 |->
                                     IF i < Columns THEN SignRow(half)[i] ELSE Remaining(half)[i] % 2],
                      left |-> Remaining(half)[Rows * Columns]]
BY Zenon DEF comb, Remaining, CombUpTo, CombTurn, SignRow

\* How large the comb is.
LEMMA CombSizes ==
    LET K == Rows * Columns IN
    /\ Rows \in Nat /\ Rows >= 2 /\ Columns \in Nat /\ Columns >= 1
    /\ K \in Nat /\ 2 * Columns <= K /\ K = Columns * Rows
    /\ Doubles(K) /\ 4 * curve_order <= 2 ^ K
<1> DEFINE K == Rows * Columns
<1>1. Rows \in Nat /\ Rows >= 2 /\ Columns \in Nat /\ Columns >= 1
  BY CombAssumption
<1>2. K \in Nat /\ K = Columns * Rows
  BY <1>1
<1>3. 2 * Columns <= K
  <2>1. Rows - 2 \in Nat
    BY <1>1
  <2>2. Columns * (Rows - 2) >= 0
    BY <1>1, <2>1
  <2>3. Columns * (Rows - 2) = Columns * Rows - 2 * Columns
    BY <1>1
  <2>4. QED
    BY <1>1, <1>2, <2>2, <2>3
<1>4. 2 ^ 0 = 1 /\ 4 * curve_order <= 2 ^ K /\ \A n \in 0 .. K : 2 ^ n \in Nat /\ 2 ^ (n + 1) = 2 * 2 ^ n
  BY CombAssumption, PowersAssumption
<1>5. Doubles(K)
  BY <1>2, <1>4 DEF Doubles
<1>6. QED
  BY <1>1, <1>2, <1>3, <1>4, <1>5

\* A turn: half of what is left, and a bit more under a negative sign; no word is exceeded.
LEMMA RemainingIs ==
    ASSUME NEW half \in Nat, half < R
    PROVE  LET x == Remaining(half)
               K == Rows * Columns
           IN  /\ x \in [Columns .. K -> Nat]
               /\ x[Columns] = half \div 2 ^ (Columns - 1)
               /\ \A i \in Columns + 1 .. K :
                    /\ x[i] = (x[i - 1] \div 2) + (IF SignRow(half)[(i - 1) % Columns] = -1 THEN x[i - 1] % 2 ELSE 0)
                    /\ x[i - 1] = Factor(half, (i - 1) % Columns) * (x[i - 1] % 2) + 2 * x[i]
<1> DEFINE K == Rows * Columns
           S == 0 .. R - 1
           first == half \div 2 ^ (Columns - 1)
           Negative(i) == SignRow(half)[(i - 1) % Columns] = -1
           Next(i, y) == (y \div 2) + (IF Negative(i) THEN y % 2 ELSE 0)
           Added(i, y) == AddBit(y \div 2, IF Negative(i) THEN y % 2 ELSE 0)
           g == [z \in Nat \X S |-> Next(z[1], z[2]) % R]
<1>1. Columns \in Nat /\ K \in Nat /\ 2 * Columns <= K /\ Columns >= 1
  BY CombSizes
<1> HIDE DEF K
<1>2. R \in Nat /\ R > 0
  BY ScalarSizes
<1>3. first \in S
  <2> DEFINE m == Columns - 1
             q == 2 ^ m
             y == half \div q
  <2>1. m \in 0 .. K /\ Doubles(K)
    BY <1>1, CombSizes DEF K
  <2> HIDE DEF m
  <2>2. q \in Nat /\ q >= 1
    BY <2>1, DoublesIs
  <2> HIDE DEF q
  <2>3. q > 0
    BY <2>2
  <2>4. y \in Nat
    BY <2>2, <2>3, HalfQuotient
  <2>5. half % q \in Int /\ 0 <= half % q /\ half = q * y + (half % q)
    BY <2>2, <2>3, DivMod
  <2> DEFINE low == half % q
  <2>6. low \in Int /\ 0 <= low /\ half = q * y + low
    BY <2>5
  <2> HIDE DEF y, low
  <2>7. q * y >= y /\ q * y \in Int
    BY <2>2, <2>4
  <2>8. y <= half
    BY <2>4, <2>6, <2>7
  <2>9. y \in S
    BY <1>2, <2>4, <2>8
  <2>10. QED
    BY <2>9 DEF y, q, m
<1>4. ASSUME NEW i \in Nat, NEW y \in S
      PROVE  Next(i, y) \in S /\ Next(i, y) % R = Next(i, y) /\ Added(i, y) = Next(i, y)
  <2>1. Next(i, y) \in S
    <3>1. y \in Nat /\ y % 2 \in {0, 1} /\ y \div 2 \in Nat /\ y = 2 * (y \div 2) + (y % 2) /\ y < R
      BY <1>2
    <3> DEFINE n == y \div 2
               bit == y % 2
               more == IF Negative(i) THEN bit ELSE 0
    <3>2. more \in {0, bit} /\ Next(i, y) = n + more
      OBVIOUS
    <3> HIDE DEF n, bit, more, Next
    <3>3. n + more \in S
      BY <1>2, <3>1, <3>2 DEF n, bit
    <3>4. QED
      BY <3>2, <3>3
  <2>2. Added(i, y) = Next(i, y)
    <3> DEFINE n == y \div 2
               bit == y % 2
               more == IF Negative(i) THEN bit ELSE 0
    <3>1. n \in Nat /\ bit \in {0, 1}
      BY <1>2
    <3>2. more \in {0, 1}
      BY <3>1
    <3>3. n + more < R
      BY <1>2, <2>1
    <3>4. AddBit(n, more) = n + more
      <4> HIDE DEF n, more
      <4>1. QED
        BY <3>1, <3>2, <3>3, AddBitExact
    <3>5. QED
      BY <3>4
  <2> HIDE DEF Next, Added
  <2>3. QED
    BY <1>2, <2>1, <2>2
<1> HIDE DEF first, Next, Added
<1>5. g \in [Nat \X S -> S]
  <2>1. ASSUME NEW z \in Nat \X S
        PROVE  Next(z[1], z[2]) % R \in S
    <3>1. z[1] \in Nat /\ z[2] \in S
      OBVIOUS
    <3> HIDE DEF S
    <3>2. QED
      BY <1>4, <3>1
  <2> HIDE DEF S
  <2>2. QED
    BY <2>1
<1>6. \A i \in Nat, y \in S : g[<<i, y>>] = Next(i, y) % R
  <2> HIDE DEF S
  <2>1. QED
    OBVIOUS
<1> HIDE DEF g
<1>7. \E f \in [Columns .. K -> S] : f[Columns] = first /\ \A i \in Columns + 1 .. K : f[i] = g[<<i, f[i - 1]>>]
  <2> DEFINE n == K - Columns
  <2>1. n \in Nat /\ Columns + n = K
    BY <1>1
  <2> HIDE DEF n, S
  <2>2. \E f : GoesOn(f, Columns, n, S, first, g)
    BY <1>1, <1>3, <1>5, <2>1, TurnByTurn
  <2>3. QED
    BY <2>1, <2>2 DEF GoesOn
<1>8. \E f : f = CombUpTo(half, f)
  <2>1. PICK f \in [Columns .. K -> S] : f[Columns] = first /\ \A i \in Columns + 1 .. K : f[i] = g[<<i, f[i - 1]>>]
    BY <1>7
  <2>2. ASSUME NEW i \in Columns .. K
        PROVE  f[i] = CombTurn(half, f, i)
    <3>1. CASE i = Columns
      BY <2>1, <3>1 DEF CombTurn, first
    <3>2. CASE i # Columns
      <4>1. i \in Columns + 1 .. K /\ i - 1 \in Columns .. K /\ i \in Nat
        BY <1>1, <3>2
      <4>2. f[i] = Added(i, f[i - 1])
        <5>1. f[i - 1] \in S
          BY <4>1
        <5> HIDE DEF S
        <5>2. f[i] = Next(i, f[i - 1]) % R
          BY <1>6, <2>1, <4>1, <5>1
        <5>3. QED
          BY <1>4, <4>1, <5>1, <5>2
      <4>3. CombTurn(half, f, i) = Added(i, f[i - 1])
        BY <3>2, Zenon DEF CombTurn, Added
      <4>4. QED
        BY <4>2, <4>3
    <3>3. QED
      BY <3>1, <3>2
  <2>3. f = CombUpTo(half, f)
    <3>1. f = [i \in Columns .. K |-> f[i]]
      OBVIOUS
    <3>2. QED
      BY <2>2, <3>1, Zenon DEF CombUpTo, K
  <2>4. QED
    BY <2>3
<1> DEFINE x == Remaining(half)
<1>9. x = CombUpTo(half, x)
  BY <1>8, Zenon DEF Remaining
<1> HIDE DEF x
<1>10. x = [i \in Columns .. K |-> CombTurn(half, x, i)]
  BY <1>9, Zenon DEF CombUpTo, K
<1>11. x[Columns] = first
  BY <1>1, <1>10 DEF CombTurn, first
<1>12. ASSUME NEW i \in Columns + 1 .. K
       PROVE  x[i] = Added(i, x[i - 1])
  <2>1. i \in Columns .. K /\ i # Columns
    BY <1>1
  <2>2. x[i] = CombTurn(half, x, i)
    BY <1>10, <2>1
  <2>3. QED
    BY <2>1, <2>2, Zenon DEF CombTurn, Added
<1>13. \A i \in Columns .. K : x[i] \in S
  <2> DEFINE n == K - Columns
             Good == {m \in 0 .. n : x[Columns + m] \in S}
  <2>1. n \in Nat
    BY <1>1
  <2>2. 0 \in Good
    BY <1>1, <1>3, <1>11
  <2>3. ASSUME NEW m \in 0 .. n - 1, m \in Good
        PROVE  m + 1 \in Good
    <3> DEFINE i == Columns + (m + 1)
    <3>1. i \in Columns + 1 .. K /\ i - 1 = Columns + m /\ i \in Nat /\ m + 1 \in 0 .. n
      BY <1>1
    <3> HIDE DEF i
    <3>2. x[i - 1] \in S
      BY <2>3, <3>1
    <3>3. x[i] \in S
      <4> HIDE DEF S
      <4>1. QED
        BY <1>4, <1>12, <3>1, <3>2
    <3>4. QED
      BY <3>1, <3>3 DEF i
  <2>4. \A m \in 0 .. n : m \in Good
    <3> HIDE DEF n, Good
    <3>1. QED
      BY <2>1, <2>2, <2>3, UpTo
  <2>5. ASSUME NEW i \in Columns .. K
        PROVE  x[i] \in S
    <3>1. i - Columns \in 0 .. n /\ Columns + (i - Columns) = i
      BY <1>1
    <3>2. QED
      BY <2>4, <3>1
  <2>6. QED
    BY <2>5
<1>14. x \in [Columns .. K -> Nat]
  <2>1. \A i \in Columns .. K : x[i] \in Nat
    BY <1>2, <1>13
  <2>2. QED
    BY <1>10, <2>1
<1>15. ASSUME NEW i \in Columns + 1 .. K
       PROVE  /\ x[i] = (x[i - 1] \div 2) + (IF Negative(i) THEN x[i - 1] % 2 ELSE 0)
              /\ x[i - 1] = Factor(half, (i - 1) % Columns) * (x[i - 1] % 2) + 2 * x[i]
  <2> DEFINE y == x[i - 1]
             n == y \div 2
             bit == y % 2
  <2>1. i - 1 \in Columns .. K /\ i \in Nat
    BY <1>1
  <2>2. y \in S /\ y \in Nat
    BY <1>13, <1>14, <2>1
  <2>3. x[i] = Next(i, y)
    <3> HIDE DEF S
    <3>1. QED
      BY <1>4, <1>12, <2>1, <2>2
  <2>4. bit \in {0, 1} /\ y = 2 * n + bit /\ n \in Nat
    BY <2>2
  <2>5. x[i] = n + (IF Negative(i) THEN bit ELSE 0)
    BY <2>3 DEF Next
  <2>6. Factor(half, (i - 1) % Columns) = IF Negative(i) THEN -1 ELSE 1
    BY Zenon DEF Factor
  <2> HIDE DEF n, bit, y, Negative
  <2>7. y = (IF Negative(i) THEN -1 ELSE 1) * bit + 2 * x[i]
    BY <2>4, <2>5
  <2>8. QED
    BY <2>5, <2>6, <2>7 DEF n, bit, y
<1>16. QED
  BY <1>11, <1>14, <1>15 DEF x, first, K

\* What remains has a bit less with every digit, and in the end nothing remains.
LEMMA NothingRemains ==
    ASSUME NEW half \in Nat, half < curve_order
    PROVE  Remaining(half)[Rows * Columns] = 0
<1> DEFINE K == Rows * Columns
           x == Remaining(half)
           last == K - 1
           n == last - Columns
           Good == {m \in 0 .. n : x[Columns + m] <= 2 ^ (n - m)}
<1>1. Columns \in Nat /\ K \in Nat /\ 2 * Columns <= K /\ Columns >= 1 /\ K = Columns * Rows /\ Rows \in Nat
      /\ Doubles(K) /\ 4 * curve_order <= 2 ^ K
  BY CombSizes
<1> HIDE DEF K
<1>2. /\ x \in [Columns .. K -> Nat]
      /\ x[Columns] = half \div 2 ^ (Columns - 1)
      /\ \A i \in Columns + 1 .. K :
           x[i] = (x[i - 1] \div 2) + (IF SignRow(half)[(i - 1) % Columns] = -1 THEN x[i - 1] % 2 ELSE 0)
  <2>1. half < R
    BY ScalarSizes
  <2>2. QED
    BY <2>1, RemainingIs DEF K
<1> HIDE DEF x
<1>3. n \in Nat /\ last \in Columns .. K /\ Columns + n = last /\ \A m \in 0 .. n : n - m \in 0 .. K
  BY <1>1
<1>4. 0 \in Good
  <2> DEFINE c == Columns - 1
             a == 2 ^ c
             b == 2 ^ n
             e == c + n
             f == e + 1
             g == f + 1
             y == half \div a
  <2>1. c \in Nat /\ n \in Nat /\ c + n <= K /\ e \in 0 .. K /\ f \in 0 .. K /\ g = K /\ c \in 0 .. K /\ n \in 0 .. K
        /\ f # 0 /\ g # 0 /\ f - 1 = e /\ g - 1 = f /\ g \in 0 .. K
    BY <1>1
  <2> HIDE DEF c, n
  <2>2. 2 ^ e = a * b
    BY <1>1, <2>1, DoublesPlus
  <2> HIDE DEF e, f, g
  <2>3. 2 ^ f = 2 * 2 ^ (f - 1) /\ 2 ^ g = 2 * 2 ^ (g - 1)
    BY <1>1, <2>1, DoublesIs
  <2>4. a \in Nat /\ b \in Nat /\ a >= 1
    BY <1>1, <2>1, DoublesIs
  <2>5. 2 ^ e \in Nat
    BY <1>1, <2>1, DoublesIs
  <2> DEFINE d == 2 ^ e
  <2>6. d \in Nat /\ 4 * curve_order <= 4 * d
    BY <1>1, <2>1, <2>3, <2>5
  <2>7. half < a * b
    BY <2>2, <2>6, ScalarSizes
  <2> HIDE DEF a, b, d
  <2>8. y \in Nat /\ half % a \in Int /\ 0 <= half % a /\ half = a * y + (half % a)
    <3>1. a > 0
      BY <2>4
    <3>2. y \in Nat
      BY <2>4, <3>1, HalfQuotient
    <3>3. half % a \in Int /\ 0 <= half % a /\ half = a * y + (half % a)
      BY <2>4, <3>1, DivMod
    <3>4. QED
      BY <3>2, <3>3
  <2> HIDE DEF y
  <2>9. y <= b
    <3> DEFINE low == half % a
    <3>1. low \in Int /\ 0 <= low /\ half = a * y + low
      BY <2>8
    <3> HIDE DEF low
    <3> SUFFICES ASSUME y > b PROVE FALSE
      BY <2>4, <2>8
    <3>2. a * b <= a * y
      <4>1. y - b \in Nat
        BY <2>4, <2>8
      <4>2. a * (y - b) >= 0
        BY <2>4, <4>1
      <4>3. a * (y - b) = a * y - a * b /\ a * y \in Int /\ a * b \in Int
        BY <2>4, <2>8
      <4>4. QED
        BY <4>2, <4>3
    <3>3. a * b \in Int /\ a * y \in Int
      BY <2>4, <2>8
    <3>4. QED
      BY <2>7, <3>1, <3>2, <3>3
  <2>10. x[Columns + 0] = y /\ n - 0 = n /\ 0 \in 0 .. n
    BY <1>1, <1>2, <2>1 DEF y, a, c
  <2>11. QED
    BY <2>9, <2>10 DEF b
<1>5. ASSUME NEW m \in 0 .. n - 1, m \in Good
      PROVE  m + 1 \in Good
  <2> DEFINE i == Columns + (m + 1)
             j == n - m
             q == 2 ^ (j - 1)
             y == x[i - 1]
  <2>1. /\ i \in Columns + 1 .. K /\ i - 1 = Columns + m /\ i - 1 \in Columns .. K /\ m + 1 \in 0 .. n
        /\ j \in 0 .. K /\ j # 0 /\ j - 1 \in 0 .. K /\ n - (m + 1) = j - 1
    BY <1>1, <1>3
  <2> HIDE DEF i, j
  <2>2. 2 ^ j = 2 * q
    BY <1>1, <2>1, DoublesIs
  <2>3. q \in Nat
    BY <1>1, <2>1, DoublesIs
  <2>4. y <= 2 ^ j /\ y \in Nat
    BY <1>2, <1>5, <2>1 DEF j
  <2>5. x[i] <= (y \div 2) + (y % 2)
    <3>1. x[i] = (y \div 2) + (IF SignRow(half)[(i - 1) % Columns] = -1 THEN y % 2 ELSE 0)
      BY <1>2, <2>1
    <3>2. y % 2 \in {0, 1} /\ y \div 2 \in Nat
      BY <2>4
    <3> HIDE DEF y
    <3>3. QED
      BY <3>1, <3>2
  <2>6. x[i] \in Nat
    BY <1>2, <2>1
  <2> HIDE DEF q, y
  <2>7. x[i] <= q
    BY <2>2, <2>3, <2>4, <2>5, <2>6
  <2>8. QED
    BY <2>1, <2>7 DEF q, i
<1>6. x[last] <= 1
  <2>1. \A m \in 0 .. n : m \in Good
    <3> HIDE DEF n, Good
    <3>1. QED
      BY <1>3, <1>4, <1>5, UpTo
  <2>2. n \in 0 .. n /\ n - n = 0 /\ 2 ^ 0 = 1
    BY <1>1, <1>3 DEF Doubles
  <2>3. n \in Good
    <3> HIDE DEF n, Good
    <3>1. QED
      BY <2>1, <2>2
  <2>4. x[Columns + n] <= 2 ^ (n - n)
    BY <2>3
  <2> HIDE DEF n, last
  <2>5. QED
    BY <1>3, <2>2, <2>4
<1>7. SignRow(half)[last % Columns] = 0
  <2> DEFINE c == Columns - 1
             above == Rows - 1
  <2>1. last = Columns * above + c
    <3>1. Columns * above = Columns * Rows - Columns
      BY <1>1
    <3>2. QED
      BY <1>1, <3>1
  <2>2. last \in Int /\ above \in Int /\ c \in Int /\ 0 <= c /\ c < Columns /\ Columns > 0
    BY <1>1
  <2> HIDE DEF above, c, last
  <2>3. last % Columns = c
    BY <1>1, <2>1, <2>2, Unique
  <2>4. QED
    BY <2>2, <2>3 DEF SignRow, c
<1>8. x[K] = x[last] \div 2
  <2>1. K \in Columns + 1 .. K /\ K - 1 = last
    BY <1>1
  <2> DEFINE y == x[last]
  <2>2. x[K] = (y \div 2) + (IF SignRow(half)[last % Columns] = -1 THEN y % 2 ELSE 0)
    BY <1>2, <2>1
  <2>3. y \in Nat
    BY <1>2, <1>3
  <2> HIDE DEF y, last
  <2>4. x[K] = y \div 2
    BY <1>7, <2>2, <2>3
  <2>5. QED
    BY <2>4 DEF y
<1>9. x[last] \in Nat
  BY <1>2, <1>3
<1> HIDE DEF last
<1>10. x[last] \div 2 = 0
  <2> DEFINE y == x[last]
  <2> HIDE DEF y
  <2>1. y \in Nat /\ y <= 1
    BY <1>6, <1>9 DEF y
  <2>2. y \div 2 = 0
    BY <2>1
  <2>3. QED
    BY <2>2 DEF y
<1>11. QED
  BY <1>8, <1>10 DEF x, K

\* A sum from the top, each term after twice the rest, has one value.
Summed(f, n, a) == f[n] = 0 /\ \A i \in 0 .. n - 1 : f[i] = a[i] + 2 * f[i + 1]

LEMMA OneSum ==
    ASSUME NEW n \in Nat, NEW a, NEW f, NEW g, Summed(f, n, a), Summed(g, n, a)
    PROVE  f[0] = g[0]
<1> DEFINE Good == {k \in 0 .. n : f[n - k] = g[n - k]}
<1>1. 0 \in Good
  BY DEF Summed
<1>2. ASSUME NEW k \in 0 .. n - 1, k \in Good
      PROVE  k + 1 \in Good
  <2> DEFINE i == n - (k + 1)
  <2>1. i \in 0 .. n - 1 /\ i + 1 = n - k /\ k + 1 \in 0 .. n
    OBVIOUS
  <2> HIDE DEF i
  <2>2. f[i + 1] = g[i + 1]
    BY <1>2, <2>1
  <2>3. f[i] = a[i] + 2 * f[i + 1] /\ g[i] = a[i] + 2 * g[i + 1]
    BY <2>1 DEF Summed
  <2>4. f[i] = g[i]
    BY <2>2, <2>3
  <2>5. QED
    BY <2>1, <2>4 DEF i
<1>3. n \in Good
  <2> HIDE DEF Good
  <2>1. \A k \in 0 .. n : k \in Good
    BY <1>1, <1>2, UpTo
  <2>2. QED
    BY <2>1
<1>4. n - n = 0
  OBVIOUS
<1>5. QED
  BY <1>3, <1>4

\* The first row, with nothing but signs in its columns, is the scalar below the others.
LEMMA SignsSum ==
    ASSUME NEW half \in Nat, NEW a, \A n \in 0 .. Columns - 1 : a[n] = Factor(half, n)
    PROVE  \E f \in [0 .. Columns -> Int] :
               Summed(f, Columns, a)
               /\ f[0] = (2 * half + 1) - 2 ^ Columns * (half \div 2 ^ (Columns - 1))
<1> DEFINE K == Rows * Columns
           U(n) == half \div 2 ^ n
           top == U(Columns - 1)
           low(n) == 2 ^ (Columns - n) * top
           f == [n \in 0 .. Columns |-> IF n = Columns THEN 0 ELSE (2 * U(n) + 1) - low(n)]
<1>1. Columns \in Nat /\ K \in Nat /\ 2 * Columns <= K /\ Columns >= 1 /\ Doubles(K)
  BY CombSizes
<1> HIDE DEF K
<1>2. \A n \in 0 .. K : 2 ^ n \in Nat /\ 2 ^ n >= 1
  BY <1>1, DoublesIs
<1>3. ASSUME NEW n \in 0 .. Columns - 1
      PROVE  U(n) \in Nat
  <2> DEFINE q == 2 ^ n
  <2>1. q \in Nat /\ q > 0
    BY <1>1, <1>2
  <2> HIDE DEF q
  <2>2. half \div q \in Nat
    BY <2>1, HalfQuotient
  <2>3. QED
    BY <2>2 DEF q
<1>4. ASSUME NEW n \in 0 .. Columns - 2
      PROVE  U(n) = 2 * U(n + 1) + (U(n) % 2)
  <2> DEFINE q == 2 ^ n
  <2>1. q \in Nat /\ q > 0
    BY <1>1, <1>2
  <2>2. 2 ^ (n + 1) = 2 * q
    BY <1>1 DEF Doubles
  <2> HIDE DEF q
  <2>3. half \div q = 2 * (half \div (2 * q)) + ((half \div q) % 2)
    BY <2>1, HalfQuotient
  <2>4. QED
    BY <2>2, <2>3 DEF q
<1>5. ASSUME NEW n \in 0 .. Columns - 1
      PROVE  low(n) \in Int /\ (n # Columns - 1 => low(n) = 2 * low(n + 1))
  <2> DEFINE i == Columns - n
             j == Columns - (n + 1)
             P == 2 ^ i
             Q == 2 ^ j
  <2>1. i \in 0 .. K /\ j \in 0 .. K /\ i # 0 /\ i - 1 = j /\ Columns - 1 \in 0 .. Columns - 1
    BY <1>1
  <2>2. P \in Nat /\ Q \in Nat
    BY <1>2, <2>1
  <2>3. P = 2 * Q
    <3> HIDE DEF i, j
    <3>1. 2 ^ i = 2 * 2 ^ (i - 1)
      BY <1>1, <2>1, DoublesIs
    <3>2. QED
      BY <2>1, <3>1
  <2>4. top \in Nat
    BY <1>3, <2>1
  <2> HIDE DEF P, Q, top
  <2>5. P * top = 2 * (Q * top) /\ P * top \in Int
    BY <2>2, <2>3, <2>4
  <2>6. QED
    BY <2>5 DEF P, Q
<1>6. low(Columns - 1) = 2 * top
  <2>1. Columns - (Columns - 1) = 1 /\ 2 ^ 1 = 2
    <3>1. Columns - (Columns - 1) = 1 /\ 0 \in 0 .. K /\ 0 + 1 = 1
      BY <1>1
    <3>2. 2 ^ (0 + 1) = 2 * 2 ^ 0 /\ 2 ^ 0 = 1
      BY <3>1, <1>1 DEF Doubles
    <3>3. QED
      BY <3>1, <3>2
  <2> HIDE DEF top
  <2>2. QED
    BY <2>1
<1> HIDE DEF U, low
<1>7. f \in [0 .. Columns -> Int]
  <2>1. \A n \in 0 .. Columns - 1 : (2 * U(n) + 1) - low(n) \in Int
    BY <1>3, <1>5
  <2>2. QED
    BY <1>1, <2>1
<1>8. ASSUME NEW n \in 0 .. Columns - 1
      PROVE  f[n] = a[n] + 2 * f[n + 1]
  <2>1. f[n] = (2 * U(n) + 1) - low(n) /\ U(n) \in Nat
    BY <1>1, <1>3
  <2>2. CASE n = Columns - 1
    <3>1. f[n + 1] = 0
      BY <1>1, <2>2
    <3>2. f[n] = 1
      BY <1>6, <2>1, <2>2
    <3>3. a[n] = 1
      <4>1. SignRow(half)[n] = 0
        BY <1>1, <2>2 DEF SignRow
      <4>2. QED
        BY <4>1 DEF Factor
    <3> HIDE DEF f
    <3>4. QED
      BY <3>1, <3>2, <3>3
  <2>3. CASE n # Columns - 1
    <3>1. f[n + 1] = (2 * U(n + 1) + 1) - low(n + 1) /\ U(n + 1) \in Nat /\ low(n + 1) \in Int
      BY <1>1, <1>3, <1>5, <2>3
    <3>2. U(n) = 2 * U(n + 1) + (U(n) % 2) /\ low(n) = 2 * low(n + 1)
      BY <1>1, <1>4, <1>5, <2>3
    <3>3. SignRow(half)[n] = (U(n) % 2) - 1
      BY <1>1, <2>3 DEF SignRow, U
    <3>4. U(n) % 2 \in {0, 1}
      BY <2>1
    <3>5. a[n] = IF U(n) % 2 = 0 THEN -1 ELSE 1
      <4>1. a[n] = IF SignRow(half)[n] = -1 THEN -1 ELSE 1
        BY DEF Factor
      <4>2. QED
        BY <3>3, <3>4, <4>1
    <3> DEFINE bit == U(n) % 2
    <3> HIDE DEF f, bit
    <3>6. bit \in {0, 1} /\ U(n) = 2 * U(n + 1) + bit /\ a[n] = IF bit = 0 THEN -1 ELSE 1
      BY <3>2, <3>4, <3>5 DEF bit
    <3>7. a[n] = 2 * bit - 1
      BY <3>6
    <3>8. QED
      BY <2>1, <3>1, <3>2, <3>6, <3>7
  <2>4. QED
    BY <2>2, <2>3
<1>9. f[0] = (2 * half + 1) - 2 ^ Columns * (half \div 2 ^ (Columns - 1))
  <2>1. U(0) = half
    <3>1. 2 ^ 0 = 1
      BY <1>1 DEF Doubles
    <3>2. half \div 1 = half
      OBVIOUS
    <3>3. QED
      BY <3>1, <3>2 DEF U
  <2>2. low(0) = 2 ^ Columns * (half \div 2 ^ (Columns - 1))
    <3>1. Columns - 0 = Columns
      BY <1>1
    <3>2. QED
      BY <3>1, Zenon DEF low, top, U
  <2>3. f[0] = (2 * U(0) + 1) - low(0)
    BY <1>1
  <2> HIDE DEF f
  <2>4. QED
    BY <2>1, <2>2, <2>3
<1>10. f[Columns] = 0
  BY <1>1
<1> HIDE DEF f
<1>11. Summed(f, Columns, a)
  BY <1>8, <1>10 DEF Summed
<1>12. QED
  BY <1>7, <1>9, <1>11

\* Which column a place of the comb is in.
LEMMA ColumnOf ==
    ASSUME NEW row \in Nat, NEW n \in 0 .. Columns - 1
    PROVE  (row * Columns + n) % Columns = n
<1> DEFINE y == row * Columns + n
<1>1. Columns \in Nat /\ Columns > 0 /\ row \in Int /\ n \in Int /\ 0 <= n /\ n < Columns
  BY CombSizes
<1>2. y = Columns * row + n /\ y \in Int
  BY <1>1
<1> HIDE DEF y
<1>3. y % Columns = n /\ y \div Columns = row
  BY <1>1, <1>2, Unique
<1>4. QED
  BY <1>3 DEF y

\* The terms a add up to v.
AddUpTo(a, v) == \E f \in [0 .. Columns -> Int] : Summed(f, Columns, a) /\ f[0] = v

\* Another row takes what the next digits amount to from what remains.
LEMMA RowSum ==
    ASSUME NEW half \in Nat, half < R, NEW row \in 1 .. Rows - 1,
           NEW a, NEW b, NEW f \in [0 .. Columns -> Int], Summed(f, Columns, a), NEW m \in Int,
           f[0] = m - 2 ^ (row * Columns) * Remaining(half)[row * Columns],
           NEW col \in [0 .. Columns - 1 -> Int], \A n \in 0 .. Columns - 1 : a[n] = Factor(half, n) * col[n],
           \A n \in 0 .. Columns - 1 :
               b[n] = Factor(half, n) * (col[n] + (Remaining(half)[row * Columns + n] % 2) * 2 ^ (row * Columns))
    PROVE  AddUpTo(b, m - 2 ^ ((row + 1) * Columns) * Remaining(half)[(row + 1) * Columns])
<1> DEFINE K == Rows * Columns
           x == Remaining(half)
           q == row * Columns
           end == (row + 1) * Columns
           P == 2 ^ q
           z == x[end]
           low(n) == 2 ^ (Columns - n) * z
           e == [n \in 0 .. Columns |-> P * (x[q + n] - low(n))]
           g == [n \in 0 .. Columns |-> f[n] + e[n]]
<1>1. Columns \in Nat /\ K \in Nat /\ 2 * Columns <= K /\ Columns >= 1 /\ Doubles(K) /\ Rows \in Nat
  BY CombSizes
<1>2. /\ x \in [Columns .. K -> Nat]
      /\ \A i \in Columns + 1 .. K : x[i - 1] = Factor(half, (i - 1) % Columns) * (x[i - 1] % 2) + 2 * x[i]
  BY RemainingIs
<1> HIDE DEF x
<1>3. q \in Nat /\ end = q + Columns /\ Columns <= q /\ end <= K
  <2>1. q \in Nat /\ end = q + Columns
    BY <1>1
  <2>2. row - 1 \in Nat /\ Rows - (row + 1) \in Nat
    BY <1>1
  <2>3. (row - 1) * Columns >= 0 /\ (Rows - (row + 1)) * Columns >= 0
    BY <1>1, <2>2
  <2>4. (row - 1) * Columns = q - Columns /\ (Rows - (row + 1)) * Columns = K - end
    BY <1>1
  <2>5. QED
    BY <1>1, <2>1, <2>3, <2>4
<1>4. ASSUME NEW n \in 0 .. Columns - 1
      PROVE  (q + n) % Columns = n
  BY ColumnOf
<1> HIDE DEF K, q, end
<1>5. P \in Nat /\ z \in Nat /\ \A n \in 0 .. Columns : x[q + n] \in Nat
  <2>1. q \in 0 .. K /\ end \in Columns .. K /\ \A n \in 0 .. Columns : q + n \in Columns .. K
    BY <1>1, <1>3
  <2>2. P \in Nat
    BY <1>1, <2>1, DoublesIs
  <2>3. QED
    BY <1>2, <2>1, <2>2
<1>6. ASSUME NEW n \in 0 .. Columns
      PROVE  low(n) \in Int /\ (n # Columns => low(n) = 2 * low(n + 1))
  <2> DEFINE i == Columns - n
             j == Columns - (n + 1)
             S == 2 ^ i
             T == 2 ^ j
  <2>1. i \in 0 .. K /\ (n # Columns => j \in 0 .. K /\ i # 0 /\ i - 1 = j)
    BY <1>1
  <2>2. S \in Nat /\ (n # Columns => T \in Nat)
    <3> HIDE DEF i, j
    <3>1. 2 ^ i \in Nat
      BY <1>1, <2>1, DoublesIs
    <3>2. n # Columns => 2 ^ j \in Nat
      BY <1>1, <2>1, DoublesIs
    <3>3. QED
      BY <3>1, <3>2
  <2>3. n # Columns => S = 2 * T
    <3> HIDE DEF i, j
    <3>1. i # 0 => 2 ^ i = 2 * 2 ^ (i - 1)
      BY <1>1, <2>1, DoublesIs
    <3>2. QED
      BY <2>1, <3>1
  <2> HIDE DEF S, T, z
  <2>4. S * z \in Int
    BY <1>5, <2>2
  <2>5. n # Columns => S * z = 2 * (T * z)
    BY <1>5, <2>2, <2>3
  <2>6. QED
    BY <2>4, <2>5 DEF S, T
<1>7. low(Columns) = z /\ low(0) = 2 ^ Columns * z
  <2>1. Columns - Columns = 0 /\ Columns - 0 = Columns /\ 2 ^ 0 = 1
    BY <1>1 DEF Doubles
  <2> HIDE DEF z
  <2>2. 1 * z = z
    BY <1>5
  <2>3. QED
    BY <2>1, <2>2
<1> HIDE DEF P, z, low
<1>8. ASSUME NEW n \in 0 .. Columns
      PROVE  e[n] = P * (x[q + n] - low(n)) /\ e[n] \in Int
  <2> DEFINE y == x[q + n] - low(n)
  <2>1. y \in Int
    BY <1>5, <1>6
  <2> HIDE DEF y
  <2>2. P * y \in Int
    BY <1>5, <2>1
  <2>3. QED
    BY <2>2 DEF y
<1>9. ASSUME NEW n \in 0 .. Columns - 1
      PROVE  e[n] = Factor(half, n) * ((x[q + n] % 2) * P) + 2 * e[n + 1]
  <2> DEFINE i == q + (n + 1)
             c == Factor(half, n)
             d == x[q + n] % 2
             u == x[q + n] - low(n)
             v == x[i] - low(n + 1)
  <2>1. n \in 0 .. Columns /\ n + 1 \in 0 .. Columns /\ i \in Columns + 1 .. K /\ i - 1 = q + n /\ n # Columns
    BY <1>1, <1>3
  <2>2. x[q + n] = c * d + 2 * x[i]
    BY <1>2, <1>4, <2>1
  <2>3. x[q + n] \in Nat /\ x[i] \in Nat /\ low(n) \in Int /\ low(n + 1) \in Int /\ low(n) = 2 * low(n + 1)
    BY <1>5, <1>6, <2>1
  <2>4. d \in {0, 1} /\ c \in {-1, 1}
    BY <2>3 DEF Factor
  <2>5. e[n] = P * u /\ e[n + 1] = P * v
    BY <1>8, <2>1
  <2> HIDE DEF c, d, i, e
  <2>6. v \in Int
    BY <2>3
  <2>7. u = c * d + 2 * v
    <3>1. c * d \in {-1, 0, 1}
      BY <2>4
    <3> DEFINE w == c * d
    <3>2. w \in Int /\ x[q + n] = w + 2 * x[i]
      BY <2>2, <3>1
    <3> DEFINE xa == x[q + n]
               xb == x[i]
               la == low(n)
               lb == low(n + 1)
    <3> HIDE DEF w
    <3>3. xa = w + 2 * xb /\ la = 2 * lb /\ xa \in Int /\ xb \in Int /\ la \in Int /\ lb \in Int
          /\ u = xa - la /\ v = xb - lb
      BY <2>3, <3>2
    <3> HIDE DEF xa, xb, la, lb, u, v
    <3>4. u = w + 2 * v
      BY <3>2, <3>3
    <3>5. QED
      BY <3>4 DEF w
  <2> HIDE DEF u, v
  <2>8. P * u = c * (d * P) + 2 * (P * v)
    <3>1. P * (2 * v) = 2 * (P * v) /\ P * v \in Int
      BY <1>5, <2>6
    <3>2. CASE c = 1 /\ d = 1
      <4>1. P * (1 + 2 * v) = P + P * (2 * v)
        BY <1>5, <2>6
      <4>2. QED
        BY <1>5, <2>6, <2>7, <3>1, <3>2, <4>1
    <3>3. CASE c = -1 /\ d = 1
      <4>1. P * (-1 + 2 * v) = -P + P * (2 * v)
        BY <1>5, <2>6
      <4>2. QED
        BY <1>5, <2>6, <2>7, <3>1, <3>3, <4>1
    <3>4. CASE d = 0
      <4>1. u = 2 * v
        BY <2>4, <2>6, <2>7, <3>4
      <4>2. c * (d * P) = 0
        BY <1>5, <2>4, <3>4
      <4>3. QED
        BY <3>1, <4>1, <4>2
    <3>5. QED
      BY <2>4, <3>2, <3>3, <3>4
  <2>9. QED
    BY <2>5, <2>8 DEF c, d
<1>10. e[Columns] = 0
  <2>1. x[q + Columns] = z /\ Columns \in 0 .. Columns
    BY <1>1, <1>3 DEF z
  <2>2. e[Columns] = P * (z - z)
    BY <1>7, <1>8, <2>1
  <2>3. P * (z - z) = 0
    BY <1>5
  <2>4. QED
    BY <2>2, <2>3
<1>11. e[0] = P * x[q] - 2 ^ end * z
  <2> DEFINE T == 2 ^ Columns
             u == x[q]
  <2>1. 0 \in 0 .. Columns /\ q + 0 = q /\ q + Columns <= K /\ Columns \in 0 .. K
    BY <1>1, <1>3
  <2>2. e[0] = P * (u - T * z)
    BY <1>7, <1>8, <2>1
  <2>3. 2 ^ end = P * T
    <3>1. 2 ^ (q + Columns) = 2 ^ q * 2 ^ Columns
      BY <1>1, <1>3, <2>1, DoublesPlus
    <3>2. QED
      BY <1>3, <3>1 DEF P
  <2>4. T \in Nat
    BY <1>1, <2>1, DoublesIs
  <2>5. u \in Nat
    BY <1>5, <2>1
  <2> HIDE DEF T, u, e
  <2>6. P * (u - T * z) = P * u - (P * T) * z
    BY <1>5, <2>4, <2>5
  <2>7. QED
    BY <2>2, <2>3, <2>6 DEF u
<1> HIDE DEF e
<1>12. g \in [0 .. Columns -> Int]
  BY <1>8
<1>13. g[Columns] = 0
  <2>1. f[Columns] = 0
    BY DEF Summed
  <2>2. g[Columns] = f[Columns] + e[Columns]
    BY <1>1
  <2> HIDE DEF g
  <2>3. QED
    BY <1>10, <2>1, <2>2
<1>14. ASSUME NEW n \in 0 .. Columns - 1
       PROVE  g[n] = b[n] + 2 * g[n + 1]
  <2> DEFINE c == Factor(half, n)
             d == x[q + n] % 2
             l == col[n]
             i == n + 1
             y == d * P
  <2>1. n \in 0 .. Columns /\ i \in 0 .. Columns
    BY <1>1
  <2>2. f[n] = c * l + 2 * f[i]
    BY DEF Summed
  <2>3. e[n] = c * y + 2 * e[i]
    BY <1>9
  <2>4. b[n] = c * (l + y)
    BY DEF P, x, q
  <2>5. c \in {-1, 1} /\ l \in Int /\ f[i] \in Int /\ e[i] \in Int
    BY <1>8, <2>1 DEF Factor
  <2>6. y \in Int
    <3>1. x[q + n] \in Nat
      BY <1>5, <2>1
    <3>2. d \in {0, 1}
      BY <3>1
    <3> HIDE DEF d
    <3>3. QED
      BY <1>5, <3>2
  <2>7. g[n] = f[n] + e[n] /\ g[i] = f[i] + e[i]
    BY <2>1
  <2> HIDE DEF c, d, l, y, i, g
  <2>8. c * (l + y) = c * l + c * y
    BY <2>5, <2>6
  <2>9. c * l \in Int /\ c * y \in Int
    BY <2>5, <2>6
  <2> DEFINE cl == c * l
             cy == c * y
             fi == f[i]
             ei == e[i]
  <2>10. /\ cl \in Int /\ cy \in Int /\ fi \in Int /\ ei \in Int /\ b[n] = cl + cy
         /\ g[n] = (cl + 2 * fi) + (cy + 2 * ei) /\ g[i] = fi + ei
    BY <2>2, <2>3, <2>4, <2>5, <2>7, <2>8, <2>9
  <2> HIDE DEF cl, cy, fi, ei
  <2>11. g[n] = b[n] + 2 * g[i]
    BY <2>10
  <2>12. QED
    BY <2>11 DEF i
<1>15. g[0] = m - 2 ^ end * z
  <2>1. g[0] = f[0] + e[0]
    BY <1>1
  <2>2. f[0] = m - P * x[q]
    BY DEF P, q, x
  <2>3. P * x[q] \in Int /\ 2 ^ end * z \in Int
    <3>1. end \in 0 .. K /\ 0 \in 0 .. Columns /\ q + 0 = q
      BY <1>1, <1>3
    <3>2. 2 ^ end \in Nat
      BY <1>1, <3>1, DoublesIs
    <3>3. x[q] \in Nat
      BY <1>5, <3>1
    <3>4. QED
      BY <1>5, <3>2, <3>3
  <2> HIDE DEF g
  <2>4. QED
    BY <1>11, <2>1, <2>2, <2>3
<1> HIDE DEF g
<1>16. Summed(g, Columns, b)
  BY <1>13, <1>14 DEF Summed
<1>17. QED
  BY <1>12, <1>15, <1>16, Zenon DEF AddUpTo, z, end, x

\* What the columns hold after each row, under the digits d.
ColumnsUpTo(d, f) ==
    [row \in 0 .. Rows - 1 |-> [n \in 0 .. Columns - 1 |->
        IF row = 0 THEN 1 ELSE f[row - 1][n] + d[row * Columns + n] * 2 ^ (row * Columns)]]
ColumnsOf(d) == CHOOSE f : f = ColumnsUpTo(d, f)

LEMMA ColumnsAre ==
    ASSUME NEW d \in [0 .. Rows * Columns - 1 -> Int]
    PROVE  LET f == ColumnsOf(d) IN
           /\ f \in [0 .. Rows - 1 -> [0 .. Columns - 1 -> Int]]
           /\ \A n \in 0 .. Columns - 1 : f[0][n] = 1
           /\ \A row \in 1 .. Rows - 1, n \in 0 .. Columns - 1 :
                f[row][n] = f[row - 1][n] + d[row * Columns + n] * 2 ^ (row * Columns)
<1> DEFINE K == Rows * Columns
           S == [0 .. Columns - 1 -> Int]
           ones == [n \in 0 .. Columns - 1 |-> 1]
           Digit(row, n) == d[row * Columns + n] * 2 ^ (row * Columns)
           g == [z \in Nat \X S |-> IF z[1] \in 1 .. Rows - 1
                                    THEN [n \in 0 .. Columns - 1 |-> z[2][n] + Digit(z[1], n)] ELSE ones]
           last == Rows - 1
<1>1. Columns \in Nat /\ K \in Nat /\ Columns >= 1 /\ Doubles(K) /\ Rows \in Nat /\ Rows >= 2
  BY CombSizes
<1>2. ASSUME NEW row \in 1 .. Rows - 1, NEW n \in 0 .. Columns - 1
      PROVE  Digit(row, n) \in Int
  <2> DEFINE q == row * Columns
             P == 2 ^ q
             l == d[q + n]
  <2>1. q \in Nat /\ q + Columns <= K
    <3>1. Rows - (row + 1) \in Nat
      BY <1>1
    <3>2. (Rows - (row + 1)) * Columns >= 0
      BY <1>1, <3>1
    <3>3. (Rows - (row + 1)) * Columns = K - (q + Columns)
      BY <1>1
    <3>4. QED
      BY <1>1, <3>2, <3>3
  <2> HIDE DEF q
  <2>2. q \in 0 .. K /\ q + n \in 0 .. K - 1
    BY <1>1, <2>1
  <2> HIDE DEF K
  <2>3. P \in Nat
    BY <1>1, <2>2, DoublesIs
  <2>4. l \in Int
    BY <2>2 DEF K
  <2> HIDE DEF P, l
  <2>5. l * P \in Int
    BY <2>3, <2>4
  <2>6. QED
    BY <2>5 DEF l, P, q
<1> HIDE DEF Digit, K
<1>3. ones \in S
  OBVIOUS
<1>4. g \in [Nat \X S -> S]
  <2>1. ASSUME NEW z \in Nat \X S
        PROVE  (IF z[1] \in 1 .. Rows - 1 THEN [n \in 0 .. Columns - 1 |-> z[2][n] + Digit(z[1], n)] ELSE ones) \in S
    <3> DEFINE row == z[1]
               y == z[2]
    <3>1. y \in S
      OBVIOUS
    <3> HIDE DEF row, y
    <3>2. CASE row \in 1 .. Rows - 1
      <4>1. \A n \in 0 .. Columns - 1 : y[n] + Digit(row, n) \in Int
        BY <1>2, <3>1, <3>2
      <4>2. [n \in 0 .. Columns - 1 |-> y[n] + Digit(row, n)] \in S
        BY <4>1
      <4>3. QED
        BY <3>2, <4>2 DEF row, y
    <3>3. CASE row \notin 1 .. Rows - 1
      BY <1>3, <3>3 DEF row
    <3>4. QED
      BY <3>2, <3>3
  <2> HIDE DEF S, ones
  <2>2. QED
    BY <2>1
<1>5. \A row \in 1 .. Rows - 1, y \in S : g[<<row, y>>] = [n \in 0 .. Columns - 1 |-> y[n] + Digit(row, n)]
  <2> SUFFICES ASSUME NEW row \in 1 .. Rows - 1, NEW y \in S
               PROVE  g[<<row, y>>] = [n \in 0 .. Columns - 1 |-> y[n] + Digit(row, n)]
    OBVIOUS
  <2> DEFINE z == <<row, y>>
  <2>1. z \in Nat \X S /\ z[1] = row /\ z[2] = y
    OBVIOUS
  <2> HIDE DEF z, S, ones
  <2>2. g[z] = [n \in 0 .. Columns - 1 |-> y[n] + Digit(row, n)]
    BY <2>1
  <2>3. QED
    BY <2>2 DEF z
<1> HIDE DEF g
<1>6. PICK f : f \in [0 .. last -> S] /\ f[0] = ones /\ \A row \in 1 .. last : f[row] = g[<<row, f[row - 1]>>]
  <2>1. last \in Nat /\ 0 + last = last /\ 0 + 1 = 1 /\ 0 \in Nat
    BY <1>1
  <2> HIDE DEF last, S, ones
  <2>2. \E f : GoesOn(f, 0, last, S, ones, g)
    BY <1>3, <1>4, <2>1, TurnByTurn
  <2>3. QED
    BY <2>1, <2>2 DEF GoesOn
<1>7. ASSUME NEW row \in 1 .. Rows - 1
      PROVE  f[row] = [n \in 0 .. Columns - 1 |-> f[row - 1][n] + Digit(row, n)]
  <2>1. row - 1 \in 0 .. last /\ row \in 1 .. last
    BY <1>1
  <2>2. f[row - 1] \in S
    BY <1>6, <2>1
  <2> HIDE DEF S, last
  <2>3. QED
    BY <1>5, <1>6, <2>1, <2>2
<1>8. f = ColumnsUpTo(d, f)
  <2> DEFINE New(row) == [n \in 0 .. Columns - 1 |->
                             IF row = 0 THEN 1 ELSE f[row - 1][n] + d[row * Columns + n] * 2 ^ (row * Columns)]
  <2>1. ASSUME NEW row \in 0 .. Rows - 1
        PROVE  f[row] = New(row)
    <3>1. CASE row = 0
      BY <1>6, <3>1
    <3>2. CASE row # 0
      <4>1. row \in 1 .. Rows - 1
        BY <1>1, <3>2
      <4>2. f[row] = [n \in 0 .. Columns - 1 |-> f[row - 1][n] + Digit(row, n)]
        BY <1>7, <4>1
      <4>3. New(row) = [n \in 0 .. Columns - 1 |-> f[row - 1][n] + Digit(row, n)]
        BY <3>2, Zenon DEF Digit
      <4>4. QED
        BY <4>2, <4>3
    <3>3. QED
      BY <3>1, <3>2
  <2> HIDE DEF New
  <2>2. f = [row \in 0 .. Rows - 1 |-> New(row)]
    BY <1>6, <2>1
  <2>3. QED
    BY <2>2, Zenon DEF ColumnsUpTo, New
<1> DEFINE c == ColumnsOf(d)
<1>9. c = ColumnsUpTo(d, c)
  BY <1>8, Zenon DEF ColumnsOf
<1> HIDE DEF c
<1>10. c = [row \in 0 .. Rows - 1 |-> [n \in 0 .. Columns - 1 |->
              IF row = 0 THEN 1 ELSE c[row - 1][n] + Digit(row, n)]]
  BY <1>9, Zenon DEF ColumnsUpTo, Digit
<1>11. c[0] = ones
  <2>1. 0 \in 0 .. Rows - 1
    BY <1>1
  <2>2. QED
    BY <1>10, <2>1
<1>12. ASSUME NEW row \in 1 .. Rows - 1
       PROVE  c[row] = [n \in 0 .. Columns - 1 |-> c[row - 1][n] + Digit(row, n)]
  <2>1. row \in 0 .. Rows - 1 /\ row # 0
    BY <1>1
  <2>2. QED
    BY <1>10, <2>1
<1>13. \A row \in 0 .. last : c[row] \in S
  <2> DEFINE Good == {row \in 0 .. last : c[row] \in S}
  <2>1. last \in Nat /\ 0 \in Good
    BY <1>1, <1>3, <1>11
  <2>2. ASSUME NEW row \in 0 .. last - 1, row \in Good
        PROVE  row + 1 \in Good
    <3> DEFINE i == row + 1
    <3>1. i \in 1 .. Rows - 1 /\ i - 1 = row /\ i \in 0 .. last
      BY <1>1
    <3>2. c[i - 1] \in S
      BY <2>2, <3>1
    <3> HIDE DEF i
    <3>3. \A n \in 0 .. Columns - 1 : c[i - 1][n] + Digit(i, n) \in Int
      <4> TAKE n \in 0 .. Columns - 1
      <4> DEFINE y == c[i - 1][n]
                 z == Digit(i, n)
      <4>1. y \in Int
        BY <3>2
      <4>2. z \in Int
        BY <1>2, <3>1
      <4> HIDE DEF y, z
      <4>3. y + z \in Int
        BY <4>1, <4>2
      <4>4. QED
        BY <4>3 DEF y, z
    <3>4. c[i] \in S
      BY <1>12, <3>1, <3>3
    <3>5. QED
      BY <3>1, <3>4 DEF i
  <2>3. QED
    <3> HIDE DEF Good, last
    <3>1. \A row \in 0 .. last : row \in Good
      BY <2>1, <2>2, UpTo
    <3>2. QED
      BY <3>1 DEF Good
<1>14. c \in [0 .. Rows - 1 -> S]
  <2>1. c = [row \in 0 .. Rows - 1 |-> c[row]]
    BY <1>10
  <2> HIDE DEF S
  <2>2. QED
    BY <1>13, <2>1
<1>15. \A n \in 0 .. Columns - 1 : c[0][n] = 1
  BY <1>11
<1>16. \A row \in 1 .. Rows - 1, n \in 0 .. Columns - 1 : c[row][n] = c[row - 1][n] + Digit(row, n)
  BY <1>12
<1>17. QED
  BY <1>14, <1>15, <1>16 DEF c, Digit

\* With the columns of one row, the sum takes from the scalar what remains after it.
RowSums(half, a, row) ==
    AddUpTo(a, (2 * half + 1) - 2 ^ ((row + 1) * Columns) * Remaining(half)[(row + 1) * Columns])

\* The terms of that sum, for the columns col.
Terms(half, col) == [n \in 0 .. Columns - 1 |-> Factor(half, n) * col[n]]

\* The digits of the comb.
LEMMA CombDigits ==
    ASSUME NEW k, OddScalar(k) \div 2 \in Nat, OddScalar(k) \div 2 < R
    PROVE  LET half == OddScalar(k) \div 2
               d == comb(k).digits
           IN  /\ d \in [0 .. Rows * Columns - 1 -> Int]
               /\ \A n \in 0 .. Columns - 1 : d[n] = SignRow(half)[n]
               /\ \A i \in Columns .. Rows * Columns - 1 : d[i] = Remaining(half)[i] % 2
               /\ comb(k).left = Remaining(half)[Rows * Columns]
<1> DEFINE K == Rows * Columns
           half == OddScalar(k) \div 2
           x == Remaining(half)
           d == comb(k).digits
<1>1. Columns \in Nat /\ K \in Nat /\ 2 * Columns <= K /\ Columns >= 1 /\ Doubles(K)
  BY CombSizes
<1>2. comb(k) = [digits |-> [i \in 0 .. K - 1 |-> IF i < Columns THEN SignRow(half)[i] ELSE x[i] % 2],
                 left |-> x[K]]
  BY CombIs
<1>3. half \in Nat /\ half < R
  OBVIOUS
<1> HIDE DEF half
<1>4. x \in [Columns .. K -> Nat]
  BY <1>3, RemainingIs
<1>5. d = [i \in 0 .. K - 1 |-> IF i < Columns THEN SignRow(half)[i] ELSE x[i] % 2] /\ comb(k).left = x[K]
  BY <1>2
<1> HIDE DEF K, x, d
<1>6. ASSUME NEW n \in 0 .. Columns - 1
      PROVE  SignRow(half)[n] \in Int
  <2> DEFINE q == 2 ^ n
             y == half \div q
  <2>1. n \in 0 .. K
    BY <1>1
  <2>2. q \in Nat /\ q >= 1
    BY <1>1, <2>1, DoublesIs
  <2> HIDE DEF q
  <2>3. q > 0
    BY <2>2
  <2>4. y \in Nat
    BY <1>3, <2>2, <2>3, HalfQuotient
  <2>5. SignRow(half)[n] = IF n = Columns - 1 THEN 0 ELSE (y % 2) - 1
    BY DEF SignRow, q
  <2> HIDE DEF y
  <2>6. QED
    BY <2>4, <2>5
<1>7. \A n \in 0 .. Columns - 1 : d[n] = SignRow(half)[n]
  BY <1>1, <1>5
<1>8. \A i \in Columns .. K - 1 : d[i] = x[i] % 2
  BY <1>1, <1>5
<1>9. d \in [0 .. K - 1 -> Int]
  <2>1. ASSUME NEW i \in 0 .. K - 1
        PROVE  d[i] \in Int
    <3>1. CASE i < Columns
      BY <1>1, <1>6, <1>7, <3>1
    <3>2. CASE ~ (i < Columns)
      <4>1. i \in Columns .. K /\ i \in Columns .. K - 1
        BY <1>1, <3>2
      <4>2. x[i] \in Nat
        BY <1>4, <4>1
      <4>3. d[i] = x[i] % 2
        BY <1>8, <4>1
      <4>4. QED
        BY <4>2, <4>3
    <3>3. QED
      BY <3>1, <3>2
  <2>2. d = [i \in 0 .. K - 1 |-> d[i]]
    BY <1>5
  <2>3. QED
    BY <2>1, <2>2
<1>10. QED
  BY <1>5, <1>7, <1>8, <1>9 DEF K, x, d, half

\* Row after row, up to the last, which leaves nothing.
LEMMA RowsSum ==
    ASSUME NEW half \in Nat, half < R, NEW d \in [0 .. Rows * Columns - 1 -> Int],
           \A i \in Columns .. Rows * Columns - 1 : d[i] = Remaining(half)[i] % 2
    PROVE  RowSums(half, Terms(half, ColumnsOf(d)[Rows - 1]), Rows - 1)
<1> DEFINE K == Rows * Columns
           x == Remaining(half)
           col == ColumnsOf(d)
           last == Rows - 1
           Good == {row \in 0 .. last : RowSums(half, Terms(half, col[row]), row)}
<1>1. Columns \in Nat /\ K \in Nat /\ 2 * Columns <= K /\ Columns >= 1 /\ Doubles(K) /\ Rows \in Nat /\ Rows >= 2
  BY CombSizes
<1>2. /\ col \in [0 .. Rows - 1 -> [0 .. Columns - 1 -> Int]]
      /\ \A n \in 0 .. Columns - 1 : col[0][n] = 1
      /\ \A row \in 1 .. Rows - 1, n \in 0 .. Columns - 1 :
           col[row][n] = col[row - 1][n] + d[row * Columns + n] * 2 ^ (row * Columns)
  BY ColumnsAre
<1> HIDE DEF col
<1>3. \A i \in Columns .. K - 1 : d[i] = x[i] % 2
  OBVIOUS
<1>4. x[Columns] = half \div 2 ^ (Columns - 1)
  BY RemainingIs
<1> HIDE DEF K, x
<1>5. ASSUME NEW row \in 1 .. last
      PROVE  row * Columns \in Nat /\ \A n \in 0 .. Columns - 1 : row * Columns + n \in Columns .. K - 1
  <2> DEFINE q == row * Columns
  <2>1. q \in Nat
    BY <1>1
  <2>2. row - 1 \in Nat /\ Rows - (row + 1) \in Nat
    BY <1>1
  <2>3. (row - 1) * Columns >= 0 /\ (Rows - (row + 1)) * Columns >= 0
    BY <1>1, <2>2
  <2>4. (row - 1) * Columns = q - Columns /\ (Rows - (row + 1)) * Columns = K - (q + Columns)
    BY <1>1 DEF K
  <2> HIDE DEF q
  <2>5. Columns <= q /\ q + Columns <= K
    BY <1>1, <2>1, <2>3, <2>4
  <2>6. \A n \in 0 .. Columns - 1 : q + n \in Columns .. K - 1
    BY <1>1, <2>1, <2>5
  <2>7. QED
    BY <2>1, <2>6 DEF q
<1>6. 0 \in Good
  <2> DEFINE a == Terms(half, col[0])
  <2>1. \A n \in 0 .. Columns - 1 : a[n] = Factor(half, n)
    <3> SUFFICES ASSUME NEW n \in 0 .. Columns - 1 PROVE a[n] = Factor(half, n)
      OBVIOUS
    <3> DEFINE c == Factor(half, n)
    <3>1. c \in Int
      BY DEF Factor
    <3>2. a[n] = c * col[0][n] /\ col[0][n] = 1
      BY <1>2 DEF Terms
    <3> HIDE DEF c, a
    <3>3. a[n] = c
      BY <3>1, <3>2
    <3>4. QED
      BY <3>3 DEF c
  <2> HIDE DEF a
  <2>2. PICK f \in [0 .. Columns -> Int] :
            Summed(f, Columns, a) /\ f[0] = (2 * half + 1) - 2 ^ Columns * (half \div 2 ^ (Columns - 1))
    BY <2>1, SignsSum
  <2>3. (0 + 1) * Columns = Columns /\ 0 \in 0 .. last
    BY <1>1
  <2>4. f[0] = (2 * half + 1) - 2 ^ ((0 + 1) * Columns) * x[(0 + 1) * Columns]
    <3>1. f[0] = (2 * half + 1) - 2 ^ Columns * x[Columns]
      BY <1>4, <2>2
    <3>2. QED
      BY <2>3, <3>1
  <2>5. RowSums(half, a, 0)
    BY <2>2, <2>4, Zenon DEF RowSums, AddUpTo, x
  <2>6. QED
    BY <2>3, <2>5 DEF a
<1>7. ASSUME NEW before \in 0 .. last - 1, before \in Good
      PROVE  before + 1 \in Good
  <2> DEFINE row == before + 1
             a == Terms(half, col[before])
             b == Terms(half, col[row])
             lower == col[before]
             m == 2 * half + 1
  <2>1. row \in 1 .. last /\ row - 1 = before /\ row \in 0 .. last /\ row \in 1 .. Rows - 1 /\ before \in 0 .. Rows - 1
    BY <1>1
  <2> HIDE DEF row
  <2>2. lower \in [0 .. Columns - 1 -> Int]
    BY <1>2, <2>1
  <2>3. \A n \in 0 .. Columns - 1 : a[n] = Factor(half, n) * lower[n]
    BY DEF Terms
  <2>4. \A n \in 0 .. Columns - 1 :
            b[n] = Factor(half, n) * (lower[n] + (x[row * Columns + n] % 2) * 2 ^ (row * Columns))
    <3> SUFFICES ASSUME NEW n \in 0 .. Columns - 1
                 PROVE  b[n] = Factor(half, n) * (lower[n] + (x[row * Columns + n] % 2) * 2 ^ (row * Columns))
      OBVIOUS
    <3>1. b[n] = Factor(half, n) * col[row][n]
      BY DEF Terms
    <3>2. col[row][n] = lower[n] + d[row * Columns + n] * 2 ^ (row * Columns)
      BY <1>2, <2>1
    <3>3. d[row * Columns + n] = x[row * Columns + n] % 2
      BY <1>3, <1>5, <2>1
    <3>4. QED
      BY <3>1, <3>2, <3>3, Zenon
  <2>5. PICK f \in [0 .. Columns -> Int] :
            Summed(f, Columns, a) /\ f[0] = m - 2 ^ ((before + 1) * Columns) * x[(before + 1) * Columns]
    BY <1>7, Zenon DEF Good, RowSums, AddUpTo, x, a, m
  <2>6. f[0] = m - 2 ^ (row * Columns) * x[row * Columns]
    BY <2>5, Zenon DEF row
  <2>7. m \in Int
    OBVIOUS
  <2> HIDE DEF a, b, lower, m
  <2>8. AddUpTo(b, m - 2 ^ ((row + 1) * Columns) * x[(row + 1) * Columns])
    <3>1. f \in [0 .. Columns -> Int] /\ Summed(f, Columns, a)
      BY <2>5
    <3>2. QED
      BY <2>1, <2>2, <2>3, <2>4, <2>6, <2>7, <3>1, RowSum, Zenon DEF x
  <2>9. RowSums(half, b, row)
    BY <2>8, Zenon DEF RowSums, x, m
  <2>10. QED
    BY <2>1, <2>9 DEF b, row
<1>8. last \in Nat /\ last \in 0 .. last
  BY <1>1
<1>9. last \in Good
  <2> HIDE DEF Good, last
  <2>1. \A row \in 0 .. last : row \in Good
    BY <1>6, <1>7, <1>8, UpTo
  <2>2. QED
    BY <1>8, <2>1
<1>10. QED
  BY <1>9 DEF col

\* The signs and the columns amount to the scalar made odd, and nothing of it is left.
LEMMA CombIsExact == \A k \in Scalar : CombExact(k)
<1> SUFFICES ASSUME NEW k \in Scalar
             PROVE  LET c == comb(k)
                        column[row \in 0 .. Rows - 1] == [n \in 0 .. Columns - 1 |->
                            IF row = 0 THEN 1
                            ELSE column[row - 1][n] + c.digits[row * Columns + n] * 2 ^ (row * Columns)]
                        sum[n \in 0 .. Columns] ==
                            IF n = Columns THEN 0
                            ELSE (IF c.digits[n] = -1 THEN -1 ELSE 1) * column[Rows - 1][n] + 2 * sum[n + 1]
                    IN  /\ c.left = 0
                        /\ sum[0] = OddScalar(k)
                        /\ (sum[0] - k) % curve_order = 0
  BY Zenon DEF CombExact
<1> DEFINE K == Rows * Columns
           m == OddScalar(k)
           half == m \div 2
           x == Remaining(half)
           d == comb(k).digits
           col == ColumnsOf(d)
           top == col[Rows - 1]
           Body(f) == [n \in 0 .. Columns |->
                          IF n = Columns THEN 0 ELSE (IF d[n] = -1 THEN -1 ELSE 1) * top[n] + 2 * f[n + 1]]
           sum == CHOOSE f : f = Body(f)
           a == Terms(half, top)
<1>1. m \in Nat /\ m < 2 * curve_order /\ m % 2 = 1 /\ (m - k) % curve_order = 0
  BY OddIs
<1>2. half \in Nat /\ half < curve_order /\ half < R /\ m = 2 * half + 1
  <2> HIDE DEF m
  <2>1. QED
    BY <1>1, ScalarSizes, ScalarAssumption
<1>3. /\ d \in [0 .. K - 1 -> Int]
      /\ \A n \in 0 .. Columns - 1 : d[n] = SignRow(half)[n]
      /\ \A i \in Columns .. K - 1 : d[i] = x[i] % 2
      /\ comb(k).left = x[K]
  BY <1>2, CombDigits
<1> HIDE DEF m, half, d
<1>4. x[K] = 0
  BY <1>2, NothingRemains
<1>5. RowSums(half, a, Rows - 1)
  BY <1>2, <1>3, RowsSum
<1>6. Rows - 1 + 1 = Rows /\ 2 ^ K \in Nat /\ Columns \in Nat
  <2>1. K \in Nat /\ Doubles(K) /\ Rows \in Nat /\ Columns \in Nat
    BY CombSizes
  <2> HIDE DEF K
  <2>2. K \in 0 .. K
    BY <2>1
  <2>3. 2 ^ K \in Nat
    BY <2>1, <2>2, DoublesIs
  <2>4. QED
    BY <2>1, <2>3
<1>7. PICK f \in [0 .. Columns -> Int] : Summed(f, Columns, a) /\ f[0] = m
  <2>1. PICK f \in [0 .. Columns -> Int] :
            Summed(f, Columns, a) /\ f[0] = (2 * half + 1) - 2 ^ ((Rows - 1 + 1) * Columns) * x[(Rows - 1 + 1) * Columns]
    BY <1>5, Zenon DEF RowSums, AddUpTo, x
  <2>2. f[0] = (2 * half + 1) - 2 ^ K * x[K]
    BY <1>6, <2>1, Zenon DEF K
  <2> HIDE DEF x, K
  <2>3. 2 ^ K * x[K] = 0
    BY <1>4, <1>6
  <2>4. f[0] = m
    BY <1>2, <2>2, <2>3
  <2>5. QED
    BY <2>1, <2>4
<1>8. \A n \in 0 .. Columns - 1 : (IF d[n] = -1 THEN -1 ELSE 1) * top[n] = a[n]
  BY <1>3 DEF Factor, Terms
<1> HIDE DEF x, K, top, a
<1>9. f = Body(f)
  <2>1. ASSUME NEW n \in 0 .. Columns
        PROVE  f[n] = IF n = Columns THEN 0 ELSE (IF d[n] = -1 THEN -1 ELSE 1) * top[n] + 2 * f[n + 1]
    <3>1. CASE n = Columns
      BY <1>7, <3>1 DEF Summed
    <3>2. CASE n # Columns
      <4>1. n \in 0 .. Columns - 1
        BY <1>6, <3>2
      <4>2. f[n] = a[n] + 2 * f[n + 1]
        BY <1>7, <4>1 DEF Summed
      <4>3. a[n] = (IF d[n] = -1 THEN -1 ELSE 1) * top[n]
        BY <1>8, <4>1
      <4>4. QED
        BY <3>2, <4>2, <4>3, Zenon
    <3>3. QED
      BY <3>1, <3>2
  <2>2. f = [n \in 0 .. Columns |-> f[n]]
    OBVIOUS
  <2>3. QED
    BY <2>1, <2>2, Zenon
<1>10. sum = Body(sum)
  BY <1>9, Zenon
<1> HIDE DEF sum
<1>11. Summed(sum, Columns, a)
  <2>1. sum[Columns] = 0
    BY <1>6, <1>10
  <2>2. ASSUME NEW n \in 0 .. Columns - 1
        PROVE  sum[n] = a[n] + 2 * sum[n + 1]
    <3>1. n \in 0 .. Columns /\ n # Columns
      BY <1>6
    <3>2. sum[n] = (IF d[n] = -1 THEN -1 ELSE 1) * top[n] + 2 * sum[n + 1]
      BY <1>10, <3>1
    <3>3. QED
      BY <1>8, <3>2, Zenon
  <2>3. QED
    BY <2>1, <2>2 DEF Summed
<1>12. sum[0] = m
  <2>1. sum[0] = f[0]
    BY <1>6, <1>7, <1>11, OneSum
  <2>2. QED
    BY <1>7, <2>1
<1>13. comb(k).left = 0 /\ sum[0] = m /\ (sum[0] - k) % curve_order = 0
  BY <1>1, <1>3, <1>4, <1>12
<1>14. QED
  BY <1>13, Zenon DEF Body, sum, top, col, d, m, ColumnsOf, ColumnsUpTo

\* The comb of ecc_mul_fixed loses nothing of any scalar.
THEOREM CombLosesNothing == ScalarSpec => []CombedExactly
<1>1. ScalarInit => given \in Triples
  BY DEF ScalarInit
<1>2. given \in Triples /\ [ScalarNext]_scalarVars => (given \in Triples)'
  BY DEF ScalarNext, Multiplication, Subtraction, scalarVars
<1>3. given \in Triples => CombedExactly
  <2> SUFFICES ASSUME given \in Triples PROVE CombExact(given[1])
    BY DEF CombedExactly
  <2>1. given[1] \in Scalar
    BY TriplesAssumption
  <2>2. QED
    BY <2>1, CombIsExact
<1>4. QED
  BY <1>1, <1>2, <1>3, PTL DEF ScalarSpec

=============================================================================
