----------------------------- MODULE Arithmetic -----------------------------
(***************************************************************************)
(* What the provers need beyond linear arithmetic: division with           *)
(* remainder, for the wrapping counters, the epochs and the bit fields of  *)
(* the map, and powers of two, for its sizes.                              *)
(***************************************************************************)
EXTENDS Integers, FiniteSets, FiniteSetTheorems, FunctionTheorems,
        WellFoundedInduction, NaturalsInduction, TLAPS

(* Division with remainder.                                                *)
LEMMA DivMod ==
    ASSUME NEW p \in Nat, NEW n \in Nat, n > 0
    PROVE  /\ p % n \in 0 .. (n - 1)
           /\ p \div n \in Nat
           /\ p = n * (p \div n) + (p % n)
OBVIOUS

(* The remainder in such a decomposition is unique.                        *)
LEMMA RemainderUnique ==
    ASSUME NEW n \in Nat, n > 0, NEW a \in Int, NEW b \in Int,
           NEW r \in 0 .. (n - 1), NEW s \in 0 .. (n - 1),
           n * a + r = n * b + s
    PROVE  a = b /\ r = s
<1>1. CASE a < b
  <2>1. b - a >= 1 BY <1>1
  <2>2. n * (b - a) >= n BY <2>1
  <2>3. n * (b - a) = n * b - n * a OBVIOUS
  <2> QED BY <2>2, <2>3
<1>2. CASE a > b
  <2>1. a - b >= 1 BY <1>2
  <2>2. n * (a - b) >= n BY <2>1
  <2>3. n * (a - b) = n * a - n * b OBVIOUS
  <2> QED BY <2>2, <2>3
<1>3. CASE a = b BY <1>3
<1> QED BY <1>1, <1>2, <1>3

(* A number's remainder is found by writing the number down.               *)
LEMMA RemainderIs ==
    ASSUME NEW p \in Nat, NEW n \in Nat, n > 0, NEW a \in Int,
           NEW r \in 0 .. (n - 1), p = n * a + r
    PROVE  p % n = r
<1>1. p % n \in 0 .. (n - 1) /\ p \div n \in Int /\ p = n * (p \div n) + (p % n)
  BY DivMod
<1> QED BY <1>1, RemainderUnique

(* And so is its quotient.                                                 *)
LEMMA QuotientIs ==
    ASSUME NEW p \in Nat, NEW n \in Nat, n > 0, NEW a \in Int,
           NEW r \in 0 .. (n - 1), p = n * a + r
    PROVE  p \div n = a
<1>1. p % n \in 0 .. (n - 1) /\ p \div n \in Int /\ p = n * (p \div n) + (p % n)
  BY DivMod
<1> QED BY <1>1, RemainderUnique

(* Dividing twice is dividing by the product.                              *)
LEMMA QuotientNested ==
    ASSUME NEW p \in Nat, NEW m \in Nat, NEW n \in Nat, m > 0, n > 0, NEW a \in Nat,
           NEW r \in 0 .. (m * n - 1), p = (m * n) * a + r
    PROVE  (p \div m) \div n = a
<1> DEFINE c == r \div m
           d == r % m
           q == n * a + c
<1>1. r \in Nat /\ c \in Nat /\ d \in 0 .. (m - 1) /\ r = m * c + d BY DivMod
<1> HIDE DEF c, d
<1>2. c <= n - 1
  <2> SUFFICES ASSUME c >= n PROVE FALSE BY <1>1
  <2>1. m * c >= m * n BY <1>1
  <2>2. m * n \in Nat /\ m * c \in Nat BY <1>1
  <2> QED BY <2>1, <2>2, <1>1
<1>3. q \in Nat /\ m * q = (m * n) * a + m * c
  <2>1. n * a \in Nat /\ m * (n * a) = (m * n) * a OBVIOUS
  <2>2. m * (n * a + c) = m * (n * a) + m * c BY <1>1, <2>1
  <2> QED BY <1>1, <2>1, <2>2
<1> DEFINE x == (m * n) * a
           y == m * c
           z == m * q
<1>4. x \in Nat /\ y \in Nat /\ z \in Nat BY <1>1, <1>3
<1>5. p = x + r /\ r = y + d /\ z = x + y BY <1>1, <1>3
<1>6. p = m * q + d
  <2> HIDE DEF x, y, q
  <2>1. p = z + d
    <3> HIDE DEF z
    <3> QED BY <1>1, <1>4, <1>5
  <2> QED BY <2>1
<1>7. p \div m = q
  <2> HIDE DEF q
  <2> QED BY <1>1, <1>3, <1>6, QuotientIs
<1>8. q \div n = a BY <1>1, <1>2, <1>3, QuotientIs
<1> QED BY <1>7, <1>8

(* Equal remainders of numbers less than n apart: the numbers are equal.   *)
LEMMA RemainderWindow ==
    ASSUME NEW p \in Nat, NEW q \in Nat, NEW n \in Nat, n > 0,
           p < q + n, q < p + n, p % n = q % n
    PROVE  p = q
<1> DEFINE a == p \div n
           b == q \div n
<1>1. /\ p = n * a + (p % n) /\ q = n * b + (p % n)
      /\ a \in Nat /\ b \in Nat /\ p % n \in 0 .. (n - 1)
  BY DivMod
<1> HIDE DEF a, b
<1>2. q - p = n * b - n * a BY <1>1
<1>3. n * (b - a) = n * b - n * a BY <1>1
<1>4. b - a >= 1 => n * (b - a) >= n BY <1>1
<1>5. b - a <= -1 => n * (b - a) <= -n BY <1>1
<1>6. a = b BY <1>1, <1>2, <1>3, <1>4, <1>5
<1> QED BY <1>1, <1>6

(* Adding k before or after reducing modulo n is the same.                 *)
LEMMA RemainderAdd ==
    ASSUME NEW p \in Nat, NEW k \in Nat, NEW n \in Nat, n > 0
    PROVE  ((p % n) + k) % n = (p + k) % n
<1> DEFINE a == p \div n
           x == (p % n) + k
           b == x \div n
<1>1. a \in Nat /\ p = n * a + (p % n) /\ p % n \in 0 .. (n - 1) BY DivMod
<1>2. x \in Nat /\ x % n \in 0 .. (n - 1) /\ b \in Nat /\ x = n * b + (x % n)
  BY <1>1, DivMod
<1>3. p + k = n * a + x BY <1>1
<1> HIDE DEF a, b, x
<1>4. n * (a + b) = n * a + n * b BY <1>1, <1>2
<1> DEFINE c == a + b
           r == x % n
<1>5. p + k = n * c + r
  <2>1. n * c = n * a + n * b BY <1>4
  <2>2. n * a \in Int /\ n * b \in Int /\ r \in Int BY <1>1, <1>2
  <2>3. x = n * b + r BY <1>2
  <2> HIDE DEF c, r
  <2> QED BY <2>1, <2>2, <2>3, <1>3
<1>6. c \in Int /\ r \in 0 .. (n - 1) /\ p + k \in Nat BY <1>1, <1>2
<1> HIDE DEF c, r
<1>7. (p + k) % n = r BY <1>5, <1>6, RemainderIs
<1> QED BY <1>7 DEF x, r

(* Reducing modulo a multiple of m does not change the remainder by m.     *)
LEMMA RemainderNested ==
    ASSUME NEW p \in Nat, NEW n \in Nat, NEW m \in Nat, n > 0, m > 0, n % m = 0
    PROVE  (p % n) % m = p % m
<1> DEFINE a == p \div n
           g == n \div m
           y == p % n
           b == y \div m
<1>1. a \in Nat /\ p = n * a + y /\ y \in 0 .. (n - 1) BY DivMod
<1>2. g \in Nat /\ n = m * g BY DivMod
<1>3. b \in Nat /\ y = m * b + (y % m) /\ y % m \in 0 .. (m - 1) BY DivMod, <1>1
<1> HIDE DEF a, g, y, b
<1>4. n * a = m * (g * a) BY <1>1, <1>2
<1>5. m * (g * a + b) = m * (g * a) + m * b BY <1>1, <1>2, <1>3
<1> DEFINE c == g * a + b
           r == y % m
<1>6. p = m * c + r BY <1>1, <1>3, <1>4, <1>5
<1>7. c \in Int /\ r \in 0 .. (m - 1) BY <1>1, <1>2, <1>3
<1> HIDE DEF c, r
<1>8. p % m = r BY <1>6, <1>7, RemainderIs
<1> QED BY <1>8 DEF y, r

(* A number below n is its own remainder.                                  *)
LEMMA SmallRemainder ==
    ASSUME NEW n \in Nat, NEW x \in 0 .. (n - 1)
    PROVE  x % n = x
<1>1. x = n * 0 + x /\ x \in Nat /\ n > 0 OBVIOUS
<1> QED BY <1>1, RemainderIs

(* The remainder of a negative number just below zero.                     *)
LEMMA NegativeRemainder ==
    ASSUME NEW n \in Nat, NEW x \in Int, x < 0, -n <= x, n > 0
    PROVE  x % n = x + n
<1>1. x % n \in 0 .. (n - 1) /\ x \div n \in Int /\ x = n * (x \div n) + (x % n) OBVIOUS
<1> DEFINE q == x \div n
           r == x % n
           s == x + n
<1>2. s \in 0 .. (n - 1) OBVIOUS
<1>3. n * q + r = n * (-1) + s BY <1>1
<1> HIDE DEF q, r, s
<1>4. q \in Int /\ r \in 0 .. (n - 1) BY <1>1 DEF q, r
<1>5. -1 \in Int OBVIOUS
<1>6. r = s BY <1>2, <1>3, <1>4, <1>5, RemainderUnique
<1> QED BY <1>6 DEF r, s
-----------------------------------------------------------------------------
(* Powers of two.  A set with n members has 2^n subsets, which is how the  *)
(* library knows exponentiation.                                           *)

(* Every set of naturals that is not empty has a least member.             *)
LEMMA Least ==
    ASSUME NEW S \in SUBSET Nat, S # {}
    PROVE  \E s \in S : \A r \in S : s <= r
<1>1. PICK s \in S : \A r \in S : ~(<<r, s>> \in OpToRel(<, Nat))
  BY WFMin, NatLessThanWellFounded
<1>2. \A r \in S : ~(r < s) BY <1>1 DEF OpToRel
<1> QED BY <1>2

(* 2^n is a number, greater than n.                                        *)
LEMMA PowerIs ==
    ASSUME NEW n \in Nat
    PROVE  2^n \in Nat /\ n < 2^n
<1> DEFINE S == 1 .. n
           f == [i \in S |-> {i}]
           T == (SUBSET S) \ {{}}
<1>1. IsFiniteSet(S) /\ Cardinality(S) = n BY FS_Interval
<1> HIDE DEF S
<1>2. IsFiniteSet(SUBSET S) /\ Cardinality(SUBSET S) = 2^n BY <1>1, FS_SUBSET
<1>3. Cardinality(SUBSET S) \in Nat BY <1>2, FS_CardinalityType
<1>4. {} \in SUBSET S OBVIOUS
<1>5. IsFiniteSet(T) /\ Cardinality(T) = Cardinality(SUBSET S) - 1
  BY <1>2, <1>4, FS_RemoveElement
<1>6. f \in Injection(S, T)
  <2>1. f \in [S -> T] /\ \A a, b \in S : f[a] = f[b] => a = b OBVIOUS
  <2> QED BY <2>1, Fun_IsInj
<1> HIDE DEF T, f
<1>7. Cardinality(S) <= Cardinality(T) BY <1>5, <1>6, FS_Injection
<1> QED BY <1>1, <1>2, <1>3, <1>5, <1>7

(* One more member doubles the number of subsets.                          *)
LEMMA PowerStep ==
    ASSUME NEW n \in Nat
    PROVE  2^(n + 1) = 2 * 2^n
<1> DEFINE x == n + 1
           S == 1 .. n
           U == 1 .. x
           with == {A \cup {x} : A \in SUBSET S}
           f == [A \in SUBSET S |-> A \cup {x}]
<1>1. IsFiniteSet(S) /\ Cardinality(S) = n BY FS_Interval
<1>2. IsFiniteSet(U) /\ Cardinality(U) = n + 1 BY FS_Interval
<1>3. U = S \cup {x} /\ x \notin S OBVIOUS
<1> HIDE DEF S, U, x
<1>4. /\ IsFiniteSet(SUBSET S) /\ Cardinality(SUBSET S) = 2^n
      /\ IsFiniteSet(SUBSET U) /\ Cardinality(SUBSET U) = 2^(n + 1)
  BY <1>1, <1>2, FS_SUBSET
<1>5. SUBSET U = (SUBSET S) \cup with
  <2>1. ASSUME NEW B \in SUBSET U PROVE B \in (SUBSET S) \cup with
    <3>1. CASE x \notin B BY <3>1, <1>3
    <3>2. CASE x \in B
      <4>1. B \ {x} \in SUBSET S /\ B = (B \ {x}) \cup {x} BY <3>2, <1>3
      <4> QED BY <4>1
    <3> QED BY <3>1, <3>2
  <2>2. ASSUME NEW B \in (SUBSET S) \cup with PROVE B \in SUBSET U BY <1>3
  <2> QED BY <2>1, <2>2
<1>6. (SUBSET S) \cap with = {} BY <1>3
<1>7. f \in Bijection(SUBSET S, with)
  <2>1. f \in [SUBSET S -> with] /\ \A B \in with : \E A \in SUBSET S : f[A] = B OBVIOUS
  <2>2. ASSUME NEW A \in SUBSET S, NEW B \in SUBSET S, f[A] = f[B] PROVE A = B
    <3>1. A \cup {x} = B \cup {x} BY <2>2
    <3>2. x \notin A /\ x \notin B BY <1>3
    <3> QED BY <3>1, <3>2
  <2> HIDE DEF f, with
  <2> QED BY <2>1, <2>2, Fun_IsBij
<1> HIDE DEF with, f
<1>8. IsFiniteSet(with) /\ Cardinality(with) = Cardinality(SUBSET S)
  BY <1>4, <1>7, FS_Bijection DEF ExistsBijection
<1>9. Cardinality((SUBSET S) \cup with)
         = Cardinality(SUBSET S) + Cardinality(with) - Cardinality((SUBSET S) \cap with)
  BY <1>4, <1>8, FS_Union
<1>10. Cardinality((SUBSET S) \cap with) = 0 BY <1>6, FS_EmptySet
<1>11. Cardinality(SUBSET S) \in Nat BY <1>4, FS_CardinalityType
<1>12. Cardinality(SUBSET U) = 2 * Cardinality(SUBSET S)
  <2> DEFINE c == Cardinality(SUBSET S)
             w == Cardinality(with)
             z == Cardinality((SUBSET S) \cap with)
             u == Cardinality(SUBSET U)
  <2>1. u = c + w - z BY <1>5, <1>9
  <2>2. w = c /\ z = 0 /\ c \in Nat BY <1>8, <1>10, <1>11
  <2> HIDE DEF c, w, z, u
  <2>3. u = 2 * c BY <2>1, <2>2
  <2> QED BY <2>3 DEF c, u
<1> DEFINE a == 2^n
           b == 2^(n + 1)
<1>13. Cardinality(SUBSET S) = a /\ Cardinality(SUBSET U) = b BY <1>4
<1> HIDE DEF a, b
<1>14. b = 2 * a BY <1>12, <1>13
<1> QED BY <1>14 DEF a, b

(* A power of two times a power of two is one, by the least exponent for   *)
(* which it would not be.                                                  *)
LEMMA PowerTimes ==
    ASSUME NEW i \in Nat
    PROVE  \A j \in Nat : 2^i * 2^j = 2^(i + j)
<1> DEFINE P(j) == 2^i * 2^j = 2^(i + j)
           S == {j \in Nat : ~P(j)}
<1> SUFFICES ASSUME S # {} PROVE FALSE OBVIOUS
<1>1. PICK j \in S : \A r \in S : j <= r
  <2> HIDE DEF S
  <2>1. S \in SUBSET Nat BY DEF S
  <2> QED BY <2>1, Least
<1>2. j \in Nat /\ ~P(j) OBVIOUS
<1>3. 2^0 = 1 OBVIOUS
<1> DEFINE a == 2^i
<1>4. a \in Nat BY PowerIs
<1>5. CASE j = 0
  <2>1. i + j = i BY <1>5
  <2> QED BY <1>2, <1>3, <1>4, <1>5, <2>1
<1>6. CASE j # 0
  <2> DEFINE r == j - 1
             d == 2^r
             e == 2^(i + r)
  <2>1. r \in Nat /\ j = r + 1 /\ r < j BY <1>2, <1>6
  <2>2. P(r)
    <3>1. r \notin S BY <2>1, <1>1, <1>2
    <3> HIDE DEF P, r
    <3> QED BY <3>1, <2>1
  <2>3. 2^j = 2 * d
    <3> HIDE DEF r
    <3> QED BY <2>1, PowerStep
  <2>4. 2^(i + j) = 2 * e
    <3>1. i + r \in Nat /\ i + j = (i + r) + 1 BY <2>1
    <3> HIDE DEF r
    <3> QED BY <3>1, PowerStep
  <2>5. d \in Nat /\ e \in Nat
    <3>1. i + r \in Nat BY <2>1
    <3> HIDE DEF r
    <3> QED BY <2>1, <3>1, PowerIs
  <2>6. a * d = e BY <2>2
  <2> HIDE DEF a, d, e
  <2>7. a * (2 * d) = 2 * e BY <2>5, <2>6, <1>4
  <2>8. P(j) BY <2>3, <2>4, <2>7 DEF a
  <2> QED BY <2>8, <1>2
<1> QED BY <1>5, <1>6

(* A power of two divides every larger one.                                *)
LEMMA PowerDivides ==
    ASSUME NEW a \in Nat, NEW b \in Nat, 2^a < 2^b
    PROVE  a < b /\ b - a \in Nat /\ 2^b = 2^a * 2^(b - a)
<1> DEFINE x == 2^a
           y == 2^b
<1>1. x \in Nat /\ y \in Nat /\ x > 0 /\ x < y BY PowerIs
<1>2. a < b
  <2> SUFFICES ASSUME a >= b PROVE FALSE OBVIOUS
  <2> DEFINE c == a - b
             z == 2^c
  <2>1. c \in Nat /\ b + c = a OBVIOUS
  <2> HIDE DEF c
  <2>2. z \in Nat /\ z > 0 BY <2>1, PowerIs
  <2>3. y * z = x BY <2>1, PowerTimes
  <2> HIDE DEF x, y, z
  <2>4. y * z >= y BY <1>1, <2>2
  <2> QED BY <1>1, <2>3, <2>4
<1> DEFINE c == b - a
<1>3. c \in Nat /\ a + c = b BY <1>2
<1> HIDE DEF c
<1>4. 2^a * 2^c = 2^b BY <1>3, PowerTimes
<1> QED BY <1>2, <1>3, <1>4 DEF c

(* 2^n is positive, and powers multiply.                                   *)
LEMMA Powers ==
    ASSUME NEW i \in Nat, NEW j \in Nat
    PROVE  2^i \in Nat /\ 2^i > 0 /\ 2^j \in Nat /\ 2^j > 0 /\ 2^(i + j) = 2^i * 2^j
<1>1. 2^i \in Nat /\ i < 2^i /\ 2^j \in Nat /\ j < 2^j BY PowerIs
<1>2. 2^i * 2^j = 2^(i + j) BY PowerTimes
<1> QED BY <1>1, <1>2

(* A word is cut at a position into two parts.                             *)
LEMMA Cut ==
    ASSUME NEW w \in Nat, NEW a \in Nat
    PROVE  /\ 2^a \in Nat /\ 2^a > 0 /\ w \div 2^a \in Nat /\ w % 2^a \in 0 .. (2^a - 1)
           /\ w = 2^a * (w \div 2^a) + (w % 2^a)
BY PowerIs, DivMod

(* Shifting twice.                                                         *)
LEMMA ShiftShift ==
    ASSUME NEW w \in Nat, NEW a \in Nat, NEW c \in Nat, NEW t, t = a + c
    PROVE  w \div 2^t = (w \div 2^a) \div 2^c
<1> DEFINE m == 2^a
           n == 2^c
           q == w \div 2^(a + c)
           r == w % 2^(a + c)
<1>1. m \in Nat /\ n \in Nat /\ m > 0 /\ n > 0 /\ 2^(a + c) = m * n BY Powers
<1>0. a + c \in Nat OBVIOUS
<1>a. q \in Nat /\ r \in 0 .. (2^(a + c) - 1) /\ w = 2^(a + c) * q + r BY <1>0, Cut
<1> HIDE DEF m, n, q, r
<1>2. q \in Nat /\ r \in 0 .. (m * n - 1) /\ w = (m * n) * q + r BY <1>1, <1>a
<1>3. (w \div m) \div n = q BY <1>1, <1>2, QuotientNested
<1> QED BY <1>3 DEF m, n, q
-----------------------------------------------------------------------------
(* Definition by recursion: a loop that steps from state to state of a set *)
(* D runs for any number of rounds.                                        *)
Rounds(D, b, Step, n) ==
    {f \in [0 .. n -> D] : f[0] = b /\ \A i \in 1 .. n : f[i] = Step[<<i, f[i - 1]>>]}

(* From its first state a loop can always run for N rounds.                *)
LEMMA LoopRuns ==
    ASSUME NEW D, NEW b \in D, NEW Step \in [Nat \X D -> D], NEW N \in Nat
    PROVE  Rounds(D, b, Step, N) # {}
<1> DEFINE Runs(n) == \E f \in [0 .. n -> D] :
                         f[0] = b /\ \A i \in 1 .. n : f[i] = Step[<<i, f[i - 1]>>]
           S == {n \in Nat : ~Runs(n)}
<1> SUFFICES ASSUME S # {} PROVE FALSE BY DEF Rounds
<1>1. PICK n \in S : \A r \in S : n <= r
  <2> HIDE DEF S
  <2>1. S \in SUBSET Nat BY DEF S
  <2> QED BY <2>1, Least
<1>2. CASE n = 0
  <2> DEFINE f == [i \in 0 .. 0 |-> b]
  <2>1. f \in [0 .. n -> D] /\ f[0] = b /\ 1 .. n = {} BY <1>2
  <2> QED BY <2>1
<1>3. CASE n # 0
  <2>1. n - 1 \in Nat /\ n \in Nat BY <1>3
  <2>2. Runs(n - 1)
    <3>1. n - 1 \notin S BY <2>1, <1>1
    <3> HIDE DEF Runs
    <3> QED BY <3>1, <2>1
  <2>3. PICK f \in [0 .. (n - 1) -> D] :
           f[0] = b /\ \A i \in 1 .. (n - 1) : f[i] = Step[<<i, f[i - 1]>>]
    BY <2>2
  <2> DEFINE x == Step[<<n, f[n - 1]>>]
             g == [i \in 0 .. n |-> IF i = n THEN x ELSE f[i]]
  <2>4. f[n - 1] \in D BY <2>1, <2>3
  <2>5. x \in D BY <2>1, <2>4
  <2> HIDE DEF x
  <2>6. g \in [0 .. n -> D] BY <2>1, <2>5
  <2>7. g[0] = b BY <2>1, <2>3, <1>3
  <2>8. ASSUME NEW i \in 1 .. n PROVE g[i] = Step[<<i, g[i - 1]>>]
    <3>1. CASE i = n
      <4>1. g[i] = x /\ g[i - 1] = f[n - 1] BY <3>1, <2>1
      <4> QED BY <4>1, <3>1 DEF x
    <3>2. CASE i # n
      <4>1. i \in 1 .. (n - 1) /\ i \in 0 .. n /\ i - 1 \in 0 .. n /\ i - 1 # n BY <3>2, <2>1
      <4>2. g[i] = f[i] /\ g[i - 1] = f[i - 1] BY <4>1, <3>2
      <4> QED BY <4>1, <4>2, <2>3
    <3> QED BY <3>1, <3>2
  <2>9. Runs(n) BY <2>6, <2>7, <2>8
  <2> QED BY <2>9
<1> QED BY <1>2, <1>3
=============================================================================
