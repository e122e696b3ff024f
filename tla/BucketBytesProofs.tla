------------------------- MODULE BucketBytesProofs --------------------------
(***************************************************************************)
(* Proofs about the bytes of a bucket: that the packed word is the record  *)
(* of MetaWord, that the searches on it agree, and that slots and buffers  *)
(* give back the typed pairs that were written.                            *)
(***************************************************************************)
EXTENDS BucketBytes, Arithmetic, SequenceTheorems

-----------------------------------------------------------------------------
(* Fields of a word.                                                       *)

(* What lies at and above a field's end does not matter to the field.      *)
LEMMA BitsBelow ==
    ASSUME NEW b \in Nat, NEW m \in Nat, NEW z \in Nat, NEW lo \in Nat,
           NEW u, u = 2^(b + m) * z + lo
    PROVE  Bits(u, b, m) = Bits(lo, b, m)
<1> DEFINE B == 2^b
           M == 2^m
           c == lo \div B
           d == lo % B
           e == c \div M
           g == c % M
<1>1. B \in Nat /\ M \in Nat /\ B > 0 /\ M > 0 /\ 2^(b + m) = B * M BY Powers
<1>2. c \in Nat /\ d \in 0 .. (B - 1) /\ lo = B * c + d BY Cut
<1>3. e \in Nat /\ g \in 0 .. (M - 1) /\ c = M * e + g BY <1>2, Cut
<1> DEFINE mz == M * z
           me == M * e
           bc == B * c
           bmz == (B * M) * z
           w == bmz + lo
           y == mz + c
<1> HIDE DEF B, M, c, d, e, g
<1>4. /\ mz \in Nat /\ me \in Nat /\ bc \in Nat /\ bmz \in Nat
      /\ B * mz = bmz /\ M * (z + e) = mz + me /\ B * (mz + c) = B * mz + bc
  BY <1>1, <1>2, <1>3
<1> HIDE DEF mz, me, bc, bmz
<1>5. y \in Nat /\ w \in Nat BY <1>2, <1>4
<1>6. w = B * y + d BY <1>2, <1>4 DEF bc
<1>7. y = M * (z + e) + g /\ z + e \in Int BY <1>3, <1>4 DEF me
<1>8. u = w BY <1>1 DEF bmz
<1> HIDE DEF w, y
<1>9. w \div B = y BY <1>1, <1>2, <1>5, <1>6, QuotientIs
<1>10. y % M = g BY <1>1, <1>3, <1>5, <1>7, RemainderIs
<1> QED BY <1>8, <1>9, <1>10 DEF Bits, B, M, c, g

(* A word consists of what is below a field, the field, and what is above; *)
(* writing the field replaces the middle part.                             *)
LEMMA WithBitsIs ==
    ASSUME NEW w \in Nat, NEW a \in Nat, NEW n \in Nat, NEW x \in Nat
    PROVE  LET lo == w % 2^a
               hi == w \div 2^(a + n)
           IN  /\ lo \in 0 .. (2^a - 1) /\ hi \in Nat
               /\ Bits(w, a, n) \in 0 .. (2^n - 1) /\ x % 2^n \in 0 .. (2^n - 1)
               /\ w = 2^(a + n) * hi + (2^a * Bits(w, a, n) + lo)
               /\ WithBits(w, a, n, x) = 2^(a + n) * hi + (2^a * (x % 2^n) + lo)
<1> DEFINE A == 2^a
           N == 2^n
           q == w \div A
           lo == w % A
           hi == q \div N
           mid == q % N
           y == x % N
<1>1. A \in Nat /\ N \in Nat /\ A > 0 /\ N > 0 /\ 2^(a + n) = A * N BY Powers
<1>2. q \in Nat /\ lo \in 0 .. (A - 1) /\ w = A * q + lo BY Cut
<1>3. hi \in Nat /\ mid \in 0 .. (N - 1) /\ q = N * hi + mid BY <1>2, Cut
<1>4. y \in 0 .. (N - 1) BY <1>1, DivMod
<1>5. w \div 2^(a + n) = hi BY ShiftShift
<1>6. Bits(w, a, n) = mid BY DEF Bits
<1>7. WithBits(w, a, n, x) = w - mid * A + y * A BY <1>6 DEF WithBits
<1> HIDE DEF A, N, q, lo, hi, mid, y
<1>8. A * q = A * (N * hi) + A * mid BY <1>1, <1>2, <1>3
<1>9. A * (N * hi) = (A * N) * hi BY <1>1, <1>3
<1>10. w = (A * N) * hi + (A * mid + lo) BY <1>1, <1>2, <1>3, <1>8, <1>9
<1>11. w - mid * A + y * A = (A * N) * hi + (A * y + lo) BY <1>10, <1>1, <1>2, <1>3, <1>4
<1> QED BY <1>1, <1>2, <1>3, <1>4, <1>5, <1>6, <1>7, <1>10, <1>11 DEF A, N, lo, y

(* A field has as many values as its bits can express.                     *)
LEMMA BitsType ==
    ASSUME NEW w \in Nat, NEW a \in Nat, NEW n \in Nat
    PROVE  Bits(w, a, n) \in 0 .. (2^n - 1) /\ Bits(w, a, n) \in Nat
<1>1. Bits(w, a, n) \in 0 .. (2^n - 1) BY WithBitsIs
<1> QED BY <1>1

(* What has been written to a field is read back from it.                  *)
LEMMA BitsWith ==
    ASSUME NEW w \in Nat, NEW a \in Nat, NEW n \in Nat, NEW x \in Nat
    PROVE  /\ WithBits(w, a, n, x) \in Nat
           /\ Bits(WithBits(w, a, n, x), a, n) = x % 2^n
<1> DEFINE A == 2^a
           N == 2^n
           y == x % N
           lo == w % A
           hi == w \div 2^(a + n)
           W == WithBits(w, a, n, x)
           ay == A * y
           r == ay + lo
           anh == 2^(a + n) * hi
<1>1. A \in Nat /\ N \in Nat /\ A > 0 /\ N > 0 /\ 2^(a + n) = A * N BY Powers
<1>2. lo \in 0 .. (A - 1) /\ hi \in Nat /\ y \in 0 .. (N - 1) /\ W = anh + r BY WithBitsIs
<1> HIDE DEF A, N, y, lo, hi, W
<1>3. ay \in Nat BY <1>1, <1>2
<1>4. A * N \in Nat BY <1>1
<1>5. anh \in Nat BY <1>1, <1>2, <1>4
<1> HIDE DEF ay
<1>6. r \in Nat BY <1>2, <1>3
<1>7. W \in Nat
  <2> HIDE DEF anh, r
  <2> QED BY <1>2, <1>5, <1>6
<1>8. r \div A = y
  <2>1. r = A * y + lo BY DEF ay
  <2> HIDE DEF r
  <2> QED BY <2>1, <1>1, <1>2, <1>6, QuotientIs
<1>9. y % N = y
  <2>1. y = N * 0 + y /\ y \in Nat BY <1>1, <1>2
  <2> QED BY <2>1, <1>1, <1>2, RemainderIs
<1>10. Bits(W, a, n) = Bits(r, a, n)
  <2> HIDE DEF r
  <2>1. W = 2^(a + n) * hi + r /\ hi \in Nat BY <1>2
  <2> QED BY <2>1, <1>6, BitsBelow
<1> QED BY <1>7, <1>8, <1>9, <1>10 DEF Bits, A, N, W, y

(* A field above one that is written keeps its value.                      *)
LEMMA BitsAbove ==
    ASSUME NEW w \in Nat, NEW a \in Nat, NEW n \in Nat, NEW x \in Nat,
           NEW b \in Nat, NEW m \in Nat, a + n <= b
    PROVE  Bits(WithBits(w, a, n, x), b, m) = Bits(w, b, m)
<1> DEFINE A == 2^a
           N == 2^n
           T == 2^(a + n)
           W == WithBits(w, a, n, x)
           lo == w % A
           hi == w \div T
           y == x % N
           z == Bits(w, a, n)
           c == b - (a + n)
<1>0. a + n \in Nat /\ c \in Nat /\ b = (a + n) + c OBVIOUS
<1>1. A \in Nat /\ N \in Nat /\ A > 0 /\ N > 0 /\ T = A * N BY Powers
<1>2. /\ lo \in 0 .. (A - 1) /\ hi \in Nat /\ y \in 0 .. (N - 1) /\ z \in 0 .. (N - 1)
      /\ w = T * hi + (A * z + lo) /\ W = T * hi + (A * y + lo)
  BY WithBitsIs
<1>3. W \in Nat BY BitsWith
<1> HIDE DEF A, N, T, W, lo, hi, y, z
<1>4. ASSUME NEW v \in 0 .. (N - 1) PROVE A * v + lo \in 0 .. (T - 1)
  <2>1. v + 1 <= N /\ A * (v + 1) = A * v + A /\ A * v \in Nat BY <1>1
  <2>2. A * (v + 1) <= A * N BY <2>1, <1>1
  <2> DEFINE av == A * v
  <2>3. av \in Nat /\ av + A <= T BY <2>1, <2>2, <1>1
  <2> HIDE DEF av
  <2>4. av + lo \in 0 .. (T - 1)
    <3>1. T \in Nat BY <1>1
    <3> QED BY <2>3, <1>2, <1>1, <3>1
  <2> QED BY <2>4 DEF av
<1>5. A * z + lo \in 0 .. (T - 1) /\ A * y + lo \in 0 .. (T - 1) BY <1>2, <1>4
<1>6. T \in Nat /\ T > 0 BY <1>1, Powers DEF T
<1>7. w \div T = hi
  <2> DEFINE r == A * z + lo
  <2> HIDE DEF r
  <2>1. r \in 0 .. (T - 1) /\ w = T * hi + r /\ hi \in Int BY <1>2, <1>5 DEF r
  <2> QED BY <2>1, <1>6, QuotientIs
<1>8. W \div T = hi
  <2> DEFINE r == A * y + lo
  <2> HIDE DEF r
  <2>1. r \in 0 .. (T - 1) /\ W = T * hi + r /\ hi \in Int BY <1>2, <1>5 DEF r
  <2> QED BY <2>1, <1>3, <1>6, QuotientIs
<1>9. w \div 2^b = hi \div 2^c /\ W \div 2^b = hi \div 2^c
  <2> DEFINE s == a + n
  <2>0. s \in Nat /\ c \in Nat /\ b = s + c /\ T = 2^s BY <1>0 DEF T
  <2> HIDE DEF s, c
  <2>1. w \div 2^b = (w \div 2^s) \div 2^c BY <2>0, ShiftShift
  <2>2. W \div 2^b = (W \div 2^s) \div 2^c BY <2>0, <1>3, ShiftShift
  <2> QED BY <2>0, <2>1, <2>2, <1>7, <1>8
<1> QED BY <1>9 DEF Bits, W

(* And so does a field below.                                              *)
LEMMA BitsUnder ==
    ASSUME NEW w \in Nat, NEW a \in Nat, NEW n \in Nat, NEW x \in Nat,
           NEW b \in Nat, NEW m \in Nat, b + m <= a
    PROVE  Bits(WithBits(w, a, n, x), b, m) = Bits(w, b, m)
<1> DEFINE A == 2^a
           N == 2^n
           E == 2^(b + m)
           c == a - (b + m)
           C == 2^c
           W == WithBits(w, a, n, x)
           lo == w % A
           hi == w \div 2^(a + n)
           y == x % N
           z == Bits(w, a, n)
<1>0. b + m \in Nat /\ c \in Nat /\ a = (b + m) + c OBVIOUS
<1>1. A \in Nat /\ N \in Nat /\ A > 0 /\ N > 0 /\ 2^(a + n) = A * N BY Powers
<1>2. E \in Nat /\ C \in Nat /\ A = E * C
  <2>1. 2^((b + m) + c) = E * C /\ E \in Nat /\ C \in Nat BY <1>0, Powers
  <2> QED BY <2>1, <1>0
<1>3. /\ lo \in 0 .. (A - 1) /\ hi \in Nat /\ y \in 0 .. (N - 1) /\ z \in 0 .. (N - 1)
      /\ w = 2^(a + n) * hi + (A * z + lo) /\ W = 2^(a + n) * hi + (A * y + lo)
  BY WithBitsIs
<1> HIDE DEF A, N, E, C, c, W, lo, hi, y, z
<1>4. ASSUME NEW v \in 0 .. (N - 1)
      PROVE  Bits(2^(a + n) * hi + (A * v + lo), b, m) = Bits(lo, b, m)
  <2> DEFINE q == N * hi + v
             u == C * q
  <2>1. N * hi \in Nat /\ q \in Nat BY <1>1, <1>3
  <2>2. A * q = (A * N) * hi + A * v
    <3>1. A * q = A * (N * hi) + A * v BY <1>1, <1>3, <2>1
    <3>2. A * (N * hi) = (A * N) * hi BY <1>1, <1>3
    <3> QED BY <3>1, <3>2
  <2> HIDE DEF q
  <2>3. u \in Nat BY <2>1, <1>2
  <2>4. E * u = A * q
    <3>1. E * (C * q) = (E * C) * q BY <2>1, <1>2
    <3> QED BY <3>1, <1>2
  <2> HIDE DEF u
  <2>5. A * v \in Nat /\ (A * N) * hi \in Nat /\ lo \in Nat BY <1>1, <1>3
  <2>6. 2^(a + n) * hi + (A * v + lo) = E * u + lo BY <2>2, <2>4, <2>5, <1>1
  <2> DEFINE e == 2^(a + n) * hi + (A * v + lo)
  <2>7. e = 2^(b + m) * u + lo BY <2>6 DEF E
  <2> HIDE DEF e
  <2>8. Bits(e, b, m) = Bits(lo, b, m) BY <2>3, <2>5, <2>7, BitsBelow
  <2> QED BY <2>8 DEF e
<1> QED BY <1>3, <1>4 DEF W

(* Writing a field leaves the fields apart from it.                        *)
LEMMA BitsApart ==
    ASSUME NEW w \in Nat, NEW a \in Nat, NEW n \in Nat, NEW x \in Nat,
           NEW b \in Nat, NEW m \in Nat, a + n <= b \/ b + m <= a
    PROVE  Bits(WithBits(w, a, n, x), b, m) = Bits(w, b, m)
BY BitsAbove, BitsUnder
-----------------------------------------------------------------------------
(* The layout of the word.                                                 *)

(* Fields of width p, one per slot, lie side by side.                      *)
LEMMA Strided ==
    ASSUME NEW n \in Nat, NEW p \in Nat, NEW s \in 0 .. (n - 1), NEW r \in 0 .. (n - 1)
    PROVE  /\ s * p \in Nat /\ n * p \in Nat /\ s * p + p <= n * p
           /\ s # r => s * p + p <= r * p \/ r * p + p <= s * p
<1>1. ASSUME NEW x \in Nat, NEW y \in Nat, x < y PROVE x * p + p <= y * p
  <2>1. x + 1 <= y /\ (x + 1) * p = x * p + p BY <1>1
  <2>2. (x + 1) * p <= y * p BY <2>1
  <2> QED BY <2>1, <2>2
<1>2. s \in Nat /\ r \in Nat /\ s < n OBVIOUS
<1>3. s * p \in Nat /\ n * p \in Nat BY <1>2
<1>4. s * p + p <= n * p BY <1>1, <1>2
<1>5. s < r => s * p + p <= r * p BY <1>1, <1>2
<1>6. r < s => r * p + p <= s * p BY <1>1, <1>2
<1> QED BY <1>2, <1>3, <1>4, <1>5, <1>6

(* The widths are numbers, and a priority is a frequency and a recency.    *)
LEMMA Widths ==
    /\ H2Bits \in Nat /\ FreqBits \in Nat /\ RecencyBits \in Nat /\ PrioBits \in Nat
    /\ SlotsPerBucket \in Nat /\ SlotsPerBucket > 0 /\ MaxFreq \in Nat /\ MaxRecency \in Nat
    /\ 2^RecencyBits = MaxRecency + 1 /\ 2^FreqBits = MaxFreq + 1
    /\ 2^PrioBits = (MaxFreq + 1) * (MaxRecency + 1)
    /\ 2^H2Bits \in Nat /\ 2^H2Bits > 0 /\ 2^PrioBits \in Nat /\ 2^2 = 4
<1>1. H2Bits \in Nat /\ FreqBits \in Nat /\ RecencyBits \in Nat BY PackedAssumption
<1>2. PrioBits \in Nat BY <1>1 DEF PrioBits
<1>3. SlotsPerBucket \in Nat /\ SlotsPerBucket > 0 /\ MaxFreq \in Nat /\ MaxRecency \in Nat
  BY MetaAssumption
<1>4. /\ 2^RecencyBits \in Nat /\ 2^FreqBits \in Nat
      /\ 2^(FreqBits + RecencyBits) = 2^FreqBits * 2^RecencyBits
  BY <1>1, Powers
<1>5. 2^RecencyBits = MaxRecency + 1 /\ 2^FreqBits = MaxFreq + 1
  BY <1>1, <1>3, <1>4, PackedAssumption
<1>6. 2^PrioBits = (MaxFreq + 1) * (MaxRecency + 1) BY <1>4, <1>5 DEF PrioBits
<1>7. 2^H2Bits \in Nat /\ 2^H2Bits > 0 /\ 2^PrioBits \in Nat BY <1>1, <1>2, Powers
<1>8. 2^2 = 4
  <2>1. 2^(0 + 1) = 2 * 2^0 /\ 2^(1 + 1) = 2 * 2^1 BY PowerStep
  <2>2. 2^0 = 1
    <3>1. Cardinality(SUBSET {}) = 2^0 /\ IsFiniteSet({}) BY FS_EmptySet, FS_SUBSET
    <3>2. SUBSET {} = {{}} OBVIOUS
    <3>3. Cardinality({{}}) = 1 BY FS_Singleton
    <3> QED BY <3>1, <3>2, <3>3
  <2> QED BY <2>1, <2>2
<1> QED BY <1>1, <1>2, <1>3, <1>5, <1>6, <1>7, <1>8

(* No two fields overlap.                                                  *)
LEMMA Places ==
    ASSUME NEW s \in SlotIds, NEW r \in SlotIds
    PROVE  /\ PrioShift(s) \in Nat /\ H2Shift(s) \in Nat /\ StateShift(s) \in Nat
           /\ PrioShift(s) + PrioBits <= H2Shift(r)
           /\ PrioShift(s) + PrioBits <= StateShift(r)
           /\ H2Shift(s) + H2Bits <= StateShift(r)
           /\ s # r =>
                /\ PrioShift(s) + PrioBits <= PrioShift(r) \/ PrioShift(r) + PrioBits <= PrioShift(s)
                /\ H2Shift(s) + H2Bits <= H2Shift(r) \/ H2Shift(r) + H2Bits <= H2Shift(s)
                /\ StateShift(s) + 2 <= StateShift(r) \/ StateShift(r) + 2 <= StateShift(s)
<1> DEFINE n == SlotsPerBucket
           p == PrioBits
           h == H2Bits
           np == n * p
           nh == n * h
           sp == s * p
           sh == s * h
           rh == r * h
           rp == r * p
<1>1. n \in Nat /\ p \in Nat /\ h \in Nat /\ s \in 0 .. (n - 1) /\ r \in 0 .. (n - 1)
  BY Widths DEF SlotIds
<1> HIDE DEF n, p, h
<1>2. /\ sp \in Nat /\ np \in Nat /\ rp \in Nat /\ sp + p <= np
      /\ s # r => sp + p <= rp \/ rp + p <= sp
  BY <1>1, Strided
<1>3. /\ sh \in Nat /\ nh \in Nat /\ rh \in Nat /\ sh + h <= nh
      /\ s # r => sh + h <= rh \/ rh + h <= sh
  BY <1>1, Strided
<1>4. n * (p + h) = np + nh BY <1>1
<1>5. /\ PrioShift(s) = sp /\ PrioShift(r) = rp
      /\ H2Shift(s) = np + sh /\ H2Shift(r) = np + rh
      /\ StateShift(s) = n * (p + h) + s * 2 /\ StateShift(r) = n * (p + h) + r * 2
  BY DEF PrioShift, H2Shift, StateShift, n, p, h
<1>6. PrioBits = p /\ H2Bits = h BY DEF p, h
<1> HIDE DEF np, nh, sp, sh, rp, rh
<1> QED BY <1>1, <1>2, <1>3, <1>4, <1>5, <1>6

(* W is the word w but for x in the n bits from position a.                *)
FieldIs(W, w, a, n, x) ==
    /\ W \in Nat /\ Bits(W, a, n) = x
    /\ \A b, m \in Nat : a + n <= b \/ b + m <= a => Bits(W, b, m) = Bits(w, b, m)

(* What writing a field does.                                              *)
LEMMA FieldWritten ==
    ASSUME NEW w \in Nat, NEW a \in Nat, NEW n \in Nat, NEW x \in 0 .. (2^n - 1),
           NEW W, W = WithBits(w, a, n, x)
    PROVE  FieldIs(W, w, a, n, x)
<1>1. 2^n \in Nat /\ x \in Nat BY PowerIs
<1>2. W \in Nat /\ Bits(W, a, n) = x % 2^n BY <1>1, BitsWith
<1>3. x % 2^n = x BY <1>1, SmallRemainder
<1>4. ASSUME NEW b \in Nat, NEW m \in Nat, a + n <= b \/ b + m <= a
      PROVE  Bits(W, b, m) = Bits(w, b, m)
  BY <1>1, <1>4, BitsApart
<1> QED BY <1>2, <1>3, <1>4 DEF FieldIs

(* What the setters do to the fields: set_priority, ...                    *)
LEMMA SetPriorityIs ==
    ASSUME NEW w \in Nat, NEW s \in SlotIds, NEW y \in 0 .. (2^PrioBits - 1)
    PROVE  LET W == WordSetPriority(w, s, y) IN
           /\ W \in Nat
           /\ \A r \in SlotIds :
                 /\ StateBits(W, r) = StateBits(w, r) /\ GetH2(W, r) = GetH2(w, r)
                 /\ GetPriority(W, r) = IF r = s THEN y ELSE GetPriority(w, r)
<1> DEFINE W == WordSetPriority(w, s, y)
           x == y
           a == PrioShift(s)
           n == PrioBits
<1>1. a \in Nat /\ n \in Nat /\ x \in Nat /\ x \in 0 .. (2^n - 1) BY Widths, Places
<1>2. W = WithBits(w, a, n, x) BY DEF WordSetPriority
<1>3. /\ W \in Nat /\ Bits(W, a, n) = x
      /\ \A b, m \in Nat : a + n <= b \/ b + m <= a => Bits(W, b, m) = Bits(w, b, m)
  <2> HIDE DEF W, x, a, n
  <2>1. FieldIs(W, w, a, n, x) BY <1>1, <1>2, FieldWritten
  <2> QED BY <2>1 DEF FieldIs
<1>4. ASSUME NEW r \in SlotIds
      PROVE  /\ StateBits(W, r) = StateBits(w, r) /\ GetH2(W, r) = GetH2(w, r)
             /\ GetPriority(W, r) = IF r = s THEN x ELSE GetPriority(w, r)
  <2> DEFINE p == StateShift(r)
             q == H2Shift(r)
             b == PrioShift(r)
             i == 2
             j == H2Bits
  <2>1. p \in Nat /\ q \in Nat /\ b \in Nat /\ i \in Nat /\ j \in Nat BY Places, Widths
  <2>2. /\ a + n <= p \/ p + i <= a
        /\ a + n <= q \/ q + j <= a
        /\ r # s => a + n <= b \/ b + n <= a
    BY Places
  <2>3. /\ StateBits(W, r) = Bits(W, p, i) /\ GetH2(W, r) = Bits(W, q, j) /\ GetPriority(W, r) = Bits(W, b, n)
        /\ StateBits(w, r) = Bits(w, p, i) /\ GetH2(w, r) = Bits(w, q, j) /\ GetPriority(w, r) = Bits(w, b, n)
    BY DEF StateBits, GetH2, GetPriority
  <2>4. r = s => a = b OBVIOUS
  <2> HIDE DEF W, x, a, n, p, q, b, i, j
  <2> QED BY <1>1, <1>3, <2>1, <2>2, <2>3, <2>4
<1> QED BY <1>3, <1>4

(* ... set_h2, ...                                                         *)
LEMMA SetH2Is ==
    ASSUME NEW w \in Nat, NEW s \in SlotIds, NEW y \in 0 .. (2^H2Bits - 1)
    PROVE  LET W == WordSetH2(w, s, y) IN
           /\ W \in Nat
           /\ \A r \in SlotIds :
                 /\ StateBits(W, r) = StateBits(w, r) /\ GetPriority(W, r) = GetPriority(w, r)
                 /\ GetH2(W, r) = IF r = s THEN y ELSE GetH2(w, r)
<1> DEFINE W == WordSetH2(w, s, y)
           x == y
           a == H2Shift(s)
           n == H2Bits
<1>1. a \in Nat /\ n \in Nat /\ x \in Nat /\ x \in 0 .. (2^n - 1) BY Widths, Places
<1>2. W = WithBits(w, a, n, x) BY DEF WordSetH2
<1>3. /\ W \in Nat /\ Bits(W, a, n) = x
      /\ \A b, m \in Nat : a + n <= b \/ b + m <= a => Bits(W, b, m) = Bits(w, b, m)
  <2> HIDE DEF W, x, a, n
  <2>1. FieldIs(W, w, a, n, x) BY <1>1, <1>2, FieldWritten
  <2> QED BY <2>1 DEF FieldIs
<1>4. ASSUME NEW r \in SlotIds
      PROVE  /\ StateBits(W, r) = StateBits(w, r) /\ GetPriority(W, r) = GetPriority(w, r)
             /\ GetH2(W, r) = IF r = s THEN x ELSE GetH2(w, r)
  <2> DEFINE p == StateShift(r)
             q == PrioShift(r)
             b == H2Shift(r)
             i == 2
             j == PrioBits
  <2>1. p \in Nat /\ q \in Nat /\ b \in Nat /\ i \in Nat /\ j \in Nat BY Places, Widths
  <2>2. /\ a + n <= p \/ p + i <= a
        /\ a + n <= q \/ q + j <= a
        /\ r # s => a + n <= b \/ b + n <= a
    BY Places
  <2>3. /\ StateBits(W, r) = Bits(W, p, i) /\ GetPriority(W, r) = Bits(W, q, j) /\ GetH2(W, r) = Bits(W, b, n)
        /\ StateBits(w, r) = Bits(w, p, i) /\ GetPriority(w, r) = Bits(w, q, j) /\ GetH2(w, r) = Bits(w, b, n)
    BY DEF StateBits, GetPriority, GetH2
  <2>4. r = s => a = b OBVIOUS
  <2> HIDE DEF W, x, a, n, p, q, b, i, j
  <2> QED BY <1>1, <1>3, <2>1, <2>2, <2>3, <2>4
<1> QED BY <1>3, <1>4

(* ... and set_state.                                                      *)
LEMMA SetStateIs ==
    ASSUME NEW w \in Nat, NEW s \in SlotIds, NEW st \in SlotStates
    PROVE  LET W == WordSetState(w, s, st) IN
           /\ W \in Nat
           /\ \A r \in SlotIds :
                 /\ GetH2(W, r) = GetH2(w, r) /\ GetPriority(W, r) = GetPriority(w, r)
                 /\ StateBits(W, r) = IF r = s THEN AsBits(st) ELSE StateBits(w, r)
<1> DEFINE W == WordSetState(w, s, st)
           x == AsBits(st)
           a == StateShift(s)
           n == 2
<1>0. 2^n = 4 /\ x \in 0 .. 3 BY Widths DEF AsBits, SlotStates
<1>1. a \in Nat /\ n \in Nat /\ x \in Nat /\ x \in 0 .. (2^n - 1) BY <1>0, Places
<1>2. W = WithBits(w, a, n, x) BY DEF WordSetState
<1>3. /\ W \in Nat /\ Bits(W, a, n) = x
      /\ \A b, m \in Nat : a + n <= b \/ b + m <= a => Bits(W, b, m) = Bits(w, b, m)
  <2> HIDE DEF W, x, a, n
  <2>1. FieldIs(W, w, a, n, x) BY <1>1, <1>2, FieldWritten
  <2> QED BY <2>1 DEF FieldIs
<1>4. ASSUME NEW r \in SlotIds
      PROVE  /\ GetH2(W, r) = GetH2(w, r) /\ GetPriority(W, r) = GetPriority(w, r)
             /\ StateBits(W, r) = IF r = s THEN x ELSE StateBits(w, r)
  <2> DEFINE p == H2Shift(r)
             q == PrioShift(r)
             b == StateShift(r)
             i == H2Bits
             j == PrioBits
  <2>1. p \in Nat /\ q \in Nat /\ b \in Nat /\ i \in Nat /\ j \in Nat BY Places, Widths
  <2>2. /\ a + n <= p \/ p + i <= a
        /\ a + n <= q \/ q + j <= a
        /\ r # s => a + n <= b \/ b + n <= a
    BY Places
  <2>3. /\ GetH2(W, r) = Bits(W, p, i) /\ GetPriority(W, r) = Bits(W, q, j) /\ StateBits(W, r) = Bits(W, b, n)
        /\ GetH2(w, r) = Bits(w, p, i) /\ GetPriority(w, r) = Bits(w, q, j) /\ StateBits(w, r) = Bits(w, b, n)
    BY DEF GetH2, GetPriority, StateBits
  <2>4. r = s => a = b OBVIOUS
  <2> HIDE DEF W, x, a, n, p, q, b, i, j
  <2> QED BY <1>1, <1>3, <2>1, <2>2, <2>3, <2>4
<1> QED BY <1>3, <1>4
-----------------------------------------------------------------------------
(* The word and the record.  A word stands for a record if every field has *)
(* its value; a priority is read as one number.                            *)
Tags == 0 .. (2^H2Bits - 1)

Stands(w, m) ==
    /\ w \in Nat /\ m \in MetaWords(Tags)
    /\ \A r \in SlotIds : /\ GetState(w, r) = m.state[r] /\ GetH2(w, r) = m.h2[r]
                          /\ GetPriority(w, r) = Priority(m, r)

(* Encoding a state and decoding it gives it back, and only Full is 1.     *)
LEMMA StatesCoded ==
    /\ \A st \in SlotStates : FromBits(AsBits(st)) = st
    /\ \A b : FromBits(b) \in SlotStates
    /\ \A b : FromBits(b) = "Full" <=> b = 1
BY DEF FromBits, AsBits, SlotStates

(* A priority splits into its frequency and its recency.                   *)
LEMMA PrioritySplit ==
    ASSUME NEW f \in 0 .. MaxFreq, NEW c \in 0 .. MaxRecency, NEW p, p = f * (MaxRecency + 1) + c
    PROVE  /\ p \in 0 .. (2^PrioBits - 1)
           /\ p \div 2^RecencyBits = f /\ p % 2^RecencyBits = c
<1> DEFINE N == MaxRecency + 1
           F == MaxFreq + 1
           fn == f * N
<1>1. N \in Nat /\ N > 0 /\ F \in Nat /\ 2^RecencyBits = N /\ 2^PrioBits = F * N /\ f \in Nat /\ f + 1 <= F
      /\ c \in 0 .. (N - 1) /\ f \in Int /\ p = fn + c
  BY Widths
<1> HIDE DEF N, F
<1>2. fn \in Nat /\ (f + 1) * N = fn + N /\ N * f = fn BY <1>1
<1>3. (f + 1) * N <= F * N BY <1>1
<1>4. F * N \in Nat BY <1>1
<1> HIDE DEF fn
<1>5. p \in Nat /\ p \in 0 .. (2^PrioBits - 1) BY <1>1, <1>2, <1>3, <1>4
<1>6. /\ p \in Nat /\ N \in Nat /\ N > 0 /\ f \in Int /\ c \in 0 .. (N - 1)
      /\ p = N * f + c
  BY <1>1, <1>2, <1>5
<1>7. p \div N = f BY ONLY <1>6, QuotientIs
<1>8. p % N = c BY ONLY <1>6, RemainderIs
<1> QED BY <1>1, <1>5, <1>7, <1>8

(* The fields of a word have the types of the record's.                    *)
LEMMA FieldTypes ==
    ASSUME NEW w \in Nat, NEW r \in SlotIds
    PROVE  /\ GetState(w, r) \in SlotStates /\ GetH2(w, r) \in Tags /\ GetPriority(w, r) \in Nat
           /\ GetPriority(w, r) \div 2^RecencyBits \in 0 .. MaxFreq
           /\ GetPriority(w, r) % 2^RecencyBits \in 0 .. MaxRecency
           /\ GetPriority(w, r) = (GetPriority(w, r) \div 2^RecencyBits) * (MaxRecency + 1)
                                    + (GetPriority(w, r) % 2^RecencyBits)
<1> DEFINE p == GetPriority(w, r)
           N == MaxRecency + 1
           F == MaxFreq + 1
           q == p \div N
           c == p % N
<1>1. GetState(w, r) \in SlotStates BY StatesCoded DEF GetState
<1>2. GetH2(w, r) \in Tags BY Widths, Places, BitsType DEF GetH2, Tags
<1>3. p \in 0 .. (2^PrioBits - 1) BY Widths, Places, BitsType DEF GetPriority
<1>4. N \in Nat /\ N > 0 /\ F \in Nat /\ 2^PrioBits = F * N /\ 2^RecencyBits = N BY Widths
<1>5. p \in Nat /\ p < F * N
  <2>1. F * N \in Nat BY <1>4
  <2> QED BY <2>1, <1>3, <1>4
<1> HIDE DEF p, N, F
<1>6. q \in Nat /\ c \in 0 .. (N - 1) /\ p = N * q + c BY <1>4, <1>5, DivMod
<1> HIDE DEF q, c
<1>7. q < F
  <2> SUFFICES ASSUME q >= F PROVE FALSE BY <1>4, <1>6
  <2>1. N * q >= N * F /\ N * F = F * N BY <1>4, <1>6
  <2>2. N * q \in Nat /\ F * N \in Nat BY <1>4, <1>6
  <2> QED BY <2>1, <2>2, <1>5, <1>6
<1>8. q \in 0 .. MaxFreq /\ c \in 0 .. MaxRecency BY <1>4, <1>6, <1>7, Widths DEF F, N
<1>9. N * q = q * N BY <1>4, <1>6
<1> QED BY <1>1, <1>2, <1>4, <1>5, <1>6, <1>8, <1>9 DEF p, q, c, N

(* Standing for a record is unpacking to it.                               *)
LEMMA StandsUnpacks ==
    ASSUME NEW w \in Nat, NEW m, Stands(w, m)
    PROVE  Unpack(w) = m
<1>1. m \in MetaWords(Tags) BY DEF Stands
<1>2. m = [state |-> [s \in SlotIds |-> m.state[s]], h2 |-> [s \in SlotIds |-> m.h2[s]],
           freq |-> [s \in SlotIds |-> m.freq[s]], recency |-> [s \in SlotIds |-> m.recency[s]]]
  BY <1>1 DEF MetaWords
<1>3. ASSUME NEW r \in SlotIds
      PROVE  /\ GetState(w, r) = m.state[r] /\ GetH2(w, r) = m.h2[r]
             /\ GetPriority(w, r) \div 2^RecencyBits = m.freq[r]
             /\ GetPriority(w, r) % 2^RecencyBits = m.recency[r]
  <2>1. m.freq[r] \in 0 .. MaxFreq /\ m.recency[r] \in 0 .. MaxRecency BY <1>1 DEF MetaWords
  <2>2. GetPriority(w, r) = m.freq[r] * (MaxRecency + 1) + m.recency[r] BY DEF Stands, Priority
  <2>3. /\ GetPriority(w, r) \div 2^RecencyBits = m.freq[r]
        /\ GetPriority(w, r) % 2^RecencyBits = m.recency[r]
    BY <2>1, <2>2, PrioritySplit
  <2> QED BY <2>3 DEF Stands
<1>4. Unpack(w) = [state |-> [s \in SlotIds |-> m.state[s]], h2 |-> [s \in SlotIds |-> m.h2[s]],
           freq |-> [s \in SlotIds |-> m.freq[s]], recency |-> [s \in SlotIds |-> m.recency[s]]]
  BY <1>3 DEF Unpack
<1> QED BY <1>2, <1>4

(* The word of a new bucket.                                               *)
LEMMA StandsEmpty == Stands(0, EmptyMeta)
<1>1. EmptyMeta \in MetaWords(Tags) BY Widths DEF EmptyMeta, MetaWords, Tags, SlotStates
<1>2. ASSUME NEW a \in Nat, NEW n \in Nat PROVE Bits(0, a, n) = 0
  <2>1. 2^a \in Nat /\ 2^a > 0 /\ 2^n \in Nat /\ 2^n > 0 BY Powers
  <2>2. 0 = 2^a * 0 + 0 /\ 0 \in 0 .. (2^a - 1) /\ 0 \in 0 .. (2^n - 1) BY <2>1
  <2>3. 0 \div 2^a = 0 BY <2>1, <2>2, QuotientIs
  <2>4. 0 % 2^n = 0 BY <2>1, <2>2, SmallRemainder
  <2> QED BY <2>3, <2>4 DEF Bits
<1>3. ASSUME NEW r \in SlotIds
      PROVE  /\ GetState(0, r) = EmptyMeta.state[r] /\ GetH2(0, r) = EmptyMeta.h2[r]
             /\ GetPriority(0, r) = Priority(EmptyMeta, r)
  <2>1. StateBits(0, r) = 0 /\ GetH2(0, r) = 0 /\ GetPriority(0, r) = 0
    BY <1>2, Places, Widths DEF StateBits, GetH2, GetPriority
  <2>2. GetState(0, r) = "Empty" BY <2>1 DEF GetState, FromBits
  <2>3. Priority(EmptyMeta, r) = 0 BY Widths DEF Priority, EmptyMeta
  <2> QED BY <2>1, <2>2, <2>3 DEF EmptyMeta
<1> QED BY <1>1, <1>3 DEF Stands

(* The setters agree: set_state, ...                                       *)
LEMMA StandsSetState ==
    ASSUME NEW w, NEW m, Stands(w, m), NEW s \in SlotIds, NEW st \in SlotStates
    PROVE  Stands(WordSetState(w, s, st), SetState(m, s, st))
<1> DEFINE W == WordSetState(w, s, st)
           M == SetState(m, s, st)
<1>0. w \in Nat /\ m \in MetaWords(Tags) BY DEF Stands
<1>1. W \in Nat /\ \A r \in SlotIds :
         /\ GetH2(W, r) = GetH2(w, r) /\ GetPriority(W, r) = GetPriority(w, r)
         /\ StateBits(W, r) = IF r = s THEN AsBits(st) ELSE StateBits(w, r)
  BY <1>0, SetStateIs
<1>2. /\ M \in MetaWords(Tags) /\ M.h2 = m.h2 /\ M.freq = m.freq /\ M.recency = m.recency
      /\ \A r \in SlotIds : M.state[r] = IF r = s THEN st ELSE m.state[r]
  BY <1>0 DEF SetState, MetaWords
<1> HIDE DEF W, M
<1>3. \A r \in SlotIds : GetState(W, r) = M.state[r]
  BY <1>1, <1>2, StatesCoded DEF GetState, Stands
<1> QED BY <1>1, <1>2, <1>3 DEF Stands, Priority, W, M

(* ... set_h2, ...                                                         *)
LEMMA StandsSetH2 ==
    ASSUME NEW w, NEW m, Stands(w, m), NEW s \in SlotIds, NEW h \in Tags
    PROVE  Stands(WordSetH2(w, s, h), SetH2(m, s, h))
<1> DEFINE W == WordSetH2(w, s, h)
           M == SetH2(m, s, h)
<1>0. w \in Nat /\ m \in MetaWords(Tags) BY DEF Stands
<1>1. W \in Nat /\ \A r \in SlotIds :
         /\ StateBits(W, r) = StateBits(w, r) /\ GetPriority(W, r) = GetPriority(w, r)
         /\ GetH2(W, r) = IF r = s THEN h ELSE GetH2(w, r)
  BY <1>0, SetH2Is DEF Tags
<1>2. /\ M \in MetaWords(Tags) /\ M.state = m.state /\ M.freq = m.freq /\ M.recency = m.recency
      /\ \A r \in SlotIds : M.h2[r] = IF r = s THEN h ELSE m.h2[r]
  BY <1>0 DEF SetH2, MetaWords
<1> HIDE DEF W, M
<1>3. \A r \in SlotIds : GetState(W, r) = M.state[r]
  BY <1>1, <1>2 DEF GetState, Stands
<1> QED BY <1>1, <1>2, <1>3 DEF Stands, Priority, W, M

(* ... and set_priority.                                                   *)
LEMMA StandsSetPriority ==
    ASSUME NEW w, NEW m, Stands(w, m), NEW s \in SlotIds, NEW M \in MetaWords(Tags),
           NEW f \in 0 .. MaxFreq, NEW c \in 0 .. MaxRecency, NEW x, x = f * (MaxRecency + 1) + c,
           M.state = m.state, M.h2 = m.h2,
           \A r \in SlotIds : /\ M.freq[r] = IF r = s THEN f ELSE m.freq[r]
                              /\ M.recency[r] = IF r = s THEN c ELSE m.recency[r]
    PROVE  Stands(WordSetPriority(w, s, x), M)
<1> DEFINE W == WordSetPriority(w, s, x)
<1>0. w \in Nat /\ m \in MetaWords(Tags) /\ x \in 0 .. (2^PrioBits - 1) BY PrioritySplit DEF Stands
<1>1. W \in Nat /\ \A r \in SlotIds :
         /\ StateBits(W, r) = StateBits(w, r) /\ GetH2(W, r) = GetH2(w, r)
         /\ GetPriority(W, r) = IF r = s THEN x ELSE GetPriority(w, r)
  BY <1>0, SetPriorityIs
<1> HIDE DEF W
<1>2. \A r \in SlotIds : GetState(W, r) = M.state[r] BY <1>1 DEF GetState, Stands
<1>3. \A r \in SlotIds : GetPriority(W, r) = Priority(M, r) BY <1>1 DEF Stands, Priority
<1> QED BY <1>1, <1>2, <1>3 DEF Stands, W

(* ... and on_insert, ...                                                *)
LEMMA StandsOnInsert ==
    ASSUME NEW w, NEW m, Stands(w, m), NEW s \in SlotIds
    PROVE  Stands(WordOnInsert(w, s), OnInsert(m, s))
<1> DEFINE M == OnInsert(m, s)
<1>0. m \in MetaWords(Tags) /\ 0 \in 0 .. MaxFreq /\ 1 \in 0 .. MaxRecency
  BY MetaAssumption DEF Stands
<1>1. /\ M \in MetaWords(Tags) /\ M.state = m.state /\ M.h2 = m.h2
      /\ \A r \in SlotIds : /\ M.freq[r] = IF r = s THEN 0 ELSE m.freq[r]
                            /\ M.recency[r] = IF r = s THEN 1 ELSE m.recency[r]
  BY <1>0 DEF OnInsert, MetaWords
<1>2. 1 = 0 * (MaxRecency + 1) + 1 BY Widths
<1> HIDE DEF M
<1>3. Stands(WordSetPriority(w, s, 1), M) BY <1>0, <1>1, <1>2, StandsSetPriority
<1> QED BY <1>3 DEF WordOnInsert, M

(* on_access: the record when the slots below n have been visited.         *)
Visited(m, s, n) ==
    [m EXCEPT
       !.freq[s] = IF @ < MaxFreq THEN @ + 1 ELSE MaxFreq,
       !.recency = [r \in SlotIds |->
                      CASE r = s -> MaxRecency
                        [] r # s /\ r < n /\ m.state[r] = "Full" /\ m.recency[r] > 0
                             -> m.recency[r] - 1
                        [] OTHER -> m.recency[r]]]

(* Its fields.                                                             *)
FreqAfter(m, s, r) ==
    IF r = s THEN (IF m.freq[s] < MaxFreq THEN m.freq[s] + 1 ELSE MaxFreq) ELSE m.freq[r]
RecencyAfter(m, s, n, r) ==
    IF r = s THEN MaxRecency
    ELSE IF r < n /\ m.state[r] = "Full" /\ m.recency[r] > 0 THEN m.recency[r] - 1 ELSE m.recency[r]

(* The record that these fields make.                                    *)
LEMMA VisitedIs ==
    ASSUME NEW m \in MetaWords(Tags), NEW s \in SlotIds, NEW n \in Nat
    PROVE  /\ Visited(m, s, n) \in MetaWords(Tags)
           /\ Visited(m, s, n).state = m.state /\ Visited(m, s, n).h2 = m.h2
           /\ \A r \in SlotIds : /\ Visited(m, s, n).freq[r] = FreqAfter(m, s, r)
                                 /\ Visited(m, s, n).recency[r] = RecencyAfter(m, s, n, r)
<1> DEFINE M == Visited(m, s, n)
<1>1. /\ m.freq \in [SlotIds -> 0 .. MaxFreq] /\ m.recency \in [SlotIds -> 0 .. MaxRecency]
      /\ m.state \in [SlotIds -> SlotStates] /\ m.h2 \in [SlotIds -> Tags]
      /\ MaxFreq \in Nat /\ MaxRecency \in Nat
  BY Widths DEF MetaWords
<1> DEFINE F == [m.freq EXCEPT ![s] = IF @ < MaxFreq THEN @ + 1 ELSE MaxFreq]
           C == [r \in SlotIds |->
                      CASE r = s -> MaxRecency
                        [] r # s /\ r < n /\ m.state[r] = "Full" /\ m.recency[r] > 0
                             -> m.recency[r] - 1
                        [] OTHER -> m.recency[r]]
<1>2. \A r \in SlotIds : C[r] = IF r = s THEN MaxRecency
                                ELSE IF r < n /\ m.state[r] = "Full" /\ m.recency[r] > 0
                                THEN m.recency[r] - 1 ELSE m.recency[r]
  OBVIOUS
<1>3. \A r \in SlotIds : F[r] = IF r = s THEN (IF m.freq[s] < MaxFreq THEN m.freq[s] + 1 ELSE MaxFreq)
                                ELSE m.freq[r]
  BY <1>1
<1>4. DOMAIN C = SlotIds /\ C = [r \in SlotIds |-> C[r]] OBVIOUS
<1>5. F \in [SlotIds -> 0 .. MaxFreq] BY <1>1
<1>6. Visited(m, s, n) = [m EXCEPT !.freq = F, !.recency = C]
  BY <1>1 DEF Visited, MetaWords
<1> HIDE DEF C, F
<1>7. C \in [SlotIds -> 0 .. MaxRecency] BY <1>1, <1>2, <1>4
<1>8. M \in MetaWords(Tags) /\ M.state = m.state /\ M.h2 = m.h2 /\ M.freq = F /\ M.recency = C
  BY <1>1, <1>5, <1>6, <1>7 DEF MetaWords
<1> QED BY <1>2, <1>3, <1>8 DEF FreqAfter, RecencyAfter

(* The boost of the slot that was hit ...                                  *)
Boost(w, s) ==
    WordSetPriority(w, s,
        (IF GetPriority(w, s) \div 2 ^ RecencyBits < MaxFreq
         THEN GetPriority(w, s) \div 2 ^ RecencyBits + 1 ELSE MaxFreq) * 2 ^ RecencyBits + MaxRecency)

(* ... and the decay of slot i.                                            *)
Decay(s, v, i) ==
    IF i # s /\ GetState(v, i) = "Full" /\ GetPriority(v, i) % 2 ^ RecencyBits > 0
    THEN WordSetPriority(v, i, GetPriority(v, i) - 1) ELSE v

(* The boost of the slot that was hit is the record's.                   *)
LEMMA StandsBoost ==
    ASSUME NEW w, NEW m, Stands(w, m), NEW s \in SlotIds
    PROVE  Stands(Boost(w, s), Visited(m, s, 0))
<1> DEFINE M == Visited(m, s, 0)
           f == IF m.freq[s] < MaxFreq THEN m.freq[s] + 1 ELSE MaxFreq
           x == f * (MaxRecency + 1) + MaxRecency
<1>0. /\ m \in MetaWords(Tags) /\ m.freq[s] \in 0 .. MaxFreq /\ m.recency[s] \in 0 .. MaxRecency
      /\ GetPriority(w, s) = m.freq[s] * (MaxRecency + 1) + m.recency[s]
  BY DEF Stands, MetaWords, Priority
<1>1. GetPriority(w, s) \div 2^RecencyBits = m.freq[s] BY <1>0, PrioritySplit
<1>2. Boost(w, s) = WordSetPriority(w, s, x) BY <1>1, Widths DEF Boost
<1>3. f \in 0 .. MaxFreq /\ MaxRecency \in 0 .. MaxRecency BY <1>0, Widths
<1>4. /\ M \in MetaWords(Tags) /\ M.state = m.state /\ M.h2 = m.h2
      /\ \A r \in SlotIds : /\ M.freq[r] = IF r = s THEN f ELSE m.freq[r]
                            /\ M.recency[r] = IF r = s THEN MaxRecency ELSE m.recency[r]
  <2>1. \A r \in SlotIds : ~(r < 0) BY DEF SlotIds
  <2>2. M = Visited(m, s, 0) OBVIOUS
  <2> HIDE DEF M
  <2>3. /\ M \in MetaWords(Tags) /\ M.state = m.state /\ M.h2 = m.h2
        /\ \A r \in SlotIds : M.freq[r] = FreqAfter(m, s, r) /\ M.recency[r] = RecencyAfter(m, s, 0, r)
    BY <1>0, VisitedIs DEF M
  <2> QED BY <2>1, <2>3 DEF FreqAfter, RecencyAfter
<1>5. x = f * (MaxRecency + 1) + MaxRecency OBVIOUS
<1> HIDE DEF M, f, x
<1>6. Stands(WordSetPriority(w, s, x), M) BY <1>3, <1>4, <1>5, StandsSetPriority
<1> QED BY <1>2, <1>6 DEF M

(* The decay of one more slot is the record's.                           *)
LEMMA StandsDecay ==
    ASSUME NEW v, NEW m \in MetaWords(Tags), NEW s \in SlotIds, NEW i \in SlotIds,
           Stands(v, Visited(m, s, i))
    PROVE  Stands(Decay(s, v, i), Visited(m, s, i + 1))
<1> DEFINE M == Visited(m, s, i)
           j == i + 1
           N == Visited(m, s, j)
           f == M.freq[i]
           c == M.recency[i]
<1>0. i \in Nat /\ j \in Nat /\ j = i + 1 /\ \A r \in SlotIds : r \in Nat BY DEF SlotIds
<1>a. M = Visited(m, s, i) /\ N = Visited(m, s, j) OBVIOUS
<1> HIDE DEF M, N, j
<1>b. /\ M \in MetaWords(Tags) /\ M.state = m.state /\ M.h2 = m.h2
      /\ \A r \in SlotIds : M.freq[r] = FreqAfter(m, s, r) /\ M.recency[r] = RecencyAfter(m, s, i, r)
  BY <1>0, VisitedIs DEF M
<1>c. /\ N \in MetaWords(Tags) /\ N.state = m.state /\ N.h2 = m.h2
      /\ \A r \in SlotIds : N.freq[r] = FreqAfter(m, s, r) /\ N.recency[r] = RecencyAfter(m, s, j, r)
  BY <1>0, VisitedIs DEF N
<1>1. /\ M \in MetaWords(Tags) /\ M.state = m.state /\ M.h2 = m.h2
      /\ N \in MetaWords(Tags) /\ N.state = m.state /\ N.h2 = m.h2 /\ Stands(v, M)
  BY <1>a, <1>b, <1>c
<1>2. /\ f \in 0 .. MaxFreq /\ c \in 0 .. MaxRecency
      /\ GetState(v, i) = m.state[i] /\ GetPriority(v, i) = f * (MaxRecency + 1) + c
  BY <1>1 DEF Stands, MetaWords, Priority
<1>3. GetPriority(v, i) % 2^RecencyBits = c BY <1>2, PrioritySplit
<1>4. i # s => c = m.recency[i] BY <1>0, <1>b DEF RecencyAfter
<1>5. CASE i # s /\ m.state[i] = "Full" /\ c > 0
  <2> DEFINE x == f * (MaxRecency + 1) + (c - 1)
  <2>1. c - 1 \in 0 .. MaxRecency BY <1>2, <1>5, Widths
  <2>2. Decay(s, v, i) = WordSetPriority(v, i, GetPriority(v, i) - 1)
    BY <1>2, <1>3, <1>5 DEF Decay
  <2>3. GetPriority(v, i) - 1 = x
    <3>1. f * (MaxRecency + 1) \in Nat BY <1>2, Widths
    <3> QED BY <3>1, <1>2
  <2>4. \A r \in SlotIds : /\ N.freq[r] = IF r = i THEN f ELSE M.freq[r]
                           /\ N.recency[r] = IF r = i THEN c - 1 ELSE M.recency[r]
    <3> SUFFICES ASSUME NEW r \in SlotIds
                 PROVE  /\ N.freq[r] = IF r = i THEN f ELSE M.freq[r]
                        /\ N.recency[r] = IF r = i THEN c - 1 ELSE M.recency[r]
      OBVIOUS
    <3>1. r # i => (r < i <=> r < j) BY <1>0
    <3>2. i < j BY <1>0
    <3>3. N.freq[r] = M.freq[r] BY <1>b, <1>c
    <3>4. r # i => N.recency[r] = M.recency[r] BY <1>b, <1>c, <3>1 DEF RecencyAfter
    <3>5. N.recency[i] = m.recency[i] - 1 BY <1>4, <1>5, <1>c, <3>2 DEF RecencyAfter
    <3> QED BY <3>3, <3>4, <3>5, <1>4, <1>5
  <2>5. x = f * (MaxRecency + 1) + (c - 1) OBVIOUS
  <2> HIDE DEF f, c, x
  <2>6. Stands(WordSetPriority(v, i, x), N) BY <1>1, <1>2, <2>1, <2>4, <2>5, StandsSetPriority
  <2> QED BY <2>2, <2>3, <2>6 DEF N, j
<1>6. CASE ~(i # s /\ m.state[i] = "Full" /\ c > 0)
  <2>1. Decay(s, v, i) = v BY <1>2, <1>3, <1>6 DEF Decay
  <2>2. \A r \in SlotIds : N.freq[r] = M.freq[r] /\ N.recency[r] = M.recency[r]
    <3> SUFFICES ASSUME NEW r \in SlotIds PROVE N.freq[r] = M.freq[r] /\ N.recency[r] = M.recency[r]
      OBVIOUS
    <3>1. r # i => (r < i <=> r < j) BY <1>0
    <3>2. r = i /\ r # s => ~(m.state[r] = "Full" /\ m.recency[r] > 0) BY <1>4, <1>6
    <3>3. N.freq[r] = M.freq[r] BY <1>b, <1>c
    <3>4. N.recency[r] = M.recency[r] BY <1>b, <1>c, <3>1, <3>2 DEF RecencyAfter
    <3> QED BY <3>3, <3>4
  <2>3. Stands(v, N) BY <1>1, <2>2 DEF Stands, Priority
  <2> QED BY <2>1, <2>3 DEF N, j
<1> QED BY <1>5, <1>6

(* A hit: the loop of on_access does to the word what OnAccess does to the *)
(* record.                                                                 *)
LEMMA StandsOnAccess ==
    ASSUME NEW w, NEW m, Stands(w, m), NEW s \in SlotIds
    PROVE  Stands(WordOnAccess(w, s), OnAccess(m, s))
<1> DEFINE L == SlotsPerBucket
           after[n \in 0 .. L] == IF n = 0 THEN Boost(w, s) ELSE Decay(s, after[n - 1], n - 1)
<1>1. WordOnAccess(w, s) = after[L] BY DEF WordOnAccess, Boost, Decay
<1>2. L \in Nat /\ L > 0 /\ m \in MetaWords(Tags) BY Widths DEF Stands
<1> HIDE DEF L
<1>3. after = [n \in 0 .. L |-> IF n = 0 THEN Boost(w, s) ELSE Decay(s, after[n - 1], n - 1)]
  <2> DEFINE D == Nat
             Step == [p \in Nat \X D |-> IF p[1] \in 1 .. L THEN Decay(s, p[2], p[1] - 1) ELSE p[2]]
  <2>1. Step \in [Nat \X D -> D]
    <3> SUFFICES ASSUME NEW n \in Nat, NEW v \in Nat, n \in 1 .. L PROVE Decay(s, v, n - 1) \in Nat
      OBVIOUS
    <3>1. n - 1 \in SlotIds BY <1>2 DEF SlotIds, L
    <3> DEFINE i == n - 1
               p == GetPriority(v, i)
    <3> HIDE DEF i
    <3>2. p \in 0 .. (2^PrioBits - 1) /\ p \in Nat BY <3>1, Widths, Places, BitsType DEF GetPriority, i
    <3>3. 2^RecencyBits \in Nat /\ 2^RecencyBits > 0 /\ 2^PrioBits \in Nat BY Widths
    <3>4. p % 2^RecencyBits > 0 => p - 1 \in 0 .. (2^PrioBits - 1)
      <4>1. p = 0 => p % 2^RecencyBits = 0 BY <3>3, SmallRemainder
      <4> HIDE DEF p
      <4> QED BY <3>2, <3>3, <4>1
    <3> HIDE DEF p
    <3>5. p % 2^RecencyBits > 0 => WordSetPriority(v, i, p - 1) \in Nat BY <3>1, <3>4, SetPriorityIs DEF i
    <3> QED BY <3>5 DEF Decay, i, p
  <2>2. Boost(w, s) \in D BY StandsBoost DEF Stands
  <2> HIDE DEF Step, D
  <2> DEFINE b == Boost(w, s)
  <2> HIDE DEF b
  <2>a. Rounds(D, b, Step, L) # {}
    <3>1. b \in D BY <2>2 DEF b
    <3> QED BY <1>2, <2>1, <3>1, LoopRuns
  <2>3. PICK f \in [0 .. L -> D] : f[0] = Boost(w, s) /\ \A n \in 1 .. L : f[n] = Step[<<n, f[n - 1]>>]
    BY <2>a DEF b, Rounds
  <2>4. ASSUME NEW n \in 0 .. L
        PROVE  f[n] = IF n = 0 THEN Boost(w, s) ELSE Decay(s, f[n - 1], n - 1)
    <3>1. CASE n = 0 BY <3>1, <2>3
    <3>2. CASE n # 0
      <4>1. n \in 1 .. L /\ n \in Nat /\ n - 1 \in 0 .. L BY <3>2, <1>2
      <4>2. f[n - 1] \in D BY <4>1, <2>3
      <4>3. Step[<<n, f[n - 1]>>] = Decay(s, f[n - 1], n - 1) BY <4>1, <4>2 DEF Step
      <4> QED BY <4>1, <4>3, <2>3, <3>2
    <3> QED BY <3>1, <3>2
  <2>5. f = [n \in 0 .. L |-> IF n = 0 THEN Boost(w, s) ELSE Decay(s, f[n - 1], n - 1)]
    BY <2>4
  <2> QED BY <2>5
<1> HIDE DEF after
<1> DEFINE Right(n) == Stands(after[n], Visited(m, s, n))
           S == {n \in 0 .. L : ~Right(n)}
<1>4. S = {}
  <2> SUFFICES ASSUME S # {} PROVE FALSE OBVIOUS
  <2>1. PICK n \in S : \A r \in S : n <= r
    <3>1. S \in SUBSET Nat BY <1>2
    <3> HIDE DEF S
    <3> QED BY <3>1, Least
  <2>2. n \in 0 .. L /\ ~Right(n) OBVIOUS
  <2>3. n # 0
    <3>1. 0 \in 0 .. L BY <1>2
    <3>2. after[0] = Boost(w, s) BY <1>3, <3>1
    <3>3. Right(0) BY <3>2, StandsBoost
    <3> QED BY <2>2, <3>3
  <2>4. n - 1 \in SlotIds /\ n - 1 \in 0 .. L /\ (n - 1) + 1 = n BY <2>2, <2>3, <1>2 DEF SlotIds, L
  <2>5. Right(n - 1) BY <2>1, <2>4
  <2>6. after[n] = Decay(s, after[n - 1], n - 1) BY <1>3, <2>2, <2>3
  <2>7. Right(n) BY <1>2, <2>4, <2>5, <2>6, StandsDecay
  <2> QED BY <2>2, <2>7
<1>5. Right(L) BY <1>2, <1>4
<1>6. Visited(m, s, L) = OnAccess(m, s)
  <2>1. \A r \in SlotIds : r < L BY <1>2 DEF SlotIds, L
  <2> QED BY <2>1 DEF Visited, OnAccess
<1> QED BY <1>1, <1>5, <1>6
-----------------------------------------------------------------------------
(* The searches.                                                           *)

(* An occupied slot is one whose state bits are 01.                        *)
LEMMA FullBits ==
    ASSUME NEW w, NEW m, Stands(w, m), NEW r \in SlotIds
    PROVE  /\ StateBits(w, r) = 1 <=> r \in FullSlots(m)
           /\ GetState(w, r) = "Full" <=> r \in FullSlots(m)
<1>1. GetState(w, r) = "Full" <=> StateBits(w, r) = 1 BY StatesCoded DEF GetState
<1>2. GetState(w, r) = m.state[r] BY DEF Stands
<1> QED BY <1>1, <1>2 DEF FullSlots

(* Both searches for a fingerprint find the occupied slots that have it.   *)
LEMMA MasksAgree ==
    ASSUME NEW w, NEW m, Stands(w, m), NEW h \in Tags
    PROVE  BranchlessMask(w, h) = MatchMask(m, h) /\ SimdMask(w, h) = MatchMask(m, h)
<1>1. h % 2^H2Bits = h BY Widths, SmallRemainder DEF Tags
<1>2. \A r \in SlotIds : GetH2(w, r) = m.h2[r] BY DEF Stands
<1>3. FullSlots(m) \subseteq SlotIds BY DEF FullSlots
<1>4. BranchlessMask(w, h) = MatchMask(m, h)
  BY <1>1, <1>2, <1>3, FullBits DEF BranchlessMask, MatchMask
<1>5. SlotIds \subseteq 0 .. (Lanes - 1) BY PackedAssumption, Widths DEF SlotIds
<1> DEFINE vector == [l \in 0 .. (Lanes - 1) |-> IF l \in SlotIds THEN GetH2(w, l) ELSE 0]
           equal  == {l \in DOMAIN vector : vector[l] = h % 2 ^ H2Bits}
           full   == {s \in SlotIds : StateBits(w, s) = 1}
<1>6. SimdMask(w, h) = (equal \cap SlotIds) \cap full BY DEF SimdMask
<1>7. full = FullSlots(m) BY <1>3, FullBits
<1>8. equal \cap SlotIds = {s \in SlotIds : m.h2[s] = h}
  <2>1. \A s \in SlotIds : s \in DOMAIN vector /\ vector[s] = m.h2[s] BY <1>2, <1>5
  <2> HIDE DEF vector
  <2> QED BY <2>1, <1>1
<1> HIDE DEF equal, full
<1>9. SimdMask(w, h) = MatchMask(m, h) BY <1>3, <1>6, <1>7, <1>8 DEF MatchMask
<1> QED BY <1>4, <1>9

(* The first slot that is not occupied.                                  *)
LEMMA FreeAgree ==
    ASSUME NEW w, NEW m, Stands(w, m)
    PROVE  WordFindFreeSlot(w) = FindFreeSlot(m)
<1>1. {s \in SlotIds : GetState(w, s) # "Full"} = SlotIds \ FullSlots(m) BY FullBits
<1> QED BY <1>1 DEF WordFindFreeSlot, FindFreeSlot

(* The best victim among the slots below n.                                *)
Coldest(m, n, B) ==
    \/ B = {} /\ \A r \in FullSlots(m) : r >= n
    \/ \E b \in FullSlots(m) :
          /\ B = {b} /\ b < n
          /\ \A r \in FullSlots(m) : r < n => /\ Priority(m, b) <= Priority(m, r)
                                              /\ r < b => Priority(m, b) < Priority(m, r)

Visit(w, best, s) ==
    IF GetState(w, s) = "Full" /\ (\A b \in best : GetPriority(w, s) < GetPriority(w, b))
    THEN {s} ELSE best

(* One step of the pass over the slots keeps the best victim so far.     *)
LEMMA ColdestVisit ==
    ASSUME NEW w, NEW m, Stands(w, m), NEW i \in SlotIds, NEW B, Coldest(m, i, B)
    PROVE  Coldest(m, i + 1, Visit(w, B, i))
<1>1. \A r \in FullSlots(m) : r \in SlotIds /\ r \in Nat BY DEF FullSlots, SlotIds
<1>2. i \in Nat BY DEF SlotIds
<1>3. \A r \in SlotIds : Priority(m, r) \in Nat /\ GetPriority(w, r) = Priority(m, r)
  <2> TAKE r \in SlotIds
  <2>1. w \in Nat /\ GetPriority(w, r) = Priority(m, r) BY DEF Stands
  <2> QED BY <2>1, FieldTypes
<1>4. \A r \in FullSlots(m) : r < i + 1 <=> r < i \/ r = i BY <1>1, <1>2
<1>5. CASE i \notin FullSlots(m)
  <2>1. Visit(w, B, i) = B BY <1>5, FullBits DEF Visit
  <2>2. \A r \in FullSlots(m) : (r < i + 1 <=> r < i) /\ (r >= i => r >= i + 1) BY <1>1, <1>2, <1>5
  <2> QED BY <2>1, <2>2 DEF Coldest
<1>6. CASE i \in FullSlots(m) /\ B = {}
  <2>1. Visit(w, B, i) = {i} BY <1>6, FullBits DEF Visit
  <2>2. \A r \in FullSlots(m) : r < i + 1 => r = i BY <1>1, <1>2, <1>6 DEF Coldest
  <2>3. i < i + 1 /\ ~(i < i) /\ Priority(m, i) <= Priority(m, i) BY <1>2, <1>3
  <2> QED BY <2>1, <2>2, <2>3, <1>6 DEF Coldest
<1>7. CASE i \in FullSlots(m) /\ B # {}
  <2>1. PICK b \in FullSlots(m) :
          /\ B = {b} /\ b < i
          /\ \A r \in FullSlots(m) : r < i => /\ Priority(m, b) <= Priority(m, r)
                                              /\ r < b => Priority(m, b) < Priority(m, r)
    BY <1>7 DEF Coldest
  <2>2. Visit(w, B, i) = IF Priority(m, i) < Priority(m, b) THEN {i} ELSE {b}
    <3>1. GetState(w, i) = "Full" BY <1>7, FullBits
    <3>2. GetPriority(w, i) = Priority(m, i) /\ GetPriority(w, b) = Priority(m, b) BY <1>1, <1>3
    <3> QED BY <3>1, <3>2, <2>1 DEF Visit
  <2>3. CASE Priority(m, i) < Priority(m, b)
    <3>1. \A r \in FullSlots(m) : r < i + 1 => /\ Priority(m, i) <= Priority(m, r)
                                               /\ r < i => Priority(m, i) < Priority(m, r)
      BY <1>1, <1>2, <1>3, <1>4, <2>1, <2>3
    <3>2. i < i + 1 BY <1>2
    <3> QED BY <3>1, <3>2, <2>2, <2>3, <1>7 DEF Coldest
  <2>4. CASE ~(Priority(m, i) < Priority(m, b))
    <3>1. \A r \in FullSlots(m) : r < i + 1 => /\ Priority(m, b) <= Priority(m, r)
                                               /\ r < b => Priority(m, b) < Priority(m, r)
      BY <1>1, <1>2, <1>3, <1>4, <2>1, <2>4
    <3>2. b < i + 1 BY <1>1, <1>2, <2>1
    <3> QED BY <3>1, <3>2, <2>2, <2>4 DEF Coldest
  <2> QED BY <2>3, <2>4
<1> QED BY <1>5, <1>6, <1>7

(* The pass of find_evict_target ends with the victim of the record.       *)
LEMMA EvictAgree ==
    ASSUME NEW w, NEW m, Stands(w, m)
    PROVE  WordFindEvictTarget(w) = FindEvictTarget(m)
<1> DEFINE L == SlotsPerBucket
           after[n \in 0 .. L] == IF n = 0 THEN {} ELSE Visit(w, after[n - 1], n - 1)
<1>1. WordFindEvictTarget(w) = after[L] BY DEF WordFindEvictTarget, Visit
<1>2. L \in Nat /\ L > 0 BY Widths
<1> HIDE DEF L
<1>3. after = [n \in 0 .. L |-> IF n = 0 THEN {} ELSE Visit(w, after[n - 1], n - 1)]
  <2> DEFINE D == SUBSET SlotIds
             Step == [p \in Nat \X D |-> IF p[1] \in 1 .. L THEN Visit(w, p[2], p[1] - 1) ELSE p[2]]
             b == {}
  <2>1. Step \in [Nat \X D -> D]
    <3> SUFFICES ASSUME NEW n \in Nat, NEW B \in D, n \in 1 .. L PROVE Visit(w, B, n - 1) \in D
      OBVIOUS
    <3>1. n - 1 \in SlotIds BY <1>2 DEF SlotIds, L
    <3> QED BY <3>1 DEF Visit
  <2>2. b \in D OBVIOUS
  <2> HIDE DEF Step, D, b
  <2>3. Rounds(D, b, Step, L) # {} BY <1>2, <2>1, <2>2, LoopRuns
  <2>4. PICK f \in [0 .. L -> D] : f[0] = {} /\ \A n \in 1 .. L : f[n] = Step[<<n, f[n - 1]>>]
    BY <2>3 DEF b, Rounds
  <2>5. ASSUME NEW n \in 0 .. L
        PROVE  f[n] = IF n = 0 THEN {} ELSE Visit(w, f[n - 1], n - 1)
    <3>1. CASE n = 0 BY <3>1, <2>4
    <3>2. CASE n # 0
      <4>1. n \in 1 .. L /\ n \in Nat /\ n - 1 \in 0 .. L BY <3>2, <1>2
      <4>2. f[n - 1] \in D BY <4>1, <2>4
      <4>3. Step[<<n, f[n - 1]>>] = Visit(w, f[n - 1], n - 1) BY <4>1, <4>2 DEF Step
      <4> QED BY <4>1, <4>3, <2>4, <3>2
    <3> QED BY <3>1, <3>2
  <2>6. f = [n \in 0 .. L |-> IF n = 0 THEN {} ELSE Visit(w, f[n - 1], n - 1)]
    BY <2>5
  <2> QED BY <2>6
<1> HIDE DEF after
<1> DEFINE Right(n) == Coldest(m, n, after[n])
           S == {n \in 0 .. L : ~Right(n)}
<1>4. S = {}
  <2> SUFFICES ASSUME S # {} PROVE FALSE OBVIOUS
  <2>1. PICK n \in S : \A r \in S : n <= r
    <3>1. S \in SUBSET Nat BY <1>2
    <3> HIDE DEF S
    <3> QED BY <3>1, Least
  <2>2. n \in 0 .. L /\ ~Right(n) OBVIOUS
  <2>3. n # 0
    <3>1. 0 \in 0 .. L BY <1>2
    <3>2. after[0] = {} BY <1>3, <3>1
    <3>3. \A r \in FullSlots(m) : r >= 0 BY DEF FullSlots, SlotIds
    <3>4. Right(0) BY <3>2, <3>3 DEF Coldest
    <3> QED BY <2>2, <3>4
  <2>4. n - 1 \in SlotIds /\ n - 1 \in 0 .. L /\ (n - 1) + 1 = n BY <2>2, <2>3, <1>2 DEF SlotIds, L
  <2>5. Right(n - 1)
    <3>1. n - 1 \notin S BY <2>1, <2>2, <2>4
    <3> HIDE DEF Right
    <3> QED BY <3>1, <2>4
  <2>6. after[n] = Visit(w, after[n - 1], n - 1) BY <1>3, <2>2, <2>3
  <2>7. Right(n) BY <2>4, <2>5, <2>6, ColdestVisit
  <2> QED BY <2>2, <2>7
<1>5. Coldest(m, L, after[L])
  <2>1. L \in 0 .. L BY <1>2
  <2> HIDE DEF Right
  <2>2. Right(L) BY <2>1, <1>4
  <2> QED BY <2>2 DEF Right
<1>6. \A r \in FullSlots(m) : r \in SlotIds /\ r \in Nat /\ r < L BY <1>2 DEF FullSlots, SlotIds, L
<1>7. \A r \in SlotIds : Priority(m, r) \in Nat
  <2> TAKE r \in SlotIds
  <2>1. w \in Nat /\ GetPriority(w, r) = Priority(m, r) BY DEF Stands
  <2> QED BY <2>1, FieldTypes
<1>8. CASE FullSlots(m) = {}
  <2>1. after[L] = {} BY <1>5, <1>8 DEF Coldest
  <2>2. FindEvictTarget(m) = {} BY <1>8 DEF FindEvictTarget, First
  <2> QED BY <1>1, <2>1, <2>2
<1>9. CASE FullSlots(m) # {}
  <2>1. PICK b \in FullSlots(m) :
          /\ after[L] = {b}
          /\ \A r \in FullSlots(m) : /\ Priority(m, b) <= Priority(m, r)
                                     /\ r < b => Priority(m, b) < Priority(m, r)
    <3>1. ~ \A r \in FullSlots(m) : r >= L BY <1>2, <1>6, <1>9
    <3> QED BY <3>1, <1>5, <1>6 DEF Coldest
  <2> DEFINE C == {s \in FullSlots(m) : \A r \in FullSlots(m) : Priority(m, s) <= Priority(m, r)}
  <2>2. b \in C BY <2>1
  <2>3. \A c \in C : Priority(m, c) <= Priority(m, b) /\ ~(c < b)
    <3> TAKE c \in C
    <3>1. c \in FullSlots(m) /\ Priority(m, c) <= Priority(m, b) OBVIOUS
    <3> QED BY <3>1, <2>1, <1>6, <1>7
  <2>4. First(C) = {b}
    <3>1. C \subseteq FullSlots(m) OBVIOUS
    <3> HIDE DEF C
    <3>2. \A c \in C : c \in Nat /\ b \in Nat BY <3>1, <1>6
    <3>3. b \in First(C) BY <2>2, <2>3, <3>2 DEF First
    <3>4. \A c \in First(C) : c = b BY <2>2, <2>3, <3>2 DEF First
    <3> QED BY <3>3, <3>4
  <2>5. FindEvictTarget(m) = First(C) BY DEF FindEvictTarget
  <2> QED BY <1>1, <2>1, <2>4, <2>5
<1> QED BY <1>8, <1>9
-----------------------------------------------------------------------------
(* The metadata of a bucket in use: the word stands for the record, and a  *)
(* thread inside on_access has loaded some word for some slot.             *)
Accesses == [slot : 0 .. SlotsPerBucket, seen : Nat]

WordInv ==
    /\ types \in Types
    /\ Stands(word, meta)
    /\ access \in [Threads -> Accesses]
    /\ \A t \in Threads : access[t] # Idle => access[t].slot \in SlotIds

(* The hash of a key of this map has a fingerprint.                        *)
LEMMA KeyHash ==
    ASSUME types \in Types, NEW k \in K
    PROVE  /\ Hash(ToBytes(types.key, k)).h2 \in Tags
           /\ Hash(ToBytes(types.key, k)).hi \in 0 .. (ModeBit - 1)
           /\ Hash(ToBytes(types.key, k)).fp \in 0 .. (Limit(FpBytes) - 1)
BY BytesAssumption DEF K, Tags

(* The zero word is the empty record.                                    *)
LEMMA WordInit == Init => WordInv
<1> SUFFICES ASSUME Init PROVE WordInv OBVIOUS
<1>1. Stands(word, meta) BY StandsEmpty DEF Init
<1>2. Idle \in Accesses BY Widths DEF Idle, Accesses
<1> QED BY <1>1, <1>2 DEF Init, WordInv

(* Every call does to the word what it does to the record.               *)
LEMMA WordNext == WordInv /\ [Next]_vars => WordInv'
<1> SUFFICES ASSUME WordInv, [Next]_vars PROVE WordInv' OBVIOUS
<1>0. types \in Types /\ Stands(word, meta) /\ word \in Nat BY DEF WordInv, Stands
<1>1. ASSUME NEW k \in K, NEW v \in V, Rewritten(k, v) PROVE WordInv'
  <2>1. PICK s \in First(Lookup(k)) : word' = WordOnAccess(word, s) /\ meta' = OnAccess(meta, s)
    BY <1>1 DEF Rewritten
  <2>2. s \in SlotIds BY DEF First, Lookup, BranchlessMask
  <2>3. Stands(word', meta') BY <1>0, <2>1, <2>2, StandsOnAccess
  <2>4. UNCHANGED <<types, access>> BY <1>1 DEF Rewritten
  <2> QED BY <2>3, <2>4 DEF WordInv, Idle
<1>2. ASSUME NEW k \in K, NEW v \in V, Inserted(k, v) PROVE WordInv'
  <2> DEFINE h == Hash(ToBytes(types.key, k)).h2
  <2>1. PICK s \in (IF WordFindFreeSlot(word) # {} THEN WordFindFreeSlot(word) ELSE WordFindEvictTarget(word)) :
          /\ word' = WordOnInsert(WordSetH2(WordSetState(word, s, "Full"), s, h), s)
          /\ meta' = OnInsert(SetH2(SetState(meta, s, "Full"), s, h), s)
    BY <1>2 DEF Inserted
  <2>2. s \in SlotIds
    <3>1. FindFreeSlot(meta) \subseteq SlotIds /\ FindEvictTarget(meta) \subseteq SlotIds
      BY DEF FindFreeSlot, FindEvictTarget, First, FullSlots
    <3> QED BY <3>1, <1>0, FreeAgree, EvictAgree
  <2>3. h \in Tags /\ "Full" \in SlotStates BY <1>0, KeyHash DEF SlotStates
  <2> HIDE DEF h
  <2>4. Stands(WordSetState(word, s, "Full"), SetState(meta, s, "Full")) BY <1>0, <2>2, <2>3, StandsSetState
  <2>5. Stands(WordSetH2(WordSetState(word, s, "Full"), s, h), SetH2(SetState(meta, s, "Full"), s, h))
    BY <2>2, <2>3, <2>4, StandsSetH2
  <2>6. Stands(word', meta') BY <2>1, <2>2, <2>5, StandsOnInsert
  <2>7. UNCHANGED <<types, access>> BY <1>2 DEF Inserted
  <2> QED BY <2>6, <2>7 DEF WordInv, Idle
<1>3. ASSUME NEW k \in K, Removed(k) PROVE WordInv'
  <2>1. PICK s \in First(Lookup(k)) : word' = WordSetState(word, s, "Tombstone") /\ meta' = SetState(meta, s, "Tombstone")
    BY <1>3 DEF Removed
  <2>2. s \in SlotIds /\ "Tombstone" \in SlotStates BY DEF First, Lookup, BranchlessMask, SlotStates
  <2>3. Stands(word', meta') BY <1>0, <2>1, <2>2, StandsSetState
  <2>4. UNCHANGED <<types, access>> BY <1>3 DEF Removed
  <2> QED BY <2>3, <2>4 DEF WordInv, Idle
<1>4. ASSUME NEW t \in Threads, NEW s \in SlotIds, AccessLoad(t, s) PROVE WordInv'
  <2>1. UNCHANGED <<types, word, meta>> /\ access' = [access EXCEPT ![t] = [slot |-> s, seen |-> word]]
    BY <1>4 DEF AccessLoad
  <2>2. [slot |-> s, seen |-> word] \in Accesses BY <1>0, Widths DEF Accesses, SlotIds
  <2> QED BY <2>1, <2>2 DEF WordInv, Idle
<1>5. ASSUME NEW t \in Threads, AccessCas(t) PROVE WordInv'
  <2>1. /\ word' = WordOnAccess(word, access[t].slot) /\ meta' = OnAccess(meta, access[t].slot)
        /\ access' = [access EXCEPT ![t] = Idle] /\ types' = types /\ access[t] # Idle
    BY <1>5 DEF AccessCas
  <2>2. access[t].slot \in SlotIds BY <2>1 DEF WordInv
  <2>3. Stands(word', meta') BY <1>0, <2>1, <2>2, StandsOnAccess
  <2>4. Idle \in Accesses BY Widths DEF Idle, Accesses
  <2>5. access' \in [Threads -> Accesses] /\ \A u \in Threads : access'[u] # Idle => access[u] = access'[u]
    BY <2>1, <2>4 DEF WordInv
  <2>6. \A u \in Threads : access'[u] # Idle => access'[u].slot \in SlotIds BY <2>5 DEF WordInv
  <2> QED BY <2>1, <2>3, <2>5, <2>6 DEF WordInv, Idle
<1>6. ASSUME NEW t \in Threads, AccessRetry(t) PROVE WordInv'
  <2>1. /\ UNCHANGED <<types, word, meta>> /\ access' = [access EXCEPT ![t].seen = word] /\ access[t] # Idle
    BY <1>6 DEF AccessRetry
  <2>2. access[t] \in Accesses /\ access[t].slot \in SlotIds /\ access \in [Threads -> Accesses]
    BY <2>1 DEF WordInv
  <2>3. access'[t] = [access[t] EXCEPT !.seen = word] BY <2>1, <2>2
  <2>4. access'[t] \in Accesses /\ access'[t].slot = access[t].slot BY <2>2, <2>3, <1>0 DEF Accesses
  <2>5. access' \in [Threads -> Accesses] /\ \A u \in Threads \ {t} : access'[u] = access[u]
    BY <2>1, <2>2, <2>4
  <2>6. \A u \in Threads : access'[u] # Idle => access'[u].slot \in SlotIds BY <2>2, <2>4, <2>5 DEF WordInv
  <2> QED BY <2>1, <2>5, <2>6 DEF WordInv, Idle
<1>7. CASE UNCHANGED vars BY <1>7 DEF vars, WordInv, Idle
<1> QED BY <1>1, <1>2, <1>3, <1>4, <1>5, <1>6, <1>7 DEF Next

(* The word stands for the record in every reachable state.              *)
THEOREM WordInvariant == Spec => []WordInv
BY WordInit, WordNext, PTL DEF Spec

(* For every width of the fields and every number of slots and threads,    *)
(* the packed word is the record that the calls make one after the other:  *)
(* no setter spills over and no on_access is lost (engine/meta.rs).        *)
THEOREM BytesWordIsRecord == Spec => []WordIsRecord
<1>1. WordInv => WordIsRecord BY StandsUnpacks DEF WordInv, WordIsRecord, Stands
<1> QED BY <1>1, WordInvariant, PTL

(* The searches on the word find what their definitions on the record say; *)
(* the scalar and the vector search agree (meta.rs, simd.rs).              *)
THEOREM BytesSearchesAgree == Spec => []SearchesAgree
<1>1. WordInv => SearchesAgree
  BY MasksAgree, FreeAgree, EvictAgree DEF WordInv, SearchesAgree, Tags
<1> QED BY <1>1, WordInvariant, PTL
-----------------------------------------------------------------------------
(* Numbers as bytes.                                                       *)

(* One more byte holds ByteSize times as many numbers.                     *)
LEMMA Limits ==
    ASSUME NEW n \in Nat, NEW j, j = n + 1
    PROVE  /\ Limit(n) \in Nat /\ Limit(n) > 0 /\ Limit(j) = Limit(n) * ByteSize
           /\ ByteSize \in Nat /\ ByteSize > 1 /\ Limit(0) = 1
<1>0. ByteBits \in Nat /\ ByteBits > 0 BY CodecAssumption
<1>1. ByteBits * n \in Nat /\ ByteBits * j = ByteBits * n + ByteBits /\ ByteBits * 0 = 0 BY <1>0
<1> DEFINE a == ByteBits * n
<1>2. a \in Nat BY <1>1
<1> HIDE DEF a
<1>3. 2^a \in Nat /\ 2^a > 0 /\ 2^(a + ByteBits) = 2^a * 2^ByteBits BY <1>0, <1>2, Powers
<1>4. ByteSize \in Nat /\ ByteSize > 1 BY <1>0, PowerIs DEF ByteSize
<1>5. Limit(0) = 1
  <2>1. 2^0 \in Nat /\ 2^0 > 0 /\ 2^(0 + 0) = 2^0 * 2^0 BY Powers
  <2> DEFINE z == 2^0
  <2>2. z \in Nat /\ z > 0 /\ z = z * z BY <2>1
  <2> HIDE DEF z
  <2>3. z = 1 BY <2>2
  <2> QED BY <2>3, <1>1 DEF z, Limit
<1> QED BY <1>1, <1>3, <1>4, <1>5 DEF a, Limit, ByteSize

(* The low bytes of a number, and the next one.                            *)
LEMMA NextByte ==
    ASSUME NEW x \in Nat, NEW n \in Nat, NEW j, j = n + 1
    PROVE  x % Limit(j) = (x % Limit(n)) + ((x \div Limit(n)) % ByteSize) * Limit(n)
<1> DEFINE L == Limit(n)
           B == ByteSize
           q == x \div L
           r == x % L
           q2 == q \div B
           r2 == q % B
<1>1. L \in Nat /\ L > 0 /\ B \in Nat /\ B > 0 /\ Limit(j) = L * B BY Limits
<1> HIDE DEF L, B
<1>2. q \in Nat /\ r \in 0 .. (L - 1) /\ x = L * q + r BY <1>1, DivMod
<1> HIDE DEF q, r
<1>3. q2 \in Nat /\ r2 \in 0 .. (B - 1) /\ q = B * q2 + r2 BY <1>1, <1>2, DivMod
<1> HIDE DEF q2, r2
<1> DEFINE t == r2 * L
           y == t + r
           M == L * B
<1>4. t \in Nat /\ M \in Nat /\ M > 0 BY <1>1, <1>3
<1>5. t + L <= M
  <2>1. r2 + 1 <= B /\ (r2 + 1) * L = t + L BY <1>1, <1>3
  <2>2. (r2 + 1) * L <= B * L BY <2>1, <1>1, <1>3
  <2> QED BY <2>1, <2>2, <1>1
<1>6. x = M * q2 + y
  <2>1. L * q = L * (B * q2) + L * r2 BY <1>1, <1>3
  <2>2. L * (B * q2) = M * q2 /\ L * r2 = t BY <1>1, <1>3
  <2>3. M * q2 \in Nat /\ L * q \in Nat BY <1>1, <1>2, <1>3, <1>4
  <2> HIDE DEF t, M
  <2> QED BY <2>1, <2>2, <2>3, <1>2, <1>4
<1> HIDE DEF t, M
<1>7. y \in 0 .. (M - 1) BY <1>1, <1>2, <1>4, <1>5
<1> HIDE DEF y
<1>8. x % M = y BY <1>3, <1>4, <1>6, <1>7, RemainderIs
<1> QED BY <1>1, <1>8 DEF M, y, t, L, B, r, r2, q

(* from_le_bytes after to_le_bytes.                                        *)
LEMMA LittleEndian ==
    ASSUME NEW x \in Nat, NEW w \in Nat, NEW b, b = ToLe(x, w)
    PROVE  b \in Seq(Bytes) /\ Len(b) = w /\ FromLe(b) = x % Limit(w)
<1> DEFINE T(n) == (x \div Limit(n - 1)) % ByteSize
<1>1. \A n \in 1 .. w : T(n) \in Bytes
  <2> TAKE n \in 1 .. w
  <2> DEFINE i == n - 1
             q == x \div Limit(i)
  <2>1. i \in Nat /\ n = i + 1 OBVIOUS
  <2> HIDE DEF i
  <2>2. Limit(i) \in Nat /\ Limit(i) > 0 /\ ByteSize \in Nat /\ ByteSize > 1 BY <2>1, Limits
  <2>3. q \in Nat BY <2>2, DivMod
  <2> HIDE DEF q
  <2>4. q % ByteSize \in 0 .. (ByteSize - 1) BY <2>2, <2>3, DivMod
  <2> QED BY <2>4 DEF q, i, Bytes
<1>2. b = [n \in 1 .. w |-> T(n)] BY DEF ToLe
<1> HIDE DEF T
<1>3. b \in [1 .. w -> Bytes] BY <1>1, <1>2
<1>4. b \in Seq(Bytes) /\ Len(b) = w BY <1>3, SeqDef
<1> DEFINE sum[n \in 0 .. Len(b)] == IF n = 0 THEN 0 ELSE sum[n - 1] + b[n] * Limit(n - 1)
           f == [n \in 0 .. w |-> x % Limit(n)]
<1>5. FromLe(b) = sum[Len(b)] BY DEF FromLe
<1>6. x % Limit(0) = 0
  <2>1. Limit(0) = 1 BY Limits
  <2> QED BY <2>1
<1>7. ASSUME NEW n \in 1 .. w
      PROVE  x % Limit(n) = (x % Limit(n - 1)) + b[n] * Limit(n - 1)
  <2>1. n - 1 \in Nat /\ n = (n - 1) + 1 OBVIOUS
  <2>2. b[n] = T(n) BY <1>2
  <2> QED BY <2>1, <2>2, NextByte DEF T
<1>8. \A n \in 0 .. w : f[n] = IF n = 0 THEN 0 ELSE f[n - 1] + b[n] * Limit(n - 1)
  <2> TAKE n \in 0 .. w
  <2>1. CASE n = 0 BY <2>1, <1>6
  <2>2. CASE n # 0
    <3>1. n \in 1 .. w /\ n - 1 \in 0 .. w BY <2>2
    <3> QED BY <2>2, <3>1, <1>7
  <2> QED BY <2>1, <2>2
<1>9. sum = [n \in 0 .. w |-> IF n = 0 THEN 0 ELSE sum[n - 1] + b[n] * Limit(n - 1)]
  <2>1. f = [n \in 0 .. w |-> IF n = 0 THEN 0 ELSE f[n - 1] + b[n] * Limit(n - 1)]
    BY <1>8
  <2> HIDE DEF f
  <2> QED BY <2>1, <1>4
<1> HIDE DEF sum
<1> DEFINE S == {n \in 0 .. w : sum[n] # x % Limit(n)}
<1>10. S = {}
  <2> SUFFICES ASSUME S # {} PROVE FALSE OBVIOUS
  <2>1. PICK n \in S : \A r \in S : n <= r
    <3>1. S \in SUBSET Nat OBVIOUS
    <3> HIDE DEF S
    <3> QED BY <3>1, Least
  <2>2. n \in 0 .. w /\ sum[n] # x % Limit(n) OBVIOUS
  <2>3. n # 0 BY <1>6, <1>9, <2>2
  <2>4. n \in 1 .. w /\ n - 1 \in 0 .. w BY <2>2, <2>3
  <2>5. sum[n - 1] = x % Limit(n - 1) BY <2>1, <2>4
  <2>6. sum[n] = sum[n - 1] + b[n] * Limit(n - 1) BY <1>9, <2>2, <2>3
  <2> QED BY <1>7, <2>2, <2>4, <2>5, <2>6
<1>11. sum[w] = x % Limit(w) BY <1>10
<1> QED BY <1>4, <1>5, <1>11

(* Every conversion of a typed value to bytes is undone (src/lib.rs).      *)
LEMMA RoundTrip ==
    ASSUME NEW t, NEW x, WellTyped(t, x), NEW b, b = ToBytes(t, x)
    PROVE  b \in Seq(Bytes) /\ FromBytes(t, b) = {x}
<1> DEFINE w == t.width
           L == Limit(w)
<1>1. CASE t.kind = "uint"
  <2>1. w \in Nat /\ w > 0 /\ x \in Nat /\ x \in 0 .. (L - 1) /\ b = ToLe(x, w)
    BY <1>1 DEF WellTyped, ToBytes
  <2> HIDE DEF w
  <2>2. b \in Seq(Bytes) /\ Len(b) = w /\ FromLe(b) = x % L BY <2>1, LittleEndian
  <2>3. L \in Nat /\ L > 0 /\ x % L = x BY <2>1, Limits, SmallRemainder
  <2>4. CASE w = 1
    <3>1. b[1] = (x \div Limit(0)) % ByteSize /\ DOMAIN b = 1 .. 1 BY <2>1, <2>4 DEF ToLe
    <3>2. Limit(0) = 1 /\ Limit(1) = Limit(0) * ByteSize /\ ByteSize \in Nat BY Limits
    <3>3. x \div Limit(0) = x BY <2>1, <3>2
    <3>4. Limit(1) = ByteSize BY <3>2
    <3>5. b[1] = x BY <2>3, <2>4, <3>1, <3>3, <3>4
    <3>6. FromBytes(t, b) = {b[i] : i \in DOMAIN b \cap {1}} BY <1>1, <2>4 DEF FromBytes, w
    <3>7. DOMAIN b \cap {1} = {1} BY <3>1
    <3> QED BY <2>2, <3>5, <3>6, <3>7
  <2>5. CASE w # 1
    <3>1. w > 1 BY <2>1, <2>5
    <3>2. FromBytes(t, b) = IF Len(b) = w THEN {FromLe(b)} ELSE {} BY <1>1, <2>1, <3>1 DEF FromBytes, w
    <3> QED BY <2>2, <2>3, <3>2
  <2> QED BY <2>4, <2>5
<1>2. CASE t.kind = "int"
  <2> DEFINE u == x % L
  <2>1. /\ w \in Nat /\ w > 0 /\ x \in Int /\ -L <= 2 * x /\ 2 * x < L /\ b = ToLe(u, w)
    BY <1>2 DEF WellTyped, ToBytes
  <2>2. FromBytes(t, b) = IF Len(b) = w THEN {Signed(FromLe(b), w)} ELSE {} BY <1>2 DEF FromBytes
  <2> HIDE DEF w
  <2>3. L \in Nat /\ L > 0 BY <2>1, Limits
  <2>4. u = IF x < 0 THEN x + L ELSE x
    <3> HIDE DEF L
    <3>1. CASE x < 0
      <4>1. -L <= x BY <2>1, <2>3, <3>1
      <4> QED BY <2>1, <2>3, <3>1, <4>1, NegativeRemainder
    <3>2. CASE ~(x < 0)
      <4>1. x \in 0 .. (L - 1) BY <2>1, <2>3, <3>2
      <4> QED BY <2>3, <3>2, <4>1, SmallRemainder
    <3> QED BY <3>1, <3>2
  <2> HIDE DEF u
  <2>5. u \in Nat /\ u \in 0 .. (L - 1)
    <3> HIDE DEF L
    <3> QED BY <2>1, <2>3, <2>4
  <2>6. b \in Seq(Bytes) /\ Len(b) = w /\ FromLe(b) = u % L BY <2>1, <2>5, LittleEndian
  <2>7. u % L = u BY <2>3, <2>5, SmallRemainder
  <2>8. Signed(u, w) = x
    <3>1. Signed(u, w) = IF 2 * u >= L THEN u - L ELSE u BY DEF Signed
    <3> HIDE DEF L
    <3> QED BY <2>1, <2>3, <2>4, <3>1
  <2> QED BY <2>2, <2>6, <2>7, <2>8
<1>3. CASE t.kind = "bool"
  <2>1. x \in BOOLEAN /\ b = <<IF x THEN 1 ELSE 0>> BY <1>3 DEF WellTyped, ToBytes
  <2>2. FromBytes(t, b) = {b[i] # 0 : i \in DOMAIN b \cap {1}} BY <1>3 DEF FromBytes
  <2>3. ByteSize \in Nat /\ ByteSize > 1 BY Limits
  <2>4. DOMAIN b \cap {1} = {1} BY <2>1
  <2>5. FromBytes(t, b) = {b[1] # 0} BY <2>2, <2>4
  <2>6. CASE x = TRUE
    <3>1. b = <<1>> BY <2>1, <2>6
    <3>2. 1 \in Bytes BY <2>3 DEF Bytes
    <3>3. (b[1] # 0) = TRUE BY <3>1
    <3>4. b \in Seq(Bytes) BY <3>1, <3>2
    <3>5. {b[1] # 0} = {x} BY <3>3, <2>6, Zenon
    <3> QED BY <2>5, <3>4, <3>5, Zenon
  <2>7. CASE x = FALSE
    <3>1. b = <<0>> BY <2>1, <2>7
    <3>2. 0 \in Bytes BY <2>3 DEF Bytes
    <3>3. (b[1] # 0) = FALSE BY <3>1
    <3>4. b \in Seq(Bytes) BY <3>1, <3>2
    <3>5. {b[1] # 0} = {x} BY <3>3, <2>7, Zenon
    <3> QED BY <2>5, <3>4, <3>5, Zenon
  <2> QED BY <2>1, <2>6, <2>7
<1>4. CASE t.kind = "string"
  <2>1. x \in Seq(Bytes) /\ Utf8(x) /\ b = x BY <1>4 DEF WellTyped, ToBytes
  <2>2. FromBytes(t, b) = IF Utf8(b) THEN {b} ELSE {} BY <1>4 DEF FromBytes
  <2> QED BY <2>1, <2>2
<1>5. CASE t.kind = "vec"
  <2>1. x \in Seq(Bytes) /\ b = x BY <1>5 DEF WellTyped, ToBytes
  <2>2. FromBytes(t, b) = {b} BY <1>5 DEF FromBytes
  <2> QED BY <2>1, <2>2
<1>6. CASE t.kind = "array"
  <2>1. x \in Seq(Bytes) /\ Len(x) = w /\ b = x BY <1>6 DEF WellTyped, ToBytes
  <2>2. FromBytes(t, b) = IF Len(b) = w THEN {b} ELSE {} BY <1>6 DEF FromBytes
  <2> QED BY <2>1, <2>2
<1> QED BY <1>1, <1>2, <1>3, <1>4, <1>5, <1>6 DEF WellTyped
-----------------------------------------------------------------------------
(* Slots.                                                                  *)

(* A stretch of bytes is known by its bytes.                               *)
LEMMA Stretch ==
    ASSUME NEW d, NEW S, NEW b \in Seq(S), NEW m \in Int, NEW n \in Int, n = m + Len(b) - 1,
           \A i \in 1 .. Len(b) : d[m + i - 1] = b[i]
    PROVE  SubSeq(d, m, n) = b
<1>1. Len(b) \in Nat /\ \A i \in 1 .. Len(b) : b[i] \in S BY LenProperties, ElementOfSeq
<1>2. \A i \in m .. n : d[i] \in S
  <2> TAKE i \in m .. n
  <2> DEFINE j == i - m + 1
  <2>1. j \in 1 .. Len(b) /\ i = m + j - 1 BY <1>1
  <2> HIDE DEF j
  <2> QED BY <2>1, <1>1
<1>3. /\ SubSeq(d, m, n) \in Seq(S) /\ Len(SubSeq(d, m, n)) = IF m <= n THEN n - m + 1 ELSE 0
      /\ \A i \in 1 .. (n - m + 1) : SubSeq(d, m, n)[i] = d[m + i - 1]
  BY <1>2, SubSeqProperties
<1>4. Len(SubSeq(d, m, n)) = Len(b) /\ n - m + 1 = Len(b) BY <1>1, <1>3
<1>5. \A i \in 1 .. Len(b) : SubSeq(d, m, n)[i] = b[i] BY <1>3, <1>4
<1> DEFINE s == SubSeq(d, m, n)
<1>6. s \in Seq(S) /\ Len(s) = Len(b) /\ \A i \in 1 .. Len(s) : s[i] = b[i] BY <1>3, <1>4, <1>5
<1> HIDE DEF s
<1>7. s = b BY <1>6, SeqEqual
<1> QED BY <1>7 DEF s

(* The sizes in a slot, all from the width of a length.                    *)
LEMMA SlotSizes ==
    ASSUME NEW P, P = 2^LenBits
    PROVE  /\ P \in Nat /\ P >= 2 /\ 2^(LenBits + 1) = 2 * P /\ ModeBit = 2 * (P * P)
           /\ KeyMax = P - 2 /\ ValMax = P - 1 /\ SlotSize = 2 * P - 2
           /\ FpBytes \in Nat /\ IdxBytes \in Nat /\ SlotSize = 2 + FpBytes + IdxBytes
<1>1. LenBits \in Nat /\ LenBits > 0 /\ FpBytes \in Nat /\ IdxBytes \in Nat BY SlotAssumption
<1>2. P \in Nat /\ P >= 2 BY <1>1, PowerIs
<1>3. 2^(LenBits + 1) = 2 * P BY <1>1, PowerStep
<1>4. 2^(LenBits + LenBits) = P * P BY <1>1, PowerTimes
<1>5. ModeBit = 2 * (P * P)
  <2>1. LenBits + LenBits \in Nat /\ 2 * LenBits + 1 = (LenBits + LenBits) + 1 BY <1>1
  <2>2. 2^((LenBits + LenBits) + 1) = 2 * 2^(LenBits + LenBits) BY <2>1, PowerStep
  <2> QED BY <1>4, <2>1, <2>2 DEF ModeBit
<1>6. KeyMax = P - 2 /\ ValMax = P - 1 BY DEF KeyMax, ValMax
<1>7. SlotSize = 2 * P - 2 BY <1>2, <1>6 DEF SlotSize
<1> QED BY <1>1, <1>2, <1>3, <1>5, <1>6, <1>7 DEF IdxBytes

(* The three fields of the header byte of an inline slot.                  *)
LEMMA InlineHeader ==
    ASSUME NEW a \in 0 .. KeyMax, NEW c \in 0 .. ValMax, NEW d,
           d[1] = a * 2^(LenBits + 1) + (c % 2^LenBits) * 2
    PROVE  Mode(d) = 0 /\ KeyLen(d) = a /\ ValLen(d) = c
<1> DEFINE P == 2^LenBits
           Q == 2^(LenBits + 1)
           M == ModeBit
           h == d[1]
<1>a. /\ P \in Nat /\ P >= 2 /\ Q = 2 * P /\ M = 2 * (P * P) /\ a \in 0 .. (P - 2) /\ c \in 0 .. (P - 1)
  BY SlotSizes
<1>b. h = a * Q + c * 2
  <2>1. c % P = c BY <1>a, SmallRemainder
  <2> QED BY <2>1
<1>c. /\ Mode(d) = h \div M /\ KeyLen(d) = (h \div Q) % P /\ ValLen(d) = (h \div 2) % P
  BY DEF Mode, KeyLen, ValLen
<1> HIDE DEF P, Q, M, h
<1> DEFINE e == a * P
           g == e + c
<1>1. Q \in Nat /\ Q > 0 /\ a \in Nat /\ c \in Nat /\ e \in Nat BY <1>a
<1>2. h = Q * a + 2 * c /\ 2 * c \in 0 .. (Q - 1) /\ h \in Nat BY <1>a, <1>b
<1>3. h = 2 * g BY <1>1, <1>a, <1>b
<1>4. h < M
  <2> DEFINE pp == P * P
  <2>1. (P - 2) * P = pp - 2 * P /\ pp \in Nat BY <1>a
  <2>2. e <= (P - 2) * P BY <1>a
  <2>3. M = 2 * pp BY <1>a
  <2> HIDE DEF pp, e
  <2> QED BY <1>1, <1>3, <1>a, <2>1, <2>2, <2>3
<1>5. M \in Nat /\ M > 0 BY <1>a
<1>6. h \div M = 0
  <2>1. h = M * 0 + h /\ h \in 0 .. (M - 1) BY <1>2, <1>4, <1>5
  <2> QED BY <1>2, <1>5, <2>1, QuotientIs
<1>7. h \div Q = a
  <2> DEFINE r == 2 * c
  <2>1. h = Q * a + r /\ r \in 0 .. (Q - 1) /\ h \in Nat BY <1>2
  <2> HIDE DEF r
  <2> QED BY <1>1, <2>1, QuotientIs
<1>8. h \div 2 = g
  <2>1. h = 2 * g + 0 /\ 0 \in 0 .. (2 - 1) /\ g \in Int /\ 2 > 0 /\ 2 \in Nat BY <1>1, <1>3
  <2> HIDE DEF g
  <2> QED BY <1>2, <2>1, QuotientIs
<1>9. a % P = a BY <1>a, SmallRemainder
<1>10. g % P = c
  <2>1. g = P * a + c /\ g \in Nat BY <1>1, <1>a
  <2> HIDE DEF g
  <2> QED BY <1>1, <1>a, <2>1, RemainderIs
<1> QED BY <1>c, <1>6, <1>7, <1>8, <1>9, <1>10

(* A slot in inline mode gives back the key and the value (slot.rs).       *)
LEMMA InlineRead ==
    ASSUME NEW k \in Seq(Bytes), NEW v \in Seq(Bytes), Len(k) <= KeyMax, Len(v) <= ValMax,
           NEW d, d = SetInline(k, v)
    PROVE  Mode(d) = 0 /\ InlineKey(d) = k /\ InlineValue(d) = v
<1> DEFINE P == 2^LenBits
           Q == 2^(LenBits + 1)
           a == Len(k)
           c == Len(v)
           h == a * Q + (c % P) * 2
           Z == [Zeroed EXCEPT ![1] = h]
           D == Copied(Z, 1, k)
<1>1. /\ P \in Nat /\ P >= 2 /\ Q = 2 * P /\ ModeBit = 2 * (P * P)
      /\ KeyMax = P - 2 /\ ValMax = P - 1 /\ SlotSize = 2 * P - 2
  BY SlotSizes
<1>2. a \in 0 .. (P - 2) /\ c \in 0 .. (P - 1) /\ DOMAIN k = 1 .. a /\ DOMAIN v = 1 .. c
  BY <1>1, LenProperties
<1>3. d = Copied(D, 1 + KeyMax, v) BY DEF SetInline
<1> HIDE DEF P, Q, a, c, h
<1> DEFINE N == SlotSize
<1> HIDE DEF N
<1>6. N = 2 * P - 2 BY <1>1 DEF N
<1>7. Z = [i \in 1 .. N |-> IF i = 1 THEN h ELSE 0] BY DEF Zeroed, N
<1> HIDE DEF Z
<1>8. D = [i \in 1 .. N |-> IF i - 1 \in 1 .. a THEN k[i - 1] ELSE Z[i]]
  BY <1>2, <1>7 DEF Copied
<1> HIDE DEF D
<1>9. d = [i \in 1 .. N |-> IF i - (P - 1) \in 1 .. c THEN v[i - (P - 1)] ELSE D[i]]
  <2>1. 1 + KeyMax = P - 1 BY <1>1
  <2> QED BY <1>2, <1>3, <1>8, <2>1 DEF Copied
<1>10. d[1] = h
  <2>1. 1 \in 1 .. N /\ 1 - 1 \notin 1 .. a /\ 1 - (P - 1) \notin 1 .. c BY <1>1, <1>2, <1>6
  <2> QED BY <2>1, <1>7, <1>8, <1>9
<1>11. Mode(d) = 0 /\ KeyLen(d) = a /\ ValLen(d) = c
  BY <1>1, <1>2, <1>10, InlineHeader DEF h, P, Q
<1>12. \A i \in 1 .. a : d[2 + i - 1] = k[i]
  <2> TAKE i \in 1 .. a
  <2> DEFINE j == i + 1
  <2>1. j \in 1 .. N /\ j - 1 = i /\ j - (P - 1) \notin 1 .. c /\ 2 + i - 1 = j BY <1>1, <1>2, <1>6
  <2> HIDE DEF j
  <2> QED BY <2>1, <1>8, <1>9
<1>13. \A i \in 1 .. c : d[P + i - 1] = v[i]
  <2> TAKE i \in 1 .. c
  <2> DEFINE j == (P - 1) + i
  <2>1. j \in 1 .. N /\ j - (P - 1) = i /\ P + i - 1 = j BY <1>1, <1>2, <1>6
  <2> HIDE DEF j
  <2> QED BY <2>1, <1>9
<1>14. InlineKey(d) = k
  <2>1. 1 + a \in Int /\ 2 \in Int /\ 1 + a = 2 + a - 1 BY <1>2
  <2>2. SubSeq(d, 2, 1 + a) = k BY <1>12, <2>1, Stretch DEF a
  <2> QED BY <1>11, <2>2 DEF InlineKey
<1>15. InlineValue(d) = v
  <2>1. 1 + KeyMax + c = P + c - 1 /\ 2 + KeyMax = P /\ P \in Int /\ 1 + KeyMax + c \in Int BY <1>1, <1>2
  <2>2. SubSeq(d, P, 1 + KeyMax + c) = v BY <1>13, <2>1, Stretch DEF c
  <2> QED BY <1>11, <2>1, <2>2 DEF InlineValue
<1> QED BY <1>11, <1>14, <1>15

(* A slot in slab mode gives back the fingerprint and the index (slot.rs). *)
LEMMA SlabRead ==
    ASSUME NEW hr, hr.hi \in 0 .. (ModeBit - 1), hr.fp \in 0 .. (Limit(FpBytes) - 1),
           NEW idx \in 0 .. (Limit(IdxBytes) - 1), NEW d, d = SetSlab(hr, idx)
    PROVE  Mode(d) = 1 /\ Fingerprint(d) = <<hr.hi, hr.fp>> /\ SlabIdx(d) = idx
<1> DEFINE F == FpBytes
           X == IdxBytes
           N == SlotSize
           M == ModeBit
           f == ToLe(hr.fp, F)
           x == ToLe(idx, X)
           h == M + (hr.hi % M)
           Z == [Zeroed EXCEPT ![1] = h]
           D == Copied(Z, 1, f)
<1>1. F \in Nat /\ X \in Nat /\ N = 2 + F + X /\ M \in Nat /\ M > 0
  <2>1. F \in Nat /\ X \in Nat /\ N = 2 + F + X BY SlotSizes
  <2>2. LenBits \in Nat /\ 2 * LenBits + 1 \in Nat BY SlotAssumption
  <2> QED BY <2>1, <2>2, PowerIs DEF ModeBit
<1>2. d = Copied(D, 2 + F, x) BY DEF SetSlab
<1>3. Limit(F) \in Nat /\ Limit(X) \in Nat /\ hr.fp \in Nat /\ idx \in Nat /\ hr.hi \in Nat
  BY <1>1, Limits
<1>4. /\ f \in Seq(Bytes) /\ Len(f) = F /\ FromLe(f) = hr.fp % Limit(F)
      /\ x \in Seq(Bytes) /\ Len(x) = X /\ FromLe(x) = idx % Limit(X)
  BY <1>1, <1>3, LittleEndian
<1>5. hr.fp % Limit(F) = hr.fp /\ idx % Limit(X) = idx BY <1>3, SmallRemainder
<1>6. h = M + hr.hi /\ h \in Nat
  <2>1. hr.hi % M = hr.hi BY <1>1, SmallRemainder
  <2> QED BY <1>1, <1>3, <2>1
<1>7. h \div M = 1 /\ h % M = hr.hi
  <2>1. h = M * 1 + hr.hi /\ h \in Nat /\ hr.hi \in 0 .. (M - 1) BY <1>1, <1>6
  <2> HIDE DEF h, M
  <2> QED BY <1>1, <2>1, QuotientIs, RemainderIs
<1>8. DOMAIN f = 1 .. F /\ DOMAIN x = 1 .. X BY <1>4, LenProperties
<1> HIDE DEF F, X, N, M, f, x, h
<1>9. Z = [i \in 1 .. N |-> IF i = 1 THEN h ELSE 0] BY DEF Zeroed, N
<1> HIDE DEF Z
<1>10. D = [i \in 1 .. N |-> IF i - 1 \in 1 .. F THEN f[i - 1] ELSE Z[i]]
  BY <1>8, <1>9 DEF Copied
<1> HIDE DEF D
<1>11. d = [i \in 1 .. N |-> IF i - (2 + F) \in 1 .. X THEN x[i - (2 + F)] ELSE D[i]]
  BY <1>2, <1>8, <1>10 DEF Copied
<1>12. d[1] = h
  <2>1. 1 \in 1 .. N /\ 1 - 1 \notin 1 .. F /\ 1 - (2 + F) \notin 1 .. X BY <1>1
  <2> QED BY <2>1, <1>9, <1>10, <1>11
<1>13. Mode(d) = 1 BY <1>7, <1>12 DEF Mode, M
<1>14. \A i \in 1 .. F : d[2 + i - 1] = f[i]
  <2> TAKE i \in 1 .. F
  <2> DEFINE j == i + 1
  <2>1. j \in 1 .. N /\ j - 1 = i /\ j - (2 + F) \notin 1 .. X /\ 2 + i - 1 = j BY <1>1
  <2> HIDE DEF j
  <2> QED BY <2>1, <1>10, <1>11
<1>15. \A i \in 1 .. X : d[(3 + F) + i - 1] = x[i]
  <2> TAKE i \in 1 .. X
  <2> DEFINE j == (2 + F) + i
  <2>1. j \in 1 .. N /\ j - (2 + F) = i /\ (3 + F) + i - 1 = j BY <1>1
  <2> HIDE DEF j
  <2> QED BY <2>1, <1>11
<1>16. SubSeq(d, 2, 1 + F) = f
  <2>1. 2 \in Int /\ 1 + F \in Int /\ 1 + F = 2 + F - 1 BY <1>1
  <2> QED BY <1>4, <1>14, <2>1, Stretch
<1>17. SubSeq(d, 3 + F, N) = x
  <2> DEFINE m == 3 + F
  <2>1. m \in Int /\ N \in Int /\ N = m + X - 1 BY <1>1
  <2>2. \A i \in 1 .. X : d[m + i - 1] = x[i] BY <1>15
  <2> HIDE DEF m
  <2>3. SubSeq(d, m, N) = x BY <1>4, <2>1, <2>2, Stretch
  <2> QED BY <2>3 DEF m
<1>18. Fingerprint(d) = <<hr.hi, hr.fp>> BY <1>4, <1>5, <1>7, <1>12, <1>16 DEF Fingerprint, F, M
<1>19. SlabIdx(d) = idx BY <1>4, <1>5, <1>17 DEF SlabIdx, F, N
<1> QED BY <1>13, <1>18, <1>19
-----------------------------------------------------------------------------
(* Buffers of the slab.                                                    *)
Buffers == {e \in [key_len : Nat, val_len : Nat, cap : Nat, data : Seq(Bytes)] :
               e.cap <= Len(e.data)}

(* A length that fits a u32 is kept, and no length becomes larger.         *)
LEMMA U32Is ==
    ASSUME NEW n \in Nat
    PROVE  AsU32(n) \in Nat /\ AsU32(n) <= n /\ (n < U32Size => AsU32(n) = n)
<1>1. U32Size \in Nat /\ U32Size > 0 BY SlotAssumption
<1>2. CASE n < U32Size
  <2>1. n \in 0 .. (U32Size - 1) BY <1>1, <1>2
  <2>2. n % U32Size = n BY <1>1, <2>1, SmallRemainder
  <2> QED BY <2>2 DEF AsU32
<1>3. CASE ~(n < U32Size)
  <2>1. n % U32Size \in 0 .. (U32Size - 1) BY <1>1, DivMod
  <2> QED BY <1>1, <1>3, <2>1 DEF AsU32
<1> QED BY <1>2, <1>3

(* What a copy into a buffer leaves in it.                                 *)
LEMMA CopiedIs ==
    ASSUME NEW S, NEW data \in Seq(S), NEW bytes \in Seq(S), NEW r, r = Copied(data, 0, bytes)
    PROVE  /\ r \in Seq(S) /\ Len(r) = Len(data)
           /\ \A i \in 1 .. Len(data) :
                 r[i] = IF i \in 1 .. Len(bytes) THEN bytes[i] ELSE data[i]
<1>1. /\ Len(data) \in Nat /\ DOMAIN data = 1 .. Len(data) /\ DOMAIN bytes = 1 .. Len(bytes)
      /\ \A i \in 1 .. Len(data) : data[i] \in S
      /\ \A i \in 1 .. Len(bytes) : bytes[i] \in S
  BY LenProperties, ElementOfSeq
<1>2. r = [i \in 1 .. Len(data) |-> IF i - 0 \in 1 .. Len(bytes) THEN bytes[i - 0] ELSE data[i]]
  BY <1>1 DEF Copied
<1>3. \A i \in 1 .. Len(data) : i - 0 = i BY <1>1
<1>4. \A i \in 1 .. Len(data) : r[i] = IF i \in 1 .. Len(bytes) THEN bytes[i] ELSE data[i]
  BY <1>2, <1>3
<1>5. r \in [1 .. Len(data) -> S] BY <1>1, <1>2, <1>3
<1>6. r \in Seq(S) /\ Len(r) = Len(data) BY <1>1, <1>5, SeqDef
<1> QED BY <1>4, <1>6

(* A buffer that begins with a pair holds it.                              *)
LEMMA BufferRead ==
    ASSUME NEW k \in Seq(Bytes), NEW v \in Seq(Bytes), NEW e, e.key_len = Len(k), e.val_len = Len(v),
           \A i \in 1 .. Len(k \o v) : e.data[i] = (k \o v)[i]
    PROVE  EntryKey(e) = k /\ EntryValue(e) = v
<1> DEFINE a == Len(k)
           c == Len(v)
<1>1. a \in Nat /\ c \in Nat BY LenProperties
<1>2. Len(k \o v) = a + c /\ \A i \in 1 .. (a + c) : (k \o v)[i] = IF i <= a THEN k[i] ELSE v[i - a]
  BY ConcatProperties
<1> HIDE DEF a, c
<1>3. \A i \in 1 .. a : e.data[1 + i - 1] = k[i]
  <2> TAKE i \in 1 .. a
  <2>1. i \in 1 .. (a + c) /\ i <= a /\ 1 + i - 1 = i BY <1>1
  <2> QED BY <2>1, <1>2
<1>4. \A i \in 1 .. c : e.data[(a + 1) + i - 1] = v[i]
  <2> TAKE i \in 1 .. c
  <2> DEFINE j == a + i
  <2>1. j \in 1 .. (a + c) /\ ~(j <= a) /\ (a + 1) + i - 1 = j /\ j - a = i BY <1>1
  <2> HIDE DEF j
  <2> QED BY <2>1, <1>2
<1>5. EntryKey(e) = k
  <2>1. 1 \in Int /\ a \in Int /\ a = 1 + a - 1 BY <1>1
  <2>2. SubSeq(e.data, 1, a) = k BY <1>3, <2>1, Stretch DEF a
  <2> QED BY <2>2 DEF EntryKey, a
<1>6. EntryValue(e) = v
  <2> DEFINE m == a + 1
             n == a + c
  <2>1. m \in Int /\ n \in Int /\ n = m + c - 1 BY <1>1
  <2>2. \A i \in 1 .. c : e.data[m + i - 1] = v[i] BY <1>4
  <2> HIDE DEF m, n
  <2>3. SubSeq(e.data, m, n) = v BY <2>1, <2>2, Stretch DEF c
  <2> QED BY <2>3 DEF EntryValue, a, c, m, n
<1> QED BY <1>5, <1>6

(* A new buffer holds its pair (SlabPool::alloc).                          *)
LEMMA NewEntryHolds ==
    ASSUME NEW k \in Seq(Bytes), NEW v \in Seq(Bytes), Len(k) + Len(v) < U32Size,
           NEW e, e = NewEntry(k, v)
    PROVE  e \in Buffers /\ EntryKey(e) = k /\ EntryValue(e) = v
<1>1. k \o v \in Seq(Bytes) /\ Len(k \o v) \in Nat /\ Len(k) \in Nat /\ Len(v) \in Nat
  BY ConcatProperties, LenProperties
<1>a. AsU32(Len(k)) = Len(k) /\ AsU32(Len(v)) = Len(v)
  <2>1. U32Size \in Nat /\ Len(k) < U32Size /\ Len(v) < U32Size BY <1>1, SlotAssumption
  <2> QED BY <1>1, <2>1, U32Is
<1>b. AsU32(Len(k \o v)) \in Nat /\ AsU32(Len(k \o v)) <= Len(k \o v) BY <1>1, U32Is
<1>2. e.key_len = Len(k) /\ e.val_len = Len(v) /\ e.data = k \o v /\ e \in Buffers
  BY <1>1, <1>a, <1>b DEF NewEntry, Buffers
<1> QED BY <1>2, BufferRead

(* A reused buffer holds its new pair, whatever it held (rewrite).         *)
LEMMA RewriteHolds ==
    ASSUME NEW k \in Seq(Bytes), NEW v \in Seq(Bytes), Len(k) + Len(v) < U32Size,
           NEW o \in Buffers, NEW e, e = Rewrite(o, k, v)
    PROVE  e \in Buffers /\ EntryKey(e) = k /\ EntryValue(e) = v
<1> DEFINE kv == k \o v
           n == IF Len(kv) > o.cap THEN Len(kv) ELSE Len(o.data)
           c == IF Len(kv) > o.cap THEN AsU32(n) ELSE o.cap
           z == [i \in 1 .. n |-> 0]
           y == Copied(z, 0, o.data)
           x == Copied(y, 0, kv)
<1>1. kv \in Seq(Bytes) /\ Len(kv) \in Nat /\ Len(k) \in Nat /\ Len(v) \in Nat
  BY ConcatProperties, LenProperties
<1>a. AsU32(Len(k)) = Len(k) /\ AsU32(Len(v)) = Len(v)
  <2>1. U32Size \in Nat /\ Len(k) < U32Size /\ Len(v) < U32Size BY <1>1, SlotAssumption
  <2> QED BY <1>1, <2>1, U32Is
<1>2. e = [key_len |-> Len(k), val_len |-> Len(v), cap |-> c, data |-> x] BY <1>a DEF Rewrite
<1> HIDE DEF kv
<1>b. o.cap \in Nat /\ o.cap <= Len(o.data) /\ o.data \in Seq(Bytes) /\ Len(o.data) \in Nat
  BY LenProperties DEF Buffers
<1>3. n \in Nat /\ Len(kv) <= n /\ o.data \in Seq(Bytes) BY <1>1, <1>b
<1>c. c \in Nat /\ c <= n
  <2>1. AsU32(n) \in Nat /\ AsU32(n) <= n BY <1>3, U32Is
  <2> QED BY <2>1, <1>b
<1> HIDE DEF n, c
<1>4. z \in Seq(Bytes) /\ Len(z) = n
  <2>1. 0 \in Bytes BY Limits DEF Bytes
  <2>2. z \in [1 .. n -> Bytes] BY <2>1
  <2> QED BY <1>3, <2>2, SeqDef
<1> HIDE DEF z
<1>5. y \in Seq(Bytes) /\ Len(y) = n BY <1>3, <1>4, CopiedIs
<1> HIDE DEF y
<1>6. /\ x \in Seq(Bytes) /\ Len(x) = n
      /\ \A i \in 1 .. n : x[i] = IF i \in 1 .. Len(kv) THEN kv[i] ELSE y[i]
  BY <1>1, <1>5, CopiedIs
<1> HIDE DEF x
<1>7. e \in Buffers /\ e.key_len = Len(k) /\ e.val_len = Len(v) /\ e.data = x
  BY <1>1, <1>2, <1>3, <1>6, <1>c DEF Buffers
<1>8. \A i \in 1 .. Len(kv) : e.data[i] = kv[i] BY <1>1, <1>3, <1>6, <1>7
<1> QED BY <1>7, <1>8, BufferRead DEF kv
-----------------------------------------------------------------------------
(* The slab pool of a bucket.  O are the slots that own an entry, at says  *)
(* which.  No entry has two owners, none is owned and free, and none is    *)
(* lost: this is why the pool never outgrows the bucket, and an index      *)
(* always fits its bytes in the slot.                                      *)
PoolRight(p, O, at) ==
    /\ p \in [entries : Seq(Buffers), free : Seq(Nat)]
    /\ Len(p.entries) <= SlotsPerBucket
    /\ \A i \in 1 .. Len(p.free) : p.free[i] < Len(p.entries)
    /\ \A i, j \in 1 .. Len(p.free) : p.free[i] = p.free[j] => i = j
    /\ \A s \in O : /\ at[s] \in 0 .. (Len(p.entries) - 1)
                    /\ \A i \in 1 .. Len(p.free) : p.free[i] # at[s]
    /\ \A s, r \in O : at[s] = at[r] => s = r
    /\ \A x \in 0 .. (Len(p.entries) - 1) :
          \/ \E s \in O : at[s] = x
          \/ \E i \in 1 .. Len(p.free) : p.free[i] = x

(* Only what the owners point to matters.                                  *)
LEMMA PoolSame ==
    ASSUME NEW p, NEW O, NEW at, PoolRight(p, O, at), NEW to, \A s \in O : to[s] = at[s]
    PROVE  PoolRight(p, O, to)
BY DEF PoolRight

(* An owner gives its entry back (SlabPool::free).                         *)
LEMMA PoolFree ==
    ASSUME NEW p, NEW O, NEW at, PoolRight(p, O, at), NEW s \in O,
           NEW q, q = FreeBuffer(p, at[s])
    PROVE  PoolRight(q, O \ {s}, at) /\ q.entries = p.entries
<1> DEFINE x == at[s]
           n == Len(p.free)
           L == Len(p.entries)
           R == O \ {s}
<1>1. /\ p \in [entries : Seq(Buffers), free : Seq(Nat)] /\ L <= SlotsPerBucket
      /\ \A i \in 1 .. n : p.free[i] < L
      /\ \A i, j \in 1 .. n : p.free[i] = p.free[j] => i = j
      /\ \A r \in O : at[r] \in 0 .. (L - 1) /\ \A i \in 1 .. n : p.free[i] # at[r]
      /\ \A r, u \in O : at[r] = at[u] => r = u
      /\ \A y \in 0 .. (L - 1) : (\E r \in O : at[r] = y) \/ (\E i \in 1 .. n : p.free[i] = y)
  BY DEF PoolRight
<1>2. n \in Nat /\ L \in Nat /\ x \in Nat /\ x < L BY <1>1, LenProperties
<1>3. /\ q.entries = p.entries /\ q.free = Append(p.free, x)
      /\ q = [entries |-> p.entries, free |-> Append(p.free, x)]
  BY <1>1 DEF FreeBuffer
<1> DEFINE g == Append(p.free, x)
           m == n + 1
<1>4. g \in Seq(Nat) /\ Len(g) = m /\ (\A i \in 1 .. n : g[i] = p.free[i]) /\ g[m] = x
  BY <1>1, <1>2, AppendProperties
<1> HIDE DEF g
<1>5. \A i \in 1 .. m : i \in 1 .. n \/ i = m BY <1>2
<1>6. m \in 1 .. m /\ \A i \in 1 .. n : i \in 1 .. m BY <1>2
<1> HIDE DEF m, n, L, x
<1>7. q \in [entries : Seq(Buffers), free : Seq(Nat)] /\ q.free = g BY <1>1, <1>3, <1>4 DEF g
<1>8. \A i \in 1 .. m : g[i] < L BY <1>1, <1>2, <1>4, <1>5
<1>9. \A i, j \in 1 .. m : g[i] = g[j] => i = j
  <2>1. \A i \in 1 .. n : p.free[i] # x BY <1>1 DEF x
  <2> SUFFICES ASSUME NEW i \in 1 .. m, NEW j \in 1 .. m, g[i] = g[j] PROVE i = j OBVIOUS
  <2>2. CASE i \in 1 .. n /\ j \in 1 .. n BY <2>2, <1>1, <1>4
  <2>3. CASE i = m /\ j \in 1 .. n BY <2>1, <2>3, <1>4
  <2>4. CASE i \in 1 .. n /\ j = m BY <2>1, <2>4, <1>4
  <2> QED BY <1>5, <2>2, <2>3, <2>4
<1>10. \A r \in R : at[r] \in 0 .. (L - 1) /\ \A i \in 1 .. m : g[i] # at[r]
  <2>1. \A r \in R : at[r] # x BY <1>1 DEF x
  <2> QED BY <1>1, <1>4, <1>5, <2>1
<1>11. \A r, u \in R : at[r] = at[u] => r = u BY <1>1
<1>12. \A y \in 0 .. (L - 1) : (\E r \in R : at[r] = y) \/ (\E i \in 1 .. m : g[i] = y)
  <2> TAKE y \in 0 .. (L - 1)
  <2>1. CASE y = x BY <2>1, <1>4, <1>6
  <2>2. CASE y # x
    <3>1. (\E r \in O : at[r] = y) \/ (\E i \in 1 .. n : p.free[i] = y) BY <1>1
    <3>2. ASSUME NEW r \in O, at[r] = y PROVE r \in R BY <3>2, <2>2 DEF x
    <3> QED BY <3>1, <3>2, <1>4, <1>6
  <2> QED BY <2>1, <2>2
<1>13. Len(q.free) = m /\ Len(q.entries) = L /\ L <= SlotsPerBucket BY <1>1, <1>3, <1>4, <1>7 DEF L
<1>14. PoolRight(q, R, at)
  <2> HIDE DEF R
  <2> QED BY ONLY <1>7, <1>8, <1>9, <1>10, <1>11, <1>12, <1>13 DEF PoolRight
<1> QED BY <1>3, <1>14

(* With nothing free, every entry has an owner: a full pool leaves no slot *)
(* without one.                                                            *)
LEMMA PoolBound ==
    ASSUME NEW p, NEW O, NEW at, PoolRight(p, O, at), O \subseteq SlotIds,
           NEW s \in SlotIds, s \notin O, p.free = <<>>
    PROVE  Len(p.entries) < SlotsPerBucket
<1> DEFINE L == Len(p.entries)
           T == 0 .. (L - 1)
           f == [r \in O |-> at[r]]
<1>1. L \in Nat /\ SlotsPerBucket \in Nat BY LenProperties, Widths DEF PoolRight
<1>2. \A r \in O : at[r] \in T BY DEF PoolRight
<1>3. \A y \in T : \E r \in O : at[r] = y
  <2>1. 1 .. Len(p.free) = {} OBVIOUS
  <2> QED BY <2>1 DEF PoolRight
<1>4. f \in Surjection(O, T)
  <2>1. f \in [O -> T] BY <1>2
  <2>2. \A y \in T : \E r \in O : f[r] = y BY <1>3
  <2> HIDE DEF f, T
  <2> QED BY <2>1, <2>2, Fun_IsSurj
<1>5. IsFiniteSet(SlotIds) /\ Cardinality(SlotIds) = SlotsPerBucket
  <2>1. 0 \in Int /\ SlotsPerBucket - 1 \in Int BY <1>1
  <2>2. /\ IsFiniteSet(0 .. (SlotsPerBucket - 1))
        /\ Cardinality(0 .. (SlotsPerBucket - 1)) =
             IF 0 > SlotsPerBucket - 1 THEN 0 ELSE (SlotsPerBucket - 1) - 0 + 1
    BY <2>1, FS_Interval
  <2> QED BY <1>1, <2>2 DEF SlotIds
<1> DEFINE U == SlotIds \ {s}
<1>6. IsFiniteSet(U) /\ Cardinality(U) = SlotsPerBucket - 1 BY <1>5, FS_RemoveElement
<1>7. O \in SUBSET U OBVIOUS
<1> HIDE DEF U, f
<1>8. IsFiniteSet(O) /\ Cardinality(O) <= SlotsPerBucket - 1 BY <1>6, <1>7, FS_Subset
<1>9. Cardinality(T) <= Cardinality(O) /\ IsFiniteSet(T) BY <1>4, <1>8, FS_Surjection
<1>10. Cardinality(T) = L
  <2>1. 0 \in Int /\ L - 1 \in Int BY <1>1
  <2>2. Cardinality(0 .. (L - 1)) = IF 0 > L - 1 THEN 0 ELSE (L - 1) - 0 + 1 BY <2>1, FS_Interval
  <2> QED BY <1>1, <2>2
<1>11. Cardinality(O) \in Nat BY <1>8, FS_CardinalityType
<1> HIDE DEF T, L
<1>12. L < SlotsPerBucket BY <1>1, <1>8, <1>9, <1>10, <1>11
<1> QED BY <1>12 DEF L

(* Slot s became the owner of entry x, which holds the pair of k and v,    *)
(* and the entries of the other owners are as before.                      *)
Allocated(p, O, at, s, k, v, x, q, to) ==
    /\ x \in 0 .. (SlotsPerBucket - 1)
    /\ PoolRight(q, O \cup {s}, to)
    /\ EntryKey(GetBuffer(q, x)) = k /\ EntryValue(GetBuffer(q, x)) = v
    /\ \A r \in O : GetBuffer(q, at[r]) = GetBuffer(p, at[r])

(* An entry that nobody owns is given to a slot (SlabPool::alloc).         *)
LEMMA PoolAlloc ==
    ASSUME NEW p, NEW O, NEW at, PoolRight(p, O, at), O \subseteq SlotIds,
           NEW s \in SlotIds, s \notin O,
           NEW k \in Seq(Bytes), NEW v \in Seq(Bytes), Len(k) + Len(v) < U32Size,
           NEW x, x = NextIdx(p), NEW q, q = AllocBuffer(p, k, v),
           NEW to, to[s] = x, \A r \in O : to[r] = at[r]
    PROVE  Allocated(p, O, at, s, k, v, x, q, to)
<1> DEFINE n == Len(p.free)
           L == Len(p.entries)
           R == O \cup {s}
<1>1. /\ p \in [entries : Seq(Buffers), free : Seq(Nat)] /\ L <= SlotsPerBucket
      /\ \A i \in 1 .. n : p.free[i] < L
      /\ \A i, j \in 1 .. n : p.free[i] = p.free[j] => i = j
      /\ \A r \in O : at[r] \in 0 .. (L - 1) /\ \A i \in 1 .. n : p.free[i] # at[r]
      /\ \A r, u \in O : at[r] = at[u] => r = u
      /\ \A y \in 0 .. (L - 1) : (\E r \in O : at[r] = y) \/ (\E i \in 1 .. n : p.free[i] = y)
  BY DEF PoolRight
<1>2. /\ n \in Nat /\ L \in Nat /\ SlotsPerBucket \in Nat
      /\ \A i \in 1 .. n : p.free[i] \in Nat
      /\ \A i \in 1 .. L : p.entries[i] \in Buffers
  BY <1>1, LenProperties, ElementOfSeq, Widths
<1>a. \A i, j \in 1 .. n : p.free[i] = p.free[j] => i = j BY <1>1
<1>b. \A r \in O : at[r] \in 0 .. (L - 1) /\ \A i \in 1 .. n : p.free[i] # at[r] BY <1>1
<1>3. \A r \in R : r \in O \/ r = s OBVIOUS
<1>4. CASE p.free # <<>>
  <2>1. n > 0 BY <1>1, <1>4, EmptySeq
  <2> DEFINE g == Front(p.free)
             m == n - 1
             o == p.entries[x + 1]
             e == Rewrite(o, k, v)
             E == [p.entries EXCEPT ![x + 1] = e]
  <2>2. x = p.free[n] /\ n \in 1 .. n /\ x \in Nat /\ x < L BY <1>1, <1>2, <1>4, <2>1 DEF NextIdx, Last
  <2>3. q = [entries |-> E, free |-> g] BY <1>4 DEF AllocBuffer, NextIdx
  <2>4. /\ g \in Seq(Nat) /\ Len(g) = m /\ m \in Nat /\ \A i \in 1 .. m : g[i] = p.free[i] /\ i \in 1 .. n /\ i # n
    <3> DEFINE b == p.free
    <3>1. 1 \in Int /\ m \in Int /\ \A i \in 1 .. m : b[i] \in Nat BY <1>2
    <3> HIDE DEF b, m
    <3>2. /\ SubSeq(b, 1, m) \in Seq(Nat) /\ Len(SubSeq(b, 1, m)) = IF 1 <= m THEN m - 1 + 1 ELSE 0
          /\ \A i \in 1 .. m - 1 + 1 : SubSeq(b, 1, m)[i] = b[1 + i - 1]
      BY <3>1, SubSeqProperties
    <3>3. m \in Nat BY <1>2, <2>1 DEF m
    <3>4. g = SubSeq(b, 1, m) BY DEF Front, b, m
    <3>5. m - 1 + 1 = m /\ \A i \in 1 .. m : 1 + i - 1 = i BY <3>3
    <3>6. \A i \in 1 .. m : i \in 1 .. n /\ i # n BY <1>2, <3>3 DEF m
    <3>7. Len(g) = m BY <3>2, <3>3, <3>4
    <3> HIDE DEF g
    <3>8. \A i \in 1 .. m : g[i] = b[i] BY <3>2, <3>4, <3>5
    <3> QED BY <3>2, <3>3, <3>4, <3>6, <3>7, <3>8 DEF b
  <2>5. \A i \in 1 .. n : i \in 1 .. m \/ i = n BY <1>2
  <2>6. x + 1 \in 1 .. L /\ o \in Buffers BY <1>2, <2>2
  <2> HIDE DEF o
  <2>7. e \in Buffers /\ EntryKey(e) = k /\ EntryValue(e) = v BY <2>6, RewriteHolds
  <2> HIDE DEF e, g, m
  <2>8. /\ E \in Seq(Buffers) /\ Len(E) = L
        /\ \A j \in 1 .. L : E[j] = IF j = x + 1 THEN e ELSE p.entries[j]
    <3> DEFINE z == x + 1
               en == p.entries
    <3>1. z \in 1 .. Len(en) /\ en \in Seq(Buffers) BY <1>1, <2>6
    <3> HIDE DEF z, en
    <3>2. /\ [en EXCEPT ![z] = e] \in Seq(Buffers) /\ Len([en EXCEPT ![z] = e]) = Len(en)
          /\ \A j \in 1 .. Len(en) : [en EXCEPT ![z] = e][j] = IF j = z THEN e ELSE en[j]
      BY <3>1, <2>7, ExceptSeq
    <3> QED BY <3>2 DEF z, en
  <2> HIDE DEF E
  <2>9. q.entries = E /\ q.free = g /\ q \in [entries : Seq(Buffers), free : Seq(Nat)]
    BY <2>3, <2>4, <2>8
  <2>10. \A r \in O : at[r] # x /\ to[r] # x BY <1>1, <2>2
  <2>11. \A i \in 1 .. m : g[i] < L BY <1>1, <2>4
  <2>a. \A i \in 1 .. m : g[i] = p.free[i] /\ i \in 1 .. n /\ i # n BY <2>4
  <2>12. \A i, j \in 1 .. m : g[i] = g[j] => i = j
    <3> SUFFICES ASSUME NEW i \in 1 .. m, NEW j \in 1 .. m, g[i] = g[j] PROVE i = j OBVIOUS
    <3>1. p.free[i] = p.free[j] /\ i \in 1 .. n /\ j \in 1 .. n BY <2>a
    <3> QED BY <3>1, <1>a
  <2>13. \A i \in 1 .. m : g[i] # x
    <3> TAKE i \in 1 .. m
    <3>1. g[i] = p.free[i] /\ i \in 1 .. n /\ i # n BY <2>a
    <3>2. p.free[i] # p.free[n] BY <3>1, <1>a, <2>2
    <3> QED BY <3>1, <3>2, <2>2
  <2>14. \A r \in R : to[r] \in 0 .. (L - 1) /\ \A i \in 1 .. m : g[i] # to[r]
    <3>1. x \in 0 .. (L - 1) BY <1>2, <2>2
    <3> SUFFICES ASSUME NEW r \in R PROVE to[r] \in 0 .. (L - 1) /\ \A i \in 1 .. m : g[i] # to[r] OBVIOUS
    <3>2. CASE r = s BY <3>1, <3>2, <2>13
    <3>3. CASE r \in O
      <4>1. to[r] = at[r] /\ at[r] \in 0 .. (L - 1) /\ \A i \in 1 .. n : p.free[i] # at[r]
        BY <3>3, <1>b
      <4> QED BY <4>1, <2>a
    <3> QED BY <1>3, <3>2, <3>3
  <2>15. \A r, u \in R : to[r] = to[u] => r = u
    <3> SUFFICES ASSUME NEW r \in R, NEW u \in R, to[r] = to[u] PROVE r = u OBVIOUS
    <3>1. CASE r \in O /\ u \in O BY <3>1, <1>1
    <3>2. CASE r = s \/ u = s BY <3>2, <1>3, <2>10
    <3> QED BY <1>3, <3>1, <3>2
  <2>16. \A y \in 0 .. (L - 1) : (\E r \in R : to[r] = y) \/ (\E i \in 1 .. m : g[i] = y)
    <3> TAKE y \in 0 .. (L - 1)
    <3>1. CASE y = x BY <3>1
    <3>2. CASE y # x
      <4>1. CASE \E r \in O : at[r] = y BY <4>1
      <4>2. CASE \E i \in 1 .. n : p.free[i] = y
        <5>1. PICK i \in 1 .. n : p.free[i] = y BY <4>2
        <5>2. i \in 1 .. m BY <5>1, <2>2, <2>5, <3>2
        <5> QED BY <5>1, <5>2, <2>4
      <4> QED BY <1>1, <4>1, <4>2
    <3> QED BY <3>1, <3>2
  <2>17. PoolRight(q, R, to)
    <3>1. Len(q.free) = m /\ Len(q.entries) = L /\ L <= SlotsPerBucket BY <1>1, <2>4, <2>8, <2>9
    <3> HIDE DEF L, R
    <3>2. q.free = g BY <2>9
    <3>3. q \in [entries : Seq(Buffers), free : Seq(Nat)] BY <2>9
    <3> QED BY ONLY <3>1, <3>2, <3>3, <2>11, <2>12, <2>14, <2>15, <2>16 DEF PoolRight
  <2>18. GetBuffer(q, x) = e BY <2>6, <2>8, <2>9 DEF GetBuffer
  <2>19. \A r \in O : GetBuffer(q, at[r]) = GetBuffer(p, at[r])
    <3> TAKE r \in O
    <3>1. at[r] \in 0 .. (L - 1) /\ at[r] # x /\ L \in Nat /\ x \in Nat BY <1>b, <1>2, <2>2, <2>10
    <3> HIDE DEF L
    <3>2. at[r] + 1 \in 1 .. L /\ at[r] + 1 # x + 1 BY ONLY <3>1
    <3> QED BY <3>2, <2>8, <2>9 DEF GetBuffer, L
  <2>20. x \in 0 .. (SlotsPerBucket - 1) BY <1>1, <1>2, <2>2
  <2> QED BY <2>7, <2>17, <2>18, <2>19, <2>20 DEF Allocated
<1>5. CASE p.free = <<>>
  <2> DEFINE e == NewEntry(k, v)
             E == Append(p.entries, e)
             M == L + 1
  <2>1. x = L /\ q = [entries |-> E, free |-> <<>>] BY <1>1, <1>5 DEF NextIdx, AllocBuffer
  <2>2. e \in Buffers /\ EntryKey(e) = k /\ EntryValue(e) = v BY NewEntryHolds
  <2>3. L < SlotsPerBucket BY <1>5, PoolBound
  <2> HIDE DEF e
  <2>4. E \in Seq(Buffers) /\ Len(E) = M /\ (\A i \in 1 .. L : E[i] = p.entries[i]) /\ E[M] = e
    BY <1>1, <2>2, AppendProperties
  <2> HIDE DEF E
  <2>5. q.entries = E /\ q.free = <<>> /\ q \in [entries : Seq(Buffers), free : Seq(Nat)] /\ Len(q.free) = 0
    BY <2>1, <2>4
  <2>6. 1 .. 0 = {} /\ n = 0 BY <1>5
  <2>7. \A r \in O : at[r] # x /\ to[r] # x BY <1>1, <1>2, <2>1
  <2>8. \A r \in R : to[r] \in 0 .. (M - 1)
    <3> TAKE r \in R
    <3>1. CASE r = s BY <3>1, <1>2, <2>1
    <3>2. CASE r \in O
      <4>1. at[r] \in 0 .. (L - 1) /\ to[r] = at[r] BY <3>2, <1>1
      <4> QED BY <4>1, <1>2
    <3> QED BY <1>3, <3>1, <3>2
  <2>9. \A r, u \in R : to[r] = to[u] => r = u
    <3> SUFFICES ASSUME NEW r \in R, NEW u \in R, to[r] = to[u] PROVE r = u OBVIOUS
    <3>1. CASE r \in O /\ u \in O BY <3>1, <1>1
    <3>2. CASE r = s \/ u = s BY <3>2, <1>3, <2>7
    <3> QED BY <1>3, <3>1, <3>2
  <2>10. \A y \in 0 .. (M - 1) : \E r \in R : to[r] = y
    <3> TAKE y \in 0 .. (M - 1)
    <3>1. CASE y = L BY <3>1, <2>1
    <3>2. CASE y # L
      <4>1. y \in 0 .. (L - 1) BY <3>2, <1>2
      <4>2. \E r \in O : at[r] = y BY <4>1, <1>1, <2>6
      <4> QED BY <4>2
    <3> QED BY <3>1, <3>2
  <2>11. M <= SlotsPerBucket BY <1>2, <2>3
  <2> HIDE DEF M
  <2>12. PoolRight(q, R, to)
    BY <2>4, <2>5, <2>6, <2>8, <2>9, <2>10, <2>11 DEF PoolRight
  <2>13. GetBuffer(q, x) = e BY <2>1, <2>4, <2>5 DEF GetBuffer, M
  <2>14. \A r \in O : GetBuffer(q, at[r]) = GetBuffer(p, at[r])
    <3> TAKE r \in O
    <3>1. at[r] + 1 \in 1 .. L BY <1>1, <1>2
    <3> QED BY <3>1, <2>4, <2>5 DEF GetBuffer
  <2>15. x \in 0 .. (SlotsPerBucket - 1) BY <1>2, <2>1, <2>3
  <2> QED BY <2>2, <2>12, <2>13, <2>14, <2>15 DEF Allocated
<1> QED BY <1>4, <1>5
-----------------------------------------------------------------------------
(* The contents of a bucket.                                               *)

(* Slot bytes d and the fingerprint h in the word are those of a pair.     *)
SlotHolds(T, d, p, h, pair) ==
    /\ pair \in Samples[T.key] \X Samples[T.val]
    /\ h = Hash(ToBytes(T.key, pair[1])).h2
    /\ Mode(d) \in {0, 1}
    /\ KeyBytes(d, p) = ToBytes(T.key, pair[1])
    /\ ValueBytes(d, p) = ToBytes(T.val, pair[2])
    /\ Mode(d) = 1 => Fingerprint(d) = <<Hash(ToBytes(T.key, pair[1])).hi,
                                         Hash(ToBytes(T.key, pair[1])).fp>>

Homes(sl) == [s \in SlotIds |-> SlabIdx(sl[s])]

(* Every occupied slot holds its pair, and the slots in slab mode own the  *)
(* entries of the pool.                                                    *)
Contents(T, full, h2, sl, p, hd) ==
    /\ full \subseteq SlotIds /\ DOMAIN sl = SlotIds /\ DOMAIN hd = SlotIds
    /\ \A s \in full : SlotHolds(T, sl[s], p, h2[s], hd[s])
    /\ PoolRight(p, {s \in full : Mode(sl[s]) = 1}, Homes(sl))

(* A slot's pair does not change with entries that are not the slot's.     *)
LEMMA HoldsSame ==
    ASSUME NEW T, NEW d, NEW p, NEW h, NEW pair, SlotHolds(T, d, p, h, pair), NEW q,
           Mode(d) = 1 => GetBuffer(q, SlabIdx(d)) = GetBuffer(p, SlabIdx(d))
    PROVE  SlotHolds(T, d, q, h, pair)
<1>1. KeyBytes(d, q) = KeyBytes(d, p) /\ ValueBytes(d, q) = ValueBytes(d, p)
  BY DEF KeyBytes, ValueBytes, SlotHolds
<1> QED BY <1>1 DEF SlotHolds

(* What is in the slots that are not occupied does not matter.             *)
LEMMA ContentsSame ==
    ASSUME NEW T, NEW full, NEW h2, NEW sl, NEW p, NEW hd, Contents(T, full, h2, sl, p, hd),
           NEW g2, NEW tl, NEW gd, DOMAIN tl = SlotIds, DOMAIN gd = SlotIds,
           \A r \in full : g2[r] = h2[r] /\ tl[r] = sl[r] /\ gd[r] = hd[r]
    PROVE  Contents(T, full, g2, tl, p, gd)
<1> DEFINE O == {s \in full : Mode(sl[s]) = 1}
<1>1. {s \in full : Mode(tl[s]) = 1} = O OBVIOUS
<1>2. full \subseteq SlotIds /\ PoolRight(p, O, Homes(sl)) BY DEF Contents
<1>3. \A r \in O : Homes(tl)[r] = Homes(sl)[r] BY <1>2 DEF Homes
<1> HIDE DEF O
<1>4. PoolRight(p, O, Homes(tl)) BY <1>2, <1>3, PoolSame
<1>5. \A s \in full : SlotHolds(T, tl[s], p, g2[s], gd[s]) BY DEF Contents
<1> QED BY <1>1, <1>2, <1>4, <1>5 DEF Contents

(* A slot is vacated, and its entry, if it has one, is given back.         *)
LEMMA ContentsRelease ==
    ASSUME NEW T, NEW full, NEW h2, NEW sl, NEW p, NEW hd, Contents(T, full, h2, sl, p, hd),
           NEW s \in SlotIds,
           NEW q, q = IF s \in full /\ Mode(sl[s]) = 1 THEN FreeBuffer(p, SlabIdx(sl[s])) ELSE p
    PROVE  Contents(T, full \ {s}, h2, sl, q, hd)
<1> DEFINE O == {r \in full : Mode(sl[r]) = 1}
           U == {r \in full \ {s} : Mode(sl[r]) = 1}
           at == Homes(sl)
<1>1. full \subseteq SlotIds /\ PoolRight(p, O, at) BY DEF Contents
<1>2. U = O \ {s} OBVIOUS
<1>3. q.entries = p.entries /\ PoolRight(q, U, at)
  <2>1. CASE s \in O
    <3>1. q = FreeBuffer(p, at[s]) BY <2>1 DEF Homes
    <3> HIDE DEF O, U, at
    <3>2. PoolRight(q, O \ {s}, at) /\ q.entries = p.entries BY <1>1, <2>1, <3>1, PoolFree
    <3> QED BY <1>2, <3>2
  <2>2. CASE s \notin O
    <3>1. q = p BY <2>2
    <3>2. U = O BY <1>2, <2>2
    <3> QED BY <1>1, <3>1, <3>2
  <2> QED BY <2>1, <2>2
<1>4. \A r \in full \ {s} : SlotHolds(T, sl[r], q, h2[r], hd[r])
  <2> TAKE r \in full \ {s}
  <2>1. SlotHolds(T, sl[r], p, h2[r], hd[r]) BY DEF Contents
  <2>2. GetBuffer(q, SlabIdx(sl[r])) = GetBuffer(p, SlabIdx(sl[r])) BY <1>3 DEF GetBuffer
  <2> QED BY <2>1, <2>2, HoldsSame
<1>5. full \ {s} \subseteq SlotIds /\ DOMAIN sl = SlotIds /\ DOMAIN hd = SlotIds BY DEF Contents
<1> QED BY <1>3, <1>4, <1>5 DEF Contents

(* Values of the map's types survive the conversions.                      *)
LEMMA TypedPair ==
    ASSUME NEW T \in Types, NEW k \in Samples[T.key], NEW v \in Samples[T.val]
    PROVE  /\ ToBytes(T.key, k) \in Seq(Bytes) /\ FromBytes(T.key, ToBytes(T.key, k)) = {k}
           /\ ToBytes(T.val, v) \in Seq(Bytes) /\ FromBytes(T.val, ToBytes(T.val, v)) = {v}
<1>1. WellTyped(T.key, k) /\ WellTyped(T.val, v) BY BytesAssumption
<1> QED BY <1>1, RoundTrip

(* The bytes of the slot and the pool after a pair is written: inside the  *)
(* slot if it fits, else to an entry of the pool.                          *)
Fits(kb, vb) == Len(kb) <= KeyMax /\ Len(vb) <= ValMax
SlotAfter(kb, vb, p) == IF Fits(kb, vb) THEN SetInline(kb, vb) ELSE SetSlab(Hash(kb), NextIdx(p))
PoolAfter(kb, vb, p) == IF Fits(kb, vb) THEN p ELSE AllocBuffer(p, kb, vb)

(* The contents after k and v are written to slot s.                       *)
WrittenContents(T, full, g2, sl, p, hd, s, k, v) ==
    LET kb == ToBytes(T.key, k)
        vb == ToBytes(T.val, v)
    IN  Contents(T, full \cup {s}, g2, [sl EXCEPT ![s] = SlotAfter(kb, vb, p)],
                 PoolAfter(kb, vb, p), [hd EXCEPT ![s] = <<k, v>>])

(* A pair is written to a slot that is vacant.                             *)
LEMMA ContentsWrite ==
    ASSUME NEW T \in Types, NEW full, NEW h2, NEW sl, NEW p, NEW hd, Contents(T, full, h2, sl, p, hd),
           NEW s \in SlotIds, s \notin full,
           NEW k \in Samples[T.key], NEW v \in Samples[T.val],
           NEW g2, g2[s] = Hash(ToBytes(T.key, k)).h2, \A r \in full : g2[r] = h2[r]
    PROVE  WrittenContents(T, full, g2, sl, p, hd, s, k, v)
<1> DEFINE kb == ToBytes(T.key, k)
           vb == ToBytes(T.val, v)
           inline == Fits(kb, vb)
           d == SlotAfter(kb, vb, p)
           q == PoolAfter(kb, vb, p)
<1>a. /\ d = IF inline THEN SetInline(kb, vb) ELSE SetSlab(Hash(kb), NextIdx(p))
      /\ q = IF inline THEN p ELSE AllocBuffer(p, kb, vb)
  BY DEF SlotAfter, PoolAfter
<1> HIDE DEF inline, d, q
<1>b. g2[s] = Hash(kb).h2 OBVIOUS
<1> DEFINE tl == [sl EXCEPT ![s] = d]
           gd == [hd EXCEPT ![s] = <<k, v>>]
           O == {r \in full : Mode(sl[r]) = 1}
           U == {r \in full \cup {s} : Mode(tl[r]) = 1}
           at == Homes(sl)
           to == Homes(tl)
           x == NextIdx(p)
<1>1. /\ full \subseteq SlotIds /\ DOMAIN sl = SlotIds /\ DOMAIN hd = SlotIds /\ PoolRight(p, O, at)
      /\ \A r \in full : SlotHolds(T, sl[r], p, h2[r], hd[r])
  BY DEF Contents
<1>2. /\ DOMAIN tl = SlotIds /\ DOMAIN gd = SlotIds /\ tl[s] = d /\ gd[s] = <<k, v>>
      /\ \A r \in full : tl[r] = sl[r] /\ gd[r] = hd[r]
  BY <1>1
<1>3. to[s] = SlabIdx(d) /\ \A r \in O : to[r] = at[r] BY <1>1, <1>2 DEF Homes
<1>4. U = IF Mode(d) = 1 THEN O \cup {s} ELSE O BY <1>2
<1>5. kb \in Seq(Bytes) /\ vb \in Seq(Bytes) BY TypedPair
<1>c. Len(kb) + Len(vb) < U32Size BY BytesAssumption
<1>6. /\ Hash(kb).hi \in 0 .. (ModeBit - 1) /\ Hash(kb).fp \in 0 .. (Limit(FpBytes) - 1)
  BY BytesAssumption
<1>7. <<k, v>> \in Samples[T.key] \X Samples[T.val] /\ <<k, v>>[1] = k /\ <<k, v>>[2] = v OBVIOUS
<1>8. O \subseteq SlotIds /\ s \notin O BY <1>1
<1> HIDE DEF tl, gd, to, at, O, U, x, kb, vb
<1>9. CASE inline
  <2>1. Len(kb) <= KeyMax /\ Len(vb) <= ValMax /\ d = SetInline(kb, vb) /\ q = p
    BY <1>9, <1>a DEF inline, Fits
  <2>2. Mode(d) = 0 /\ InlineKey(d) = kb /\ InlineValue(d) = vb BY <1>5, <2>1, InlineRead
  <2>3. KeyBytes(d, q) = kb /\ ValueBytes(d, q) = vb BY <2>2 DEF KeyBytes, ValueBytes
  <2>4. SlotHolds(T, d, q, g2[s], <<k, v>>) BY <1>7, <1>b, <2>2, <2>3 DEF SlotHolds, kb, vb
  <2>5. PoolRight(q, U, to)
    <3>1. U = O /\ q = p BY <1>4, <2>1, <2>2
    <3> QED BY <1>1, <1>3, <3>1, PoolSame
  <2>6. \A r \in full : SlotHolds(T, tl[r], q, g2[r], gd[r]) BY <1>1, <1>2, <2>1
  <2>7. \A r \in full \cup {s} : SlotHolds(T, tl[r], q, g2[r], gd[r]) BY <1>2, <2>4, <2>6
  <2> QED BY <1>1, <1>2, <2>5, <2>7 DEF WrittenContents, Contents, U, to, tl, gd, d, q, kb, vb
<1>10. CASE ~inline
  <2>1. d = SetSlab(Hash(kb), x) /\ q = AllocBuffer(p, kb, vb) BY <1>10, <1>a DEF x
  <2> DEFINE go == [r \in SlotIds |-> IF r = s THEN x ELSE at[r]]
  <2>2. go[s] = x /\ \A r \in O : go[r] = at[r] BY <1>8
  <2> HIDE DEF go
  <2>3. /\ x \in 0 .. (SlotsPerBucket - 1) /\ PoolRight(q, O \cup {s}, go)
        /\ EntryKey(GetBuffer(q, x)) = kb /\ EntryValue(GetBuffer(q, x)) = vb
        /\ \A r \in O : GetBuffer(q, at[r]) = GetBuffer(p, at[r])
    <3>1. x = NextIdx(p) /\ PoolRight(p, O, at) BY <1>1 DEF x
    <3>2. Allocated(p, O, at, s, kb, vb, x, q, go) BY <1>5, <1>8, <1>c, <2>1, <2>2, <3>1, PoolAlloc
    <3> QED BY <3>2 DEF Allocated
  <2>4. x \in 0 .. (Limit(IdxBytes) - 1)
    <3>1. SlotsPerBucket \in Nat /\ IdxBytes \in Nat BY Widths, SlotAssumption
    <3>2. Limit(IdxBytes) \in Nat /\ SlotsPerBucket <= Limit(IdxBytes) BY <3>1, Limits, BytesAssumption
    <3> QED BY <2>3, <3>1, <3>2
  <2>5. Mode(d) = 1 /\ Fingerprint(d) = <<Hash(kb).hi, Hash(kb).fp>> /\ SlabIdx(d) = x
    BY <1>6, <2>1, <2>4, SlabRead
  <2>6. KeyBytes(d, q) = kb /\ ValueBytes(d, q) = vb BY <2>3, <2>5 DEF KeyBytes, ValueBytes
  <2>7. SlotHolds(T, d, q, g2[s], <<k, v>>) BY <1>7, <1>b, <2>5, <2>6 DEF SlotHolds, kb, vb
  <2>8. PoolRight(q, U, to)
    <3>1. U = O \cup {s} BY <1>4, <2>5
    <3>2. \A r \in O \cup {s} : to[r] = go[r] BY <1>3, <2>2, <2>5
    <3> QED BY <2>3, <3>1, <3>2, PoolSame
  <2>9. \A r \in full : SlotHolds(T, tl[r], q, g2[r], gd[r])
    <3> TAKE r \in full
    <3>1. SlotHolds(T, sl[r], p, h2[r], hd[r]) BY <1>1
    <3>2. Mode(sl[r]) = 1 => GetBuffer(q, SlabIdx(sl[r])) = GetBuffer(p, SlabIdx(sl[r]))
      <4>1. at[r] = SlabIdx(sl[r]) BY <1>1 DEF at, Homes
      <4>2. Mode(sl[r]) = 1 => r \in O BY DEF O
      <4> QED BY <2>3, <4>1, <4>2
    <3>3. SlotHolds(T, sl[r], q, h2[r], hd[r]) BY <3>1, <3>2, HoldsSame
    <3> QED BY <3>3, <1>2
  <2>10. \A r \in full \cup {s} : SlotHolds(T, tl[r], q, g2[r], gd[r]) BY <1>2, <2>7, <2>9
  <2> QED BY <1>1, <1>2, <2>8, <2>10 DEF WrittenContents, Contents, U, to, tl, gd, d, q, kb, vb
<1> QED BY <1>9, <1>10
-----------------------------------------------------------------------------
(* The word, the slots and the pool of a bucket in use.                    *)
ByteInv == WordInv /\ Contents(types, FullSlots(meta), meta.h2, slots, slab_pool, held)

(* The slots that the word shows as occupied.                              *)
LEMMA FullAgree ==
    ASSUME WordInv
    PROVE  Full = FullSlots(meta) /\ \A s \in SlotIds : GetState(word, s) = "Full" <=> s \in FullSlots(meta)
<1>1. Stands(word, meta) BY DEF WordInv
<1>2. \A s \in SlotIds : GetState(word, s) = "Full" <=> s \in FullSlots(meta) BY <1>1, FullBits
<1>3. FullSlots(meta) \subseteq SlotIds BY DEF FullSlots
<1> QED BY <1>2, <1>3 DEF Full

(* A lookup finds exactly the occupied slots that hold the key.            *)
LEMMA LookupFinds ==
    ASSUME ByteInv, NEW k \in K
    PROVE  Lookup(k) = {s \in FullSlots(meta) : held[s][1] = k}
<1> DEFINE b == ToBytes(types.key, k)
           h == Hash(b).h2
<1>1. types \in Types /\ Stands(word, meta) /\ k \in Samples[types.key] BY DEF ByteInv, WordInv, K
<1>2. h \in Tags BY <1>1, KeyHash
<1>3. BranchlessMask(word, h) = {s \in FullSlots(meta) : meta.h2[s] = h}
  <2> HIDE DEF h
  <2> QED BY <1>1, <1>2, MasksAgree DEF MatchMask
<1>4. Lookup(k) = {s \in BranchlessMask(word, h) : MatchesBytes(slots[s], b, Hash(b), slab_pool)}
  BY DEF Lookup
<1> HIDE DEF b, h
<1>5. ASSUME NEW s \in FullSlots(meta)
      PROVE  (meta.h2[s] = h /\ MatchesBytes(slots[s], b, Hash(b), slab_pool)) <=> held[s][1] = k
  <2> DEFINE c == ToBytes(types.key, held[s][1])
  <2>1. SlotHolds(types, slots[s], slab_pool, meta.h2[s], held[s]) BY DEF ByteInv, Contents
  <2>2. /\ held[s][1] \in Samples[types.key] /\ held[s][2] \in Samples[types.val]
        /\ meta.h2[s] = Hash(c).h2 /\ KeyBytes(slots[s], slab_pool) = c
        /\ Mode(slots[s]) = 1 => Fingerprint(slots[s]) = <<Hash(c).hi, Hash(c).fp>>
    BY <2>1 DEF SlotHolds
  <2> HIDE DEF c
  <2>3. ASSUME MatchesBytes(slots[s], b, Hash(b), slab_pool) PROVE held[s][1] = k
    <3>1. c = b BY <2>2, <2>3 DEF MatchesBytes
    <3>2. FromBytes(types.key, c) = {held[s][1]} BY <1>1, <2>2, TypedPair DEF c
    <3>3. FromBytes(types.key, b) = {k} BY <1>1, <2>2, TypedPair DEF b
    <3> QED BY <3>1, <3>2, <3>3
  <2>4. ASSUME held[s][1] = k PROVE meta.h2[s] = h /\ MatchesBytes(slots[s], b, Hash(b), slab_pool)
    <3>1. c = b BY <2>4 DEF b, c
    <3> QED BY <3>1, <2>2 DEF MatchesBytes, h
  <2> QED BY <2>3, <2>4
<1> QED BY <1>3, <1>4, <1>5

(* What insert leaves in a bucket after it wrote a pair to slot s.         *)
LEMMA PairWritten ==
    ASSUME ByteInv, NEW s \in SlotIds, NEW k \in K, NEW v \in V, WritePair(s, k, v), types' = types,
           FullSlots(meta)' = FullSlots(meta) \cup {s},
           meta'.h2[s] = Hash(ToBytes(types.key, k)).h2,
           \A r \in FullSlots(meta) \ {s} : meta'.h2[r] = meta.h2[r]
    PROVE  Contents(types, FullSlots(meta), meta.h2, slots, slab_pool, held)'
<1> DEFINE T == types
           kb == ToBytes(T.key, k)
           vb == ToBytes(T.val, v)
           p == Released(s)
           full == FullSlots(meta) \ {s}
           g2 == meta'.h2
<1>1. /\ WordInv /\ Contents(T, FullSlots(meta), meta.h2, slots, slab_pool, held) /\ T \in Types
  BY DEF ByteInv, WordInv
<1>2. /\ slots' = [slots EXCEPT ![s] = SlotAfter(kb, vb, p)]
      /\ slab_pool' = PoolAfter(kb, vb, p) /\ held' = [held EXCEPT ![s] = <<k, v>>]
  BY DEF WritePair, SlotAfter, PoolAfter, Fits
<1>3. p = IF s \in FullSlots(meta) /\ Mode(slots[s]) = 1
          THEN FreeBuffer(slab_pool, SlabIdx(slots[s])) ELSE slab_pool
  BY <1>1, FullAgree DEF Released
<1>4. k \in Samples[T.key] /\ v \in Samples[T.val] BY DEF K, V
<1>5. Contents(T, full, meta.h2, slots, p, held)
  <2> HIDE DEF T, p
  <2> QED BY <1>1, <1>3, ContentsRelease
<1>6. g2[s] = Hash(kb).h2 /\ \A r \in full : g2[r] = meta.h2[r] OBVIOUS
<1>7. s \notin full OBVIOUS
<1>8. full \cup {s} = FullSlots(meta)' OBVIOUS
<1> HIDE DEF T, p, full, g2
<1>9. WrittenContents(T, full, g2, slots, p, held, s, k, v)
  BY <1>1, <1>4, <1>5, <1>6, <1>7, ContentsWrite
<1> QED BY <1>2, <1>8, <1>9 DEF WrittenContents, T, g2

(* A new bucket is empty.                                                  *)
LEMMA ByteInit == Init => ByteInv
<1> SUFFICES ASSUME Init PROVE ByteInv OBVIOUS
<1>1. WordInv BY WordInit
<1>2. FullSlots(meta) = {} BY DEF Init, EmptyMeta, FullSlots
<1>3. DOMAIN slots = SlotIds /\ DOMAIN held = SlotIds /\ slab_pool = NoBuffers BY DEF Init
<1> DEFINE O == {s \in {} : Mode(slots[s]) = 1}
<1>4. PoolRight(NoBuffers, O, Homes(slots))
  <2>1. O = {} OBVIOUS
  <2>2. /\ NoBuffers \in [entries : Seq(Buffers), free : Seq(Nat)]
        /\ NoBuffers.entries = <<>> /\ NoBuffers.free = <<>>
    BY EmptySeq DEF NoBuffers
  <2>3. Len(<<>>) = 0 /\ 1 .. 0 = {} /\ 0 .. (0 - 1) = {} /\ 0 <= SlotsPerBucket BY Widths
  <2> HIDE DEF O
  <2> QED BY <2>1, <2>2, <2>3 DEF PoolRight
<1> QED BY <1>1, <1>2, <1>3, <1>4 DEF ByteInv, Contents

(* Every call keeps the contents of the bucket.                            *)
LEMMA ByteNext == ByteInv /\ [Next]_vars => ByteInv'
<1> SUFFICES ASSUME ByteInv, [Next]_vars PROVE ByteInv' OBVIOUS
<1> DEFINE C == Contents(types, FullSlots(meta), meta.h2, slots, slab_pool, held)
<1>0. WordInv /\ WordInv' /\ C /\ types \in Types /\ meta \in MetaWords(Tags)
  BY WordNext DEF ByteInv, WordInv, Stands
<1>a. meta \in [state : [SlotIds -> SlotStates], h2 : [SlotIds -> Tags],
                freq : [SlotIds -> 0 .. MaxFreq], recency : [SlotIds -> 0 .. MaxRecency]]
  BY <1>0 DEF MetaWords
<1>1. ASSUME NEW k \in K, NEW v \in V, Rewritten(k, v) PROVE C'
  <2>1. PICK s \in First(Lookup(k)) : WritePair(s, k, v) /\ meta' = OnAccess(meta, s) /\ types' = types
    BY <1>1 DEF Rewritten
  <2>2. s \in FullSlots(meta) /\ held[s][1] = k BY LookupFinds DEF First
  <2>3. s \in SlotIds BY <2>2 DEF FullSlots
  <2>4. meta'.state = meta.state /\ meta'.h2 = meta.h2 BY <1>a, <2>1 DEF OnAccess
  <2>5. FullSlots(meta)' = FullSlots(meta) \cup {s} BY <2>2, <2>4 DEF FullSlots
  <2>6. SlotHolds(types, slots[s], slab_pool, meta.h2[s], held[s]) BY <1>0, <2>2 DEF Contents
  <2>7. meta'.h2[s] = Hash(ToBytes(types.key, k)).h2 BY <2>2, <2>4, <2>6 DEF SlotHolds
  <2> QED BY <2>1, <2>3, <2>4, <2>5, <2>7, PairWritten
<1>2. ASSUME NEW k \in K, NEW v \in V, Inserted(k, v) PROVE C'
  <2> DEFINE h == Hash(ToBytes(types.key, k)).h2
  <2>1. PICK s \in (IF WordFindFreeSlot(word) # {} THEN WordFindFreeSlot(word) ELSE WordFindEvictTarget(word)) :
          WritePair(s, k, v) /\ meta' = OnInsert(SetH2(SetState(meta, s, "Full"), s, h), s) /\ types' = types
    BY <1>2 DEF Inserted
  <2>2. s \in SlotIds
    <3>1. FindFreeSlot(meta) \subseteq SlotIds /\ FindEvictTarget(meta) \subseteq SlotIds
      BY DEF FindFreeSlot, FindEvictTarget, First, FullSlots
    <3> QED BY <3>1, <1>0, FreeAgree, EvictAgree DEF WordInv
  <2> HIDE DEF h
  <2>3. /\ meta'.state = [meta.state EXCEPT ![s] = "Full"] /\ meta'.h2 = [meta.h2 EXCEPT ![s] = h]
    BY <1>a, <2>1, <2>2 DEF OnInsert, SetH2, SetState
  <2>4. FullSlots(meta)' = FullSlots(meta) \cup {s} BY <1>a, <2>2, <2>3 DEF FullSlots
  <2>5. meta'.h2[s] = h /\ \A r \in FullSlots(meta) \ {s} : meta'.h2[r] = meta.h2[r]
    BY <1>a, <2>2, <2>3 DEF FullSlots
  <2> QED BY <2>1, <2>2, <2>4, <2>5, PairWritten DEF h
<1>3. ASSUME NEW k \in K, Removed(k) PROVE C'
  <2>1. PICK s \in First(Lookup(k)) :
          /\ slab_pool' = Released(s) /\ meta' = SetState(meta, s, "Tombstone") /\ types' = types
          /\ slots' = [slots EXCEPT ![s] = Zeroed] /\ held' = [held EXCEPT ![s] = <<>>]
    BY <1>3 DEF Removed
  <2>2. s \in FullSlots(meta) BY LookupFinds DEF First
  <2>3. s \in SlotIds BY <2>2 DEF FullSlots
  <2> DEFINE T == types
             full == FullSlots(meta)
             rest == full \ {s}
             q == Released(s)
  <2>4. q = IF s \in full /\ Mode(slots[s]) = 1
            THEN FreeBuffer(slab_pool, SlabIdx(slots[s])) ELSE slab_pool
    BY <1>0, <2>3, FullAgree DEF Released
  <2>5. meta'.state = [meta.state EXCEPT ![s] = "Tombstone"] /\ meta'.h2 = meta.h2
    BY <1>a, <2>1, <2>3 DEF SetState
  <2>6. FullSlots(meta)' = rest BY <1>a, <2>3, <2>5 DEF FullSlots
  <2>7. DOMAIN slots = SlotIds /\ DOMAIN held = SlotIds /\ full \subseteq SlotIds BY <1>0 DEF Contents
  <2>8. Contents(T, full, meta.h2, slots, slab_pool, held) BY <1>0
  <2> HIDE DEF q, T, full
  <2>9. Contents(T, rest, meta.h2, slots, q, held) BY <2>3, <2>4, <2>8, ContentsRelease
  <2>10. /\ DOMAIN slots' = SlotIds /\ DOMAIN held' = SlotIds
         /\ \A r \in rest : meta'.h2[r] = meta.h2[r] /\ slots'[r] = slots[r] /\ held'[r] = held[r]
    BY <2>1, <2>3, <2>5, <2>7
  <2> HIDE DEF rest
  <2>11. Contents(T, rest, meta'.h2, slots', q, held') BY <2>9, <2>10, ContentsSame
  <2> QED BY <2>1, <2>6, <2>11 DEF q, T
<1>4. ASSUME UNCHANGED <<types, slots, slab_pool, held>>, meta'.state = meta.state, meta'.h2 = meta.h2
      PROVE  C'
  <2>1. FullSlots(meta)' = FullSlots(meta) BY <1>4 DEF FullSlots
  <2> QED BY <1>0, <1>4, <2>1
<1>5. ASSUME NEW t \in Threads, NEW s \in SlotIds, AccessLoad(t, s) PROVE C'
  BY <1>4, <1>5 DEF AccessLoad
<1>6. ASSUME NEW t \in Threads, AccessCas(t) PROVE C'
  <2>1. meta' = OnAccess(meta, access[t].slot) /\ UNCHANGED <<types, slots, slab_pool, held>>
    BY <1>6 DEF AccessCas
  <2>2. meta'.state = meta.state /\ meta'.h2 = meta.h2 BY <1>a, <2>1 DEF OnAccess
  <2> QED BY <1>4, <2>1, <2>2
<1>7. ASSUME NEW t \in Threads, AccessRetry(t) PROVE C' BY <1>4, <1>7 DEF AccessRetry
<1>8. ASSUME UNCHANGED vars PROVE C' BY <1>4, <1>8 DEF vars
<1>9. C' BY <1>1, <1>2, <1>3, <1>5, <1>6, <1>7, <1>8 DEF Next
<1> QED BY <1>0, <1>9 DEF ByteInv

(* The invariant from which the bytes can be read.                         *)
THEOREM ByteInvariant == Spec => []ByteInv
BY ByteInit, ByteNext, PTL DEF Spec

(* For every width and every type, and pairs whose length fits a u32, an   *)
(* occupied slot decodes to the pair last written to it, in both layouts   *)
(* and in every reused slab buffer (slot.rs, slab.rs, lib.rs).             *)
THEOREM BytesReadsBack == Spec => []ReadsBack
<1>1. ByteInv => ReadsBack
  <2> SUFFICES ASSUME ByteInv, NEW s \in Full
               PROVE  /\ FromBytes(types.key, KeyBytes(slots[s], slab_pool)) = {held[s][1]}
                      /\ FromBytes(types.val, ValueBytes(slots[s], slab_pool)) = {held[s][2]}
    BY DEF ReadsBack
  <2>1. s \in FullSlots(meta) /\ types \in Types BY FullAgree DEF ByteInv, WordInv
  <2>2. SlotHolds(types, slots[s], slab_pool, meta.h2[s], held[s]) BY <2>1 DEF ByteInv, Contents
  <2>3. /\ held[s][1] \in Samples[types.key] /\ held[s][2] \in Samples[types.val]
        /\ KeyBytes(slots[s], slab_pool) = ToBytes(types.key, held[s][1])
        /\ ValueBytes(slots[s], slab_pool) = ToBytes(types.val, held[s][2])
    BY <2>2 DEF SlotHolds
  <2> QED BY <2>1, <2>3, TypedPair
<1> QED BY <1>1, ByteInvariant, PTL

(* For every width and every hash, and pairs whose length fits a u32, a    *)
(* lookup finds a key exactly if an occupied slot holds it (the candidate  *)
(* loops of raw.rs).                                                       *)
THEOREM BytesLookupExact == Spec => []LookupExact
<1>1. ByteInv => LookupExact BY LookupFinds, FullAgree DEF ByteInv, LookupExact
<1> QED BY <1>1, ByteInvariant, PTL
=============================================================================
