----------------------- MODULE ShardedPulseMapProofs ------------------------
(***************************************************************************)
(* Proofs about ShardedPulseMap and its client SoakTest for every number   *)
(* of threads, keys, shards and slots, every layout of the hash bits, and  *)
(* every set of calls that the workers make.                               *)
(***************************************************************************)
EXTENDS SoakTest, Arithmetic

-----------------------------------------------------------------------------
(* The bits of the hash.  A hash is put together from the bits below the   *)
(* shard bits, d, the shard s, the bits above them, c, and the topmost     *)
(* bits x; L, S and P stand for the numbers of values of the first three.  *)

(* A product of factors that are at least one, and a digit below one.      *)
LEMMA DigitsBelow ==
    ASSUME NEW m \in Nat, NEW n \in Nat, NEW i \in 0 .. (m - 1), NEW j \in 0 .. (n - 1)
    PROVE  m * j + i \in 0 .. (m * n - 1)
<1>1. m * (j + 1) <= m * n
  <2>1. j + 1 <= n /\ j + 1 \in Nat OBVIOUS
  <2> DEFINE e == j + 1
  <2> HIDE DEF e
  <2> QED BY <2>1 DEF e
<1>2. m * (j + 1) = m * j + m OBVIOUS
<1>3. m * j \in Nat /\ m * n \in Nat OBVIOUS
<1> QED BY <1>1, <1>2, <1>3

Assembled(L, S, P, d, s, c, x) == (L * s + d) + (L * S) * (c + P * x)

(* The fields can be read back from the hash.                              *)
LEMMA FieldsOf ==
    ASSUME NEW L \in Nat, NEW S \in Nat, NEW P \in Nat, L > 0, S > 0, P > 0,
           NEW d \in 0 .. (L - 1), NEW s \in 0 .. (S - 1), NEW c \in 0 .. (P - 1), NEW x \in Nat
    PROVE  LET h == Assembled(L, S, P, d, s, c, x)
           IN  /\ h \in Nat /\ h % L = d
               /\ (h \div L) % S = s
               /\ (h \div S) \div L = c + P * x
               /\ h = ((L * S) * P) * x + ((L * S) * c + (L * s + d))
               /\ (L * S) * c + (L * s + d) \in 0 .. ((L * S) * P - 1)
               /\ h \div ((L * S) * P) = x
<1> DEFINE h == Assembled(L, S, P, d, s, c, x)
           y == c + P * x
           q == s + S * y
           M == L * S
           lo == L * s + d
<1>1. y \in Nat /\ M \in Nat /\ M > 0 /\ q \in Nat /\ L * s \in Nat /\ lo \in Nat
  <2>1. P * x \in Nat OBVIOUS
  <2>2. y \in Nat BY <2>1
  <2>3. M \in Nat /\ M > 0 OBVIOUS
  <2> HIDE DEF y, M
  <2>4. S * y \in Nat /\ L * s \in Nat BY <2>2
  <2> QED BY <2>2, <2>3, <2>4
<1>2. h = lo + M * y BY DEF Assembled
<1>3. lo \in 0 .. (M - 1) BY DigitsBelow
<1>4. L * q = L * s + M * y
  <2> HIDE DEF y
  <2>1. S * y \in Nat /\ L * (S * y) = (L * S) * y BY <1>1
  <2>2. L * (s + S * y) = L * s + L * (S * y) BY <2>1
  <2> QED BY <2>1, <2>2
<1>5. h = L * q + d
  <2> DEFINE u == L * q
             v == M * y
             w == L * s
  <2>1. v \in Nat /\ w \in Nat /\ u = w + v /\ h = (w + d) + v BY <1>1, <1>2, <1>4
  <2> HIDE DEF u, v, w, h
  <2>2. h = u + d BY <2>1
  <2> QED BY <2>2 DEF u
<1>6. h \in Nat
  <2>1. M * y \in Nat BY <1>1
  <2> QED BY <1>1, <1>2, <2>1
<1> HIDE DEF h, q, y, M, lo
<1>7. h % L = d /\ h \div L = q BY <1>1, <1>5, <1>6, RemainderIs, QuotientIs
<1>8. q % S = s
  <2>1. q = S * y + s BY <1>1 DEF q
  <2> QED BY <1>1, <2>1, RemainderIs
<1>9. (h \div S) \div L = y
  <2>1. S * L = M BY DEF M
  <2>2. h = (S * L) * y + lo /\ lo \in 0 .. (S * L - 1) BY <2>1, <1>1, <1>2, <1>3
  <2> QED BY <1>1, <1>6, <2>2, QuotientNested
<1> DEFINE N == M * P
           r == M * c + lo
<1>10. r \in 0 .. (N - 1) BY <1>1, <1>3, DigitsBelow
<1>11. h = N * x + r
  <2>1. M * (P * x) = N * x /\ P * x \in Nat BY <1>1
  <2>2. M * (c + P * x) = M * c + M * (P * x) BY <1>1, <2>1
  <2> DEFINE a == M * c
             b == N * x
             e == M * y
  <2>3. e = a + b BY <2>1, <2>2 DEF y
  <2>4. a \in Nat /\ b \in Nat /\ N \in Nat BY <1>1
  <2>5. h = lo + e /\ r = a + lo BY <1>2
  <2> HIDE DEF a, b, e, N, r
  <2>6. h = b + r BY <1>1, <2>3, <2>4, <2>5
  <2> QED BY <2>6 DEF b
<1>12. N \in Nat /\ N > 0 BY <1>1
<1> HIDE DEF N, r
<1>13. h \div N = x BY <1>6, <1>10, <1>11, <1>12, QuotientIs
<1> QED BY <1>6, <1>7, <1>8, <1>9, <1>10, <1>11, <1>13 DEF h, y, N, M, r, lo

(* Powers of two are positive.                                             *)
LEMMA PowerPositive ==
    ASSUME NEW n \in Nat, IsPowerOfTwo(n)
    PROVE  n > 0
<1>1. PICK i \in 0 .. n : n = 2^i BY DEF IsPowerOfTwo
<1> QED BY <1>1, PowerIs

(* A product of powers of two is one.                                      *)
LEMMA PowerProduct ==
    ASSUME NEW m \in Nat, NEW n \in Nat, IsPowerOfTwo(m), IsPowerOfTwo(n)
    PROVE  m * n \in Nat /\ IsPowerOfTwo(m * n)
<1>1. PICK i \in 0 .. m : m = 2^i BY DEF IsPowerOfTwo
<1>2. PICK j \in 0 .. n : n = 2^j BY DEF IsPowerOfTwo
<1>3. m * n = 2^(i + j) BY <1>1, <1>2, PowerTimes
<1> DEFINE e == i + j
           p == m * n
<1>4. e \in Nat /\ p = 2^e /\ p \in Nat BY <1>3
<1> HIDE DEF e, p
<1>5. e \in 0 .. p BY <1>4, PowerIs
<1>6. IsPowerOfTwo(p) BY <1>4, <1>5 DEF IsPowerOfTwo
<1> QED BY <1>4, <1>6 DEF p

(* Of two powers of two the smaller divides the larger.                    *)
LEMMA PowerFactor ==
    ASSUME NEW m \in Nat, NEW n \in Nat, IsPowerOfTwo(m), IsPowerOfTwo(n), m <= n
    PROVE  \E g \in Nat : n = m * g
<1>1. PICK i \in 0 .. m : m = 2^i BY DEF IsPowerOfTwo
<1>2. PICK j \in 0 .. n : n = 2^j BY DEF IsPowerOfTwo
<1>3. CASE m = n
  <2>1. n = m * 1 BY <1>3
  <2> QED BY <2>1
<1>4. CASE m < n
  <2>1. j - i \in Nat /\ 2^j = 2^i * 2^(j - i) BY <1>1, <1>2, <1>4, PowerDivides
  <2> DEFINE e == j - i
             g == 2^e
  <2>2. e \in Nat /\ n = m * g BY <2>1, <1>1, <1>2
  <2> HIDE DEF e
  <2>3. g \in Nat BY <2>2, PowerIs
  <2> QED BY <2>2, <2>3
<1> QED BY <1>3, <1>4

(* The sizes of the hash fields.                                           *)
LEMMA FieldSizes ==
    /\ LowSize \in Nat /\ NumShards \in Nat /\ FpSize \in Nat /\ HiSize \in Nat /\ H2Size \in Nat
    /\ LowSize > 0 /\ NumShards > 0 /\ FpSize > 0 /\ HiSize > 0 /\ H2Size > 0
BY HashAssumption, PowerPositive

(* The bits that choose buckets: those below and above the shard bits.     *)
BucketBits == LowSize * (FpSize * HiSize)

(* Every bucket of every shard is reached under every fingerprint, for     *)
(* every table that does not need more bits than the hash has below H2.    *)
LEMMA ReachesBucket ==
    ASSUME NEW n \in Nat, IsPowerOfTwo(n), n <= BucketBits,
           NEW s \in Shards, NEW b \in 0 .. (n - 1), NEW x \in 0 .. (H2Size - 1)
    PROVE  \E h \in HashValues : ShardFor(h) = s /\ BucketHash(h) % n = b /\ H2(h) = x
<1> DEFINE L == LowSize
           S == NumShards
           P == FpSize * HiSize
           d == b % L
           c == b \div L
           h == Assembled(L, S, P, d, s, c, x)
           N == (L * S) * P
           r == (L * S) * c + (L * s + d)
<1>1. /\ L \in Nat /\ S \in Nat /\ P \in Nat /\ L > 0 /\ S > 0 /\ P > 0
      /\ H2Size \in Nat /\ H2Size > 0
  BY FieldSizes
<1>2. s \in 0 .. (S - 1) /\ x \in Nat BY <1>1 DEF Shards
<1>3. n > 0 BY PowerPositive
<1>4. BucketBits = L * P /\ L * P \in Nat BY <1>1 DEF BucketBits
<1>5. b \in Nat /\ b < L * P BY <1>4
<1>6. d \in 0 .. (L - 1) /\ c \in Nat /\ b = L * c + d BY <1>1, <1>5, DivMod
<1> HIDE DEF L, S, P, d, c
<1>7. c \in 0 .. (P - 1)
  <2> SUFFICES ASSUME c >= P PROVE FALSE BY <1>1, <1>6
  <2>1. L * c >= L * P BY <1>1, <1>6
  <2>2. L * c \in Nat BY <1>1, <1>6
  <2> QED BY <1>4, <1>5, <1>6, <2>1, <2>2
<1>8. /\ h \in Nat /\ h % L = d /\ (h \div L) % S = s /\ (h \div S) \div L = c + P * x
      /\ h = N * x + r /\ r \in 0 .. (N - 1) /\ h \div N = x
  BY <1>1, <1>2, <1>6, <1>7, FieldsOf
<1>9. N \in Nat /\ N = LowSize * NumShards * FpSize * HiSize
  <2> DEFINE M == LowSize * NumShards
  <2>1. M \in Nat /\ FpSize \in Nat /\ HiSize \in Nat BY FieldSizes
  <2>2. M * (FpSize * HiSize) = M * FpSize * HiSize
    <3> HIDE DEF M
    <3> QED BY <2>1
  <2>3. M * (FpSize * HiSize) \in Nat
    <3> HIDE DEF M
    <3> QED BY <2>1, FieldSizes
  <2> QED BY <2>2, <2>3 DEF L, S, P
<1> HIDE DEF h, N, r
<1>10. h \in HashValues
  <2>1. N * x + r \in 0 .. (N * H2Size - 1) BY <1>1, <1>8, <1>9, DigitsBelow
  <2> QED BY <2>1, <1>8, <1>9 DEF HashValues
<1>11. ShardFor(h) = s BY <1>8 DEF ShardFor, L, S
<1>12. H2(h) = x
  <2>1. H2(h) = x % H2Size BY <1>8, <1>9 DEF H2
  <2>2. x = H2Size * 0 + x BY <1>1
  <2>3. x % H2Size = x BY <1>1, <1>2, <2>2, RemainderIs
  <2> QED BY <2>1, <2>3
<1>13. BucketHash(h) = b + (L * P) * x
  <2>1. BucketHash(h) = d + (c + P * x) * L BY <1>8 DEF BucketHash, L, S
  <2>2. P * x \in Nat /\ L * (P * x) = (L * P) * x BY <1>1, <1>2
  <2>3. (c + P * x) * L = L * c + L * (P * x) BY <1>1, <1>6, <2>2
  <2> DEFINE u == L * c
             v == (L * P) * x
             w == (c + P * x) * L
  <2>4. w = u + v /\ u \in Nat /\ v \in Nat /\ b = u + d BY <1>1, <1>2, <1>4, <1>6, <2>2, <2>3
  <2> HIDE DEF u, v, w
  <2>5. d + w = b + v BY <2>4, <1>6
  <2> QED BY <2>1, <2>5 DEF v, w
<1>14. PICK g \in Nat : L * P = n * g
  <2>1. IsPowerOfTwo(L * P)
    <3>1. IsPowerOfTwo(FpSize * HiSize) BY HashAssumption, PowerProduct
    <3> QED BY <1>1, <3>1, HashAssumption, PowerProduct DEF L, P
  <2> QED BY <1>4, <2>1, PowerFactor
<1>15. BucketHash(h) % n = b
  <2>1. g * x \in Nat /\ (n * g) * x = n * (g * x) BY <1>2
  <2> DEFINE e == g * x
             v == n * e
  <2>2. BucketHash(h) = b + v BY <1>13, <1>14, <2>1
  <2>3. e \in Nat BY <2>1
  <2> HIDE DEF e
  <2>4. v \in Nat BY <2>3
  <2> DEFINE p == BucketHash(h)
  <2>5. p \in Nat /\ p = n * e + b BY <2>2, <2>4, <1>5
  <2> HIDE DEF p
  <2>6. e \in Int BY <2>3
  <2>7. p % n = b BY <2>5, <2>6, <1>3, RemainderIs
  <2> QED BY <2>7 DEF p
<1> QED BY <1>10, <1>11, <1>12, <1>15

(* Hashes have a shard, a bucket and a fingerprint.                        *)
LEMMA HashIn ==
    ASSUME NEW h \in HashValues
    PROVE  /\ h \in Nat /\ ShardFor(h) \in Shards /\ BucketHash(h) \in Nat
           /\ H2(h) \in 0 .. (H2Size - 1)
<1>0. h \in Nat
  <2>1. LowSize * NumShards * FpSize * HiSize * H2Size \in Nat BY FieldSizes
  <2> QED BY <2>1 DEF HashValues
<1>1. ShardFor(h) \in Shards
  <2> DEFINE q == h \div LowSize
  <2>1. q \in Nat BY <1>0, FieldSizes, DivMod
  <2> HIDE DEF q
  <2>2. q % NumShards \in 0 .. (NumShards - 1) BY <2>1, FieldSizes, DivMod
  <2> QED BY <2>2 DEF ShardFor, Shards, q
<1>2. BucketHash(h) \in Nat
  <2> DEFINE q == h \div NumShards
             w == q \div LowSize
             u == h % LowSize
  <2>1. q \in Nat /\ u \in Nat BY <1>0, FieldSizes, DivMod
  <2> HIDE DEF q
  <2>2. w \in Nat BY <2>1, FieldSizes, DivMod
  <2> HIDE DEF w, u
  <2>3. u + w * LowSize \in Nat BY <2>1, <2>2, FieldSizes
  <2> QED BY <2>3 DEF BucketHash, q, w, u
<1>3. H2(h) \in 0 .. (H2Size - 1)
  <2> DEFINE N == LowSize * NumShards * FpSize * HiSize
             q == h \div N
  <2>1. N \in Nat /\ N > 0
    <3> DEFINE M == LowSize * NumShards
               K == M * FpSize
    <3>1. M \in Nat /\ M > 0 BY FieldSizes
    <3> HIDE DEF M
    <3>2. K \in Nat /\ K > 0 BY <3>1, FieldSizes
    <3> HIDE DEF K
    <3>3. K * HiSize \in Nat /\ K * HiSize > 0 BY <3>2, FieldSizes
    <3> QED BY <3>3 DEF K, M
  <2> HIDE DEF N
  <2>2. q \in Nat BY <1>0, <2>1, DivMod
  <2> HIDE DEF q
  <2>3. q % H2Size \in 0 .. (H2Size - 1) BY <2>2, FieldSizes, DivMod
  <2> QED BY <2>3 DEF H2, N, q
<1> QED BY <1>0, <1>1, <1>2, <1>3
-----------------------------------------------------------------------------
(* The inductive invariant, in parts.                                      *)

(* The types, and which call is at which stage.                            *)
Stages  == {"done", "called", "loaded", "checked", "ticked", "put", "found", "dropped"}
Results == Nat \cup BOOLEAN \cup {NoValue}
Entries == [val : Nat, epoch : Nat, ttl : Nat]
Records == [req : Requests, stage : Stages, shard : Shards, acc : Nat, res : Results]

StageRight(c) ==
    /\ Legal(c.req)
    /\ c.stage \in {"loaded", "checked", "ticked", "put"} => c.req.op = "insert"
    /\ c.stage = "found" => c.req.op = "get"
    /\ c.stage = "dropped" => c.req.op = "remove"
    /\ c.stage = "loaded" => IsPowerOfTwo(c.acc)

CallsRight == call \in [Threads -> Records] /\ \A t \in Threads : StageRight(call[t])

SizesRight == size \in [Shards -> Nat] /\ \A s \in Shards : IsPowerOfTwo(size[s])

ShardTypes ==
    /\ store \in [Keys -> Entries \cup {NoEntry}]
    /\ epoch \in [Shards -> Nat] /\ ttl \in [Shards -> Nat] /\ evictions \in [Shards -> Nat]
    /\ SizesRight /\ count \in [Shards -> Int] /\ CallsRight

(* Bucket locks: two threads never hold the same one, and what a holder    *)
(* has found, put or dropped stays so while it holds the lock.             *)
Key(t) == call[t].req.key

LocksRight ==
    /\ \A t, u \in Threads : Holds(t) /\ Holds(u) /\ t # u => ~SameBucket(Key(t), Key(u))
    /\ \A t \in Threads : /\ call[t].stage \in {"put", "found"} => Present(Key(t))
                          /\ call[t].stage = "dropped" => ~Present(Key(t))

(* No bucket overflows, slots given up but not yet uncounted included, and *)
(* the counters count what Counted says.                                   *)
Pending(k)   == \E t \in Threads : call[t].stage = "put" /\ Key(t) = k
Dropped(k)   == \E t \in Threads : call[t].stage = "dropped" /\ Key(t) = k
Mates(k)     == {j \in Keys : SameBucket(j, k) /\ (Present(j) \/ Dropped(j))}
CountedIn(s) == {k \in Counted : ShardOf(k) = s}

MatesRight  == \A k \in Keys : Cardinality(Mates(k)) <= Ways
CountsRight == \A s \in Shards : count[s] = Cardinality(CountedIn(s))

ShardInv == ShardTypes /\ LocksRight /\ MatesRight /\ CountsRight
-----------------------------------------------------------------------------
(* How a call goes on.                                                     *)
Going(t, st, sh, a, r) ==
    call' = [call EXCEPT ![t] = [req |-> call[t].req, stage |-> st, shard |-> sh,
                                 acc |-> a, res |-> r]]

(* Only the call of t changes.                                             *)
Moves(t) == \A u \in Threads \ {t} : call'[u] = call[u]

Goes(t, st, sh, a, r) ==
    /\ Moves(t) /\ call'[t].req = call[t].req
    /\ call'[t].stage = st /\ call'[t].shard = sh /\ call'[t].acc = a /\ call'[t].res = r

(* The record of a call that goes on.                                      *)
LEMMA GoingIs ==
    ASSUME call \in [Threads -> Records], NEW t \in Threads, NEW st \in Stages, NEW sh \in Shards,
           NEW a \in Nat, NEW r \in Results, Going(t, st, sh, a, r)
    PROVE  Goes(t, st, sh, a, r) /\ call' \in [Threads -> Records]
<1>1. call[t].req \in Requests BY DEF Records
<1> DEFINE c == [req |-> call[t].req, stage |-> st, shard |-> sh, acc |-> a, res |-> r]
<1>2. c \in Records BY <1>1 DEF Records
<1>3. c.req = call[t].req /\ c.stage = st /\ c.shard = sh /\ c.acc = a /\ c.res = r OBVIOUS
<1>4. call' = [call EXCEPT ![t] = c] BY DEF Going
<1> HIDE DEF c
<1>5. call' \in [Threads -> Records] /\ call'[t] = c /\ \A u \in Threads \ {t} : call'[u] = call[u]
  BY <1>2, <1>4
<1> QED BY <1>3, <1>5 DEF Goes, Moves

(* The three ways in which a call goes on.                                 *)
LEMMA BecomesIs ==
    ASSUME call \in [Threads -> Records], NEW t \in Threads, NEW st, Becomes(t, st)
    PROVE  Going(t, st, call[t].shard, call[t].acc, call[t].res)
<1>1. call[t] \in Records OBVIOUS
<1>2. [call[t] EXCEPT !.stage = st] = [req |-> call[t].req, stage |-> st, shard |-> call[t].shard,
                                       acc |-> call[t].acc, res |-> call[t].res]
  BY <1>1 DEF Records
<1> QED BY <1>2 DEF Becomes, Going

(* Updates of several fields of a call.                                    *)
Ended(R, r)      == [R EXCEPT !.stage = "done", !.res = r, !.shard = 0, !.acc = 0]
Shifted(R, n, x) == [R EXCEPT !.shard = n, !.acc = x]
Carried(R, z, x) == [R EXCEPT !.stage = z, !.acc = x]

(* Field by field.                                                         *)
LEMMA RecordUpdates ==
    ASSUME NEW R, NEW r, NEW n, NEW x,
           R = [req |-> R.req, stage |-> R.stage, shard |-> R.shard, acc |-> R.acc, res |-> R.res]
    PROVE  /\ Ended(R, r) = [req |-> R.req, stage |-> "done", shard |-> 0, acc |-> 0, res |-> r]
           /\ Shifted(R, n, x) = [req |-> R.req, stage |-> R.stage, shard |-> n, acc |-> x, res |-> R.res]
           /\ Carried(R, n, x) = [req |-> R.req, stage |-> n, shard |-> R.shard, acc |-> x, res |-> R.res]
<1>1. PICK a, b, c, d, e : a = R.req /\ b = R.stage /\ c = R.shard /\ d = R.acc /\ e = R.res OBVIOUS
<1>a. R = [req |-> a, stage |-> b, shard |-> c, acc |-> d, res |-> e] BY <1>1
<1>2. Ended(R, r) = [req |-> a, stage |-> "done", shard |-> 0, acc |-> 0, res |-> r]
  <2>1. PICK Q : Q = [R EXCEPT !.stage = "done"] OBVIOUS
  <2>2. PICK P : P = [Q EXCEPT !.res = r] OBVIOUS
  <2>3. PICK O : O = [P EXCEPT !.shard = 0] OBVIOUS
  <2>4. PICK N : N = [O EXCEPT !.acc = 0] OBVIOUS
  <2>5. Q = [req |-> a, stage |-> "done", shard |-> c, acc |-> d, res |-> e] BY <1>a, <2>1
  <2>6. P = [req |-> a, stage |-> "done", shard |-> c, acc |-> d, res |-> r] BY <2>2, <2>5
  <2>7. O = [req |-> a, stage |-> "done", shard |-> 0, acc |-> d, res |-> r] BY <2>3, <2>6
  <2>8. N = [req |-> a, stage |-> "done", shard |-> 0, acc |-> 0, res |-> r] BY <2>4, <2>7
  <2>9. N = Ended(R, r) BY <2>1, <2>2, <2>3, <2>4, Zenon DEF Ended
  <2> QED BY <2>8, <2>9, Zenon
<1>3. Shifted(R, n, x) = [req |-> a, stage |-> b, shard |-> n, acc |-> x, res |-> e]
  <2>1. PICK Q : Q = [R EXCEPT !.shard = n] OBVIOUS
  <2>2. PICK P : P = [Q EXCEPT !.acc = x] OBVIOUS
  <2>3. Q = [req |-> a, stage |-> b, shard |-> n, acc |-> d, res |-> e] BY <1>a, <2>1
  <2>4. P = [req |-> a, stage |-> b, shard |-> n, acc |-> x, res |-> e] BY <2>2, <2>3
  <2>5. P = Shifted(R, n, x) BY <2>1, <2>2, Zenon DEF Shifted
  <2> QED BY <2>4, <2>5, Zenon
<1>4. Carried(R, n, x) = [req |-> a, stage |-> n, shard |-> c, acc |-> x, res |-> e]
  <2>1. PICK Q : Q = [R EXCEPT !.stage = n] OBVIOUS
  <2>2. PICK P : P = [Q EXCEPT !.acc = x] OBVIOUS
  <2>3. Q = [req |-> a, stage |-> n, shard |-> c, acc |-> d, res |-> e] BY <1>a, <2>1
  <2>4. P = [req |-> a, stage |-> n, shard |-> c, acc |-> x, res |-> e] BY <2>2, <2>3
  <2>5. P = Carried(R, n, x) BY <2>1, <2>2, Zenon DEF Carried
  <2> QED BY <2>4, <2>5, Zenon
<1> QED BY <1>1, <1>2, <1>3, <1>4

(* The fields of the record of a call.                                     *)
LEMMA CallFields ==
    ASSUME call \in [Threads -> Records], NEW t \in Threads
    PROVE  call[t] = [req |-> call[t].req, stage |-> call[t].stage, shard |-> call[t].shard,
                      acc |-> call[t].acc, res |-> call[t].res]
<1>1. call[t] \in Records OBVIOUS
<1> QED BY <1>1 DEF Records

(* See BecomesIs.                                                          *)
LEMMA AnswersIs ==
    ASSUME call \in [Threads -> Records], NEW t \in Threads, NEW r, Answers(t, r)
    PROVE  Going(t, "done", 0, 0, r)
<1> DEFINE R == call[t]
           c == Ended(R, r)
<1>1. R = [req |-> R.req, stage |-> R.stage, shard |-> R.shard, acc |-> R.acc, res |-> R.res]
  BY CallFields
<1>2. call' = [u \in Threads |-> IF u = t THEN c ELSE call[u]] BY DEF Answers, Ended
<1> HIDE DEF R
<1>3. c = [req |-> R.req, stage |-> "done", shard |-> 0, acc |-> 0, res |-> r]
  BY <1>1, RecordUpdates
<1> HIDE DEF c
<1>4. call' = [call EXCEPT ![t] = c] BY <1>2
<1> QED BY <1>3, <1>4 DEF Going, R

(* See BecomesIs.                                                          *)
LEMMA NextShardIs ==
    ASSUME call \in [Threads -> Records], NEW t \in Threads, NEW a, NextShard(t, a)
    PROVE  Going(t, call[t].stage, call[t].shard + 1, a, call[t].res)
<1> DEFINE R == call[t]
           n == R.shard + 1
           c == Shifted(R, n, a)
<1>1. R = [req |-> R.req, stage |-> R.stage, shard |-> R.shard, acc |-> R.acc, res |-> R.res]
  BY CallFields
<1>2. call' = [u \in Threads |-> IF u = t THEN c ELSE call[u]] BY DEF NextShard, Shifted
<1> HIDE DEF R, n
<1>3. c = [req |-> R.req, stage |-> R.stage, shard |-> n, acc |-> a, res |-> R.res]
  BY <1>1, RecordUpdates
<1> HIDE DEF c
<1>4. call' = [call EXCEPT ![t] = c] BY <1>2
<1> QED BY <1>3, <1>4 DEF Going, R, n

(* See BecomesIs: the stage and the carried number change.                 *)
LEMMA CarriesIs ==
    ASSUME call \in [Threads -> Records], NEW t \in Threads, NEW st, NEW a,
           call' = [call EXCEPT ![t].stage = st, ![t].acc = a]
    PROVE  Going(t, st, call[t].shard, a, call[t].res)
<1> DEFINE R == call[t]
           c == Carried(R, st, a)
<1>1. R = [req |-> R.req, stage |-> R.stage, shard |-> R.shard, acc |-> R.acc, res |-> R.res]
  BY CallFields
<1>2. call' = [u \in Threads |-> IF u = t THEN c ELSE call[u]] BY DEF Carried
<1> HIDE DEF R
<1>3. c = [req |-> R.req, stage |-> st, shard |-> R.shard, acc |-> a, res |-> R.res]
  BY <1>1, RecordUpdates
<1> HIDE DEF c
<1>4. call' = [call EXCEPT ![t] = c] BY <1>2
<1> QED BY <1>3, <1>4 DEF Going, R

(* What a record of a call is made of.                                     *)
LEMMA RecordIs ==
    ASSUME CallsRight, NEW t \in Threads
    PROVE  /\ call[t] \in Records /\ call[t].req \in Requests /\ call[t].stage \in Stages
           /\ call[t].shard \in Shards /\ call[t].acc \in Nat /\ call[t].res \in Results
           /\ call[t].req.val \in Nat /\ call[t].req.n \in Nat
           /\ StageRight(call[t])
           /\ call[t].req.op \in {"insert", "get", "remove"} => Key(t) \in Keys
<1>1. call[t] \in Records /\ StageRight(call[t]) BY DEF CallsRight
<1>2. call[t].req \in Requests BY <1>1 DEF Records
<1> QED BY <1>1, <1>2 DEF Records, Requests, StageRight, Legal, Key

(* Keys have a shard, and shard numbers are numbers.                       *)
LEMMA ShardIn ==
    /\ \A k \in Keys : Hash[k] \in HashValues /\ ShardOf(k) \in Shards /\ BucketHash(Hash[k]) \in Nat
    /\ 0 \in Shards /\ LastShard \in Shards /\ Shards \subseteq Nat
    /\ \A s \in Shards : s # LastShard => s + 1 \in Shards
BY ShardedAssumption, HashIn, FieldSizes DEF ShardOf, Shards, LastShard

(* A loop goes on to the next shard or returns.                            *)
LEMMA TurnIs ==
    ASSUME CallsRight, NEW t \in Threads, call[t].stage = "called",
           NEW a \in Nat, NEW r \in Results, Turn(t, a, r)
    PROVE  /\ call' \in [Threads -> Records]
           /\ IF call[t].shard = LastShard THEN Goes(t, "done", 0, 0, r)
              ELSE /\ Goes(t, "called", call[t].shard + 1, a, call[t].res)
                   /\ call[t].shard + 1 \in Shards
<1>0. call \in [Threads -> Records] BY DEF CallsRight
<1>1. CASE call[t].shard = LastShard
  <2>1. Going(t, "done", 0, 0, r) BY <1>0, <1>1, AnswersIs DEF Turn
  <2> QED BY <1>0, <1>1, <2>1, GoingIs, ShardIn DEF Stages
<1>2. CASE call[t].shard # LastShard
  <2>1. Going(t, "called", call[t].shard + 1, a, call[t].res) BY <1>0, <1>2, NextShardIs DEF Turn
  <2>2. call[t].shard + 1 \in Shards /\ call[t].res \in Results BY <1>2, RecordIs, ShardIn
  <2> QED BY <1>0, <1>2, <2>1, <2>2, GoingIs DEF Stages
<1> QED BY <1>1, <1>2

(* If only one call goes on, only its stage is to be checked.              *)
LEMMA CallsStay ==
    ASSUME CallsRight, NEW t \in Threads, call' \in [Threads -> Records], Moves(t),
           StageRight(call'[t])
    PROVE  CallsRight'
<1>1. ASSUME NEW u \in Threads PROVE StageRight(call'[u])
  <2>1. CASE u = t BY <2>1
  <2>2. CASE u # t BY <2>2 DEF Moves, CallsRight
  <2> QED BY <2>1, <2>2
<1> QED BY <1>1 DEF CallsRight

-----------------------------------------------------------------------------
(* What a step does to the entries, the sizes and the counters: it is of   *)
(* one of eight kinds.                                                     *)
Still == UNCHANGED <<store, size, count>>

Quiet(t)  == Moves(t) /\ Still /\ ~Holds(t) /\ ~Holds(t)'

Finds(t)  == /\ Moves(t) /\ Still /\ ~Holds(t) /\ Key(t) \in Keys /\ Key(t)' = Key(t)
             /\ call'[t].stage = "found" /\ ~Locked(Key(t)) /\ Present(Key(t))

Judges(t) == Moves(t) /\ Still /\ call[t].stage = "found" /\ ~Holds(t)'

Puts(t)   == /\ Moves(t) /\ ~Holds(t) /\ ~Locked(Key(t)) /\ UNCHANGED <<size, count>>
             /\ Key(t) \in Keys /\ Key(t)' = Key(t)
             /\ \E lost \in Victims(Key(t)) : \E e \in Entries :
                   /\ store' = [j \in Keys |-> IF j = Key(t) THEN e
                                               ELSE IF j \in lost THEN NoEntry ELSE store[j]]
                   /\ call'[t].stage = IF TakesFreeSlot(Key(t), lost) THEN "put" ELSE "done"

Counts(t) == /\ Moves(t) /\ UNCHANGED <<store, size>>
             /\ call[t].stage = "put" /\ ~Holds(t)' /\ Key(t) \in Keys
             /\ count' = [count EXCEPT ![ShardOf(Key(t))] = @ + 1]

Drops(t)  == /\ Moves(t) /\ ~Holds(t) /\ ~Locked(Key(t)) /\ UNCHANGED <<size, count>>
             /\ Key(t) \in Keys /\ Key(t)' = Key(t) /\ Present(Key(t))
             /\ store' = [store EXCEPT ![Key(t)] = NoEntry]
             /\ call'[t].stage = "dropped"

Uncounts(t) == /\ Moves(t) /\ UNCHANGED <<store, size>>
               /\ call[t].stage = "dropped" /\ ~Holds(t)' /\ Key(t) \in Keys
               /\ count' = [count EXCEPT ![ShardOf(Key(t))] = @ - 1]

Grows(t)  == /\ Moves(t) /\ UNCHANGED store /\ ~Holds(t) /\ ~Holds(t)'
             /\ \E s \in Shards : \E n \in Nat :
                   /\ ~InUse(s) /\ IsPowerOfTwo(n) /\ n > size[s] /\ Fits(s, n)
                   /\ size' = [size EXCEPT ![s] = n]
                   /\ count' = [count EXCEPT ![s] =
                                   Cardinality({k \in Keys : Present(k) /\ ShardOf(k) = s})]

Kinds(t) == \/ Quiet(t) \/ Finds(t) \/ Judges(t) \/ Puts(t) \/ Counts(t) \/ Drops(t)
            \/ Uncounts(t) \/ Grows(t)

(* No table shrinks and no eviction is taken back.                         *)
Onward == \A s \in Shards : size[s] <= size'[s] /\ evictions[s] <= evictions'[s]

(* The counters are never negative.                                        *)
LEMMA CountIs ==
    ASSUME ShardTypes, CountsRight, NEW s \in Shards
    PROVE  count[s] \in Nat /\ IsFiniteSet(Counted) /\ IsFiniteSet(CountedIn(s)) /\ Counted \subseteq Keys
<1>1. Counted \subseteq Keys
  <2>1. ASSUME NEW t \in Threads, call[t].stage = "dropped" PROVE call[t].req.key \in Keys
    BY <2>1, RecordIs DEF ShardTypes, StageRight, Key
  <2> QED BY <2>1 DEF Counted
<1>2. CountedIn(s) \subseteq Counted BY DEF CountedIn
<1>3. IsFiniteSet(Counted) /\ IsFiniteSet(CountedIn(s))
  BY <1>1, <1>2, ShardedAssumption, FS_Subset
<1> QED BY <1>1, <1>3, FS_CardinalityType DEF CountsRight

(* What Grown does to one shard.                                           *)
LEMMA GrownIs ==
    ASSUME SizesRight, NEW s \in Shards, NEW n \in Nat, IsPowerOfTwo(n), Grown(s, n)
    PROVE  \/ UNCHANGED <<size, count>>
           \/ \E m \in Nat :
                 /\ IsPowerOfTwo(m) /\ m > size[s] /\ Fits(s, m)
                 /\ size' = [size EXCEPT ![s] = m]
                 /\ count' = [count EXCEPT ![s] =
                                 Cardinality({k \in Keys : Present(k) /\ ShardOf(k) = s})]
<1>1. CASE size[s] >= n BY <1>1 DEF Grown
<1>2. CASE ~(size[s] >= n)
  <2>1. PICK i \in 0 .. n : Fits(s, n * 2^i) /\ size' = [size EXCEPT ![s] = n * 2^i]
    BY <1>2 DEF Grown
  <2>2. count' = [count EXCEPT ![s] = Cardinality({k \in Keys : Present(k) /\ ShardOf(k) = s})]
    BY <1>2 DEF Grown
  <2> DEFINE g == 2^i
             m == n * g
  <2>3. i \in Nat /\ g \in Nat /\ g >= 1 /\ i <= g BY PowerIs
  <2>4. IsPowerOfTwo(g) BY <2>3 DEF IsPowerOfTwo
  <2>5. m \in Nat /\ IsPowerOfTwo(m) BY <2>3, <2>4, PowerProduct
  <2>6. m >= n /\ size[s] \in Nat
    <3> HIDE DEF g
    <3> QED BY <2>3 DEF SizesRight
  <2>7. m > size[s]
    <3> HIDE DEF m
    <3> QED BY <1>2, <2>5, <2>6
  <2> QED BY <2>1, <2>2, <2>5, <2>7
<1> QED BY <1>1, <1>2

(* A call that goes on, and its new stage.                                 *)
LEMMA StepOf ==
    ASSUME CallsRight, NEW t \in Threads, NEW st \in Stages, NEW sh \in Shards, NEW a \in Nat, NEW r \in Results,
           Going(t, st, sh, a, r),
           st \in {"loaded", "checked", "ticked", "put"} => call[t].req.op = "insert",
           st = "found" => call[t].req.op = "get",
           st = "dropped" => call[t].req.op = "remove",
           st = "loaded" => IsPowerOfTwo(a)
    PROVE  Goes(t, st, sh, a, r) /\ CallsRight' /\ Key(t)' = Key(t) /\ (Holds(t)' <=> st \in {"put", "dropped", "found"})
<1>1. Goes(t, st, sh, a, r) /\ call' \in [Threads -> Records] BY GoingIs DEF CallsRight
<1>2. StageRight(call'[t])
  <2>1. Legal(call'[t].req) BY <1>1, RecordIs DEF Goes, StageRight
  <2> QED BY <1>1, <2>1 DEF Goes, StageRight
<1>3. CallsRight' BY <1>1, <1>2, CallsStay DEF Goes
<1> QED BY <1>1, <1>3 DEF Goes, Key, Holds

(* Steps that leave the shards alone keep their types.                     *)
LEMMA QuietTypes ==
    ASSUME ShardTypes, UNCHANGED shardVars, CallsRight'
    PROVE  ShardTypes' /\ Still /\ Onward
BY DEF ShardTypes, SizesRight, shardVars, Still, Onward

(* One lemma for each action.                                              *)
LEMMA CheckLoadKind ==
    ASSUME ShardInv, NEW t \in Threads, CheckLoad(t)
    PROVE  ShardTypes' /\ Onward /\ Quiet(t)
<1>1. CallsRight /\ SizesRight /\ call \in [Threads -> Records] BY DEF ShardInv, ShardTypes, CallsRight
<1>2. Key(t) \in Keys /\ ~Holds(t) BY <1>1, RecordIs DEF CheckLoad, At, Holds
<1> DEFINE s == ShardOf(call[t].req.key)
<1>3. s \in Shards BY <1>2, ShardIn DEF Key
<1>4. call[t].acc \in Nat /\ call[t].shard \in Shards /\ call[t].res \in Results BY <1>1, RecordIs
<1>5. CASE Becomes(t, "checked")
  <2>1. Going(t, "checked", call[t].shard, call[t].acc, call[t].res) BY <1>1, <1>5, BecomesIs
  <2>2. CallsRight' /\ ~Holds(t)' /\ Moves(t) BY <1>1, <1>4, <2>1, StepOf DEF Stages, CheckLoad, At, Goes
  <2> QED BY <1>2, <2>2, QuietTypes DEF CheckLoad, ShardInv, Quiet
<1>6. CASE call' = [call EXCEPT ![t].stage = "loaded", ![t].acc = 2 * size[s]]
  <2> DEFINE a == 2 * size[s]
  <2>1. Going(t, "loaded", call[t].shard, a, call[t].res) BY <1>1, <1>6, CarriesIs
  <2>2. a \in Nat /\ IsPowerOfTwo(a)
    <3>1. size[s] \in Nat /\ IsPowerOfTwo(size[s]) BY <1>1, <1>3 DEF SizesRight
    <3>2. 2 = 2^1 /\ 1 \in 0 .. 2
      <4>1. 2^(0 + 1) = 2 * 2^0 BY PowerStep
      <4> QED BY <4>1
    <3>3. IsPowerOfTwo(2) BY <3>2 DEF IsPowerOfTwo
    <3> QED BY <3>1, <3>3, PowerProduct
  <2> HIDE DEF a
  <2>3. CallsRight' /\ ~Holds(t)' /\ Moves(t) BY <1>1, <1>4, <2>1, <2>2, StepOf DEF Stages, CheckLoad, At, Goes
  <2> QED BY <1>2, <2>3, QuietTypes DEF CheckLoad, ShardInv, Quiet
<1> QED BY <1>5, <1>6 DEF CheckLoad

(* See CheckLoadKind.                                                      *)
LEMMA AutoGrowKind ==
    ASSUME ShardInv, NEW t \in Threads, AutoGrow(t)
    PROVE  ShardTypes' /\ Onward /\ (Quiet(t) \/ Grows(t))
<1>1. CallsRight /\ SizesRight /\ call \in [Threads -> Records] BY DEF ShardInv, ShardTypes, CallsRight
<1>2. Key(t) \in Keys /\ ~Holds(t) /\ IsPowerOfTwo(call[t].acc)
  BY <1>1, RecordIs DEF AutoGrow, At, Holds, StageRight
<1> DEFINE s == ShardOf(call[t].req.key)
<1>3. s \in Shards BY <1>2, ShardIn DEF Key
<1>4. call[t].acc \in Nat /\ call[t].shard \in Shards /\ call[t].res \in Results BY <1>1, RecordIs
<1>5. Going(t, "checked", call[t].shard, 0, call[t].res) BY <1>1, CarriesIs DEF AutoGrow
<1>6. CallsRight' /\ ~Holds(t)' /\ Moves(t) BY <1>1, <1>4, <1>5, StepOf DEF Stages, AutoGrow, At, Goes
<1>7. ~InUse(s) /\ Grown(s, call[t].acc) /\ UNCHANGED <<store, epoch, ttl, evictions>> BY DEF AutoGrow
<1>8. /\ ShardTypes /\ evictions \in [Shards -> Nat] /\ size \in [Shards -> Nat]
      /\ count \in [Shards -> Int]
  BY DEF ShardInv, ShardTypes, SizesRight
<1> HIDE DEF s
<1>9. CASE UNCHANGED <<size, count>>
  <2>1. ShardTypes' /\ Still /\ Onward BY <1>6, <1>7, <1>9, QuietTypes DEF shardVars, ShardInv
  <2> QED BY <1>2, <1>6, <2>1 DEF Quiet
<1>10. CASE ~UNCHANGED <<size, count>>
  <2>1. PICK m \in Nat : /\ IsPowerOfTwo(m) /\ m > size[s] /\ Fits(s, m)
                         /\ size' = [size EXCEPT ![s] = m]
                         /\ count' = [count EXCEPT ![s] = Cardinality({k \in Keys : Present(k) /\ ShardOf(k) = s})]
    BY <1>1, <1>2, <1>3, <1>4, <1>7, <1>10, GrownIs
  <2> DEFINE x == Cardinality({k \in Keys : Present(k) /\ ShardOf(k) = s})
  <2>2. x \in Int
    <3>1. IsFiniteSet({k \in Keys : Present(k) /\ ShardOf(k) = s}) BY ShardedAssumption, FS_Subset
    <3> QED BY <3>1, FS_CardinalityType
  <2>3. count' = [count EXCEPT ![s] = x] BY <2>1
  <2> HIDE DEF x
  <2>4. SizesRight' BY <1>1, <2>1 DEF SizesRight
  <2>5. count' \in [Shards -> Int] BY <1>8, <2>2, <2>3
  <2>6. ShardTypes' BY <1>6, <1>7, <1>8, <2>4, <2>5 DEF ShardTypes
  <2>7. Onward BY <1>7, <1>8, <2>1 DEF Onward
  <2>8. Grows(t) BY <1>2, <1>3, <1>6, <1>7, <2>1 DEF Grows
  <2> QED BY <2>6, <2>7, <2>8
<1> QED BY <1>9, <1>10

(* See CheckLoadKind.                                                      *)
LEMMA TickKind ==
    ASSUME ShardInv, NEW t \in Threads, Tick(t)
    PROVE  ShardTypes' /\ Onward /\ Quiet(t)
<1>1. CallsRight /\ SizesRight /\ call \in [Threads -> Records] BY DEF ShardInv, ShardTypes, CallsRight
<1>2. Key(t) \in Keys /\ ~Holds(t) BY <1>1, RecordIs DEF Tick, At, Holds
<1>3. ShardOf(Key(t)) \in Shards BY <1>2, ShardIn
<1>4. call[t].acc \in Nat /\ call[t].shard \in Shards /\ call[t].res \in Results BY <1>1, RecordIs
<1>5. Going(t, "ticked", call[t].shard, call[t].acc, call[t].res) BY <1>1, BecomesIs DEF Tick
<1>6. CallsRight' /\ ~Holds(t)' /\ Moves(t) BY <1>1, <1>4, <1>5, StepOf DEF Stages, Tick, At, Goes
<1>7. epoch \in [Shards -> Nat] BY DEF ShardInv, ShardTypes
<1>8. epoch' \in [Shards -> Nat] BY <1>3, <1>7 DEF Tick, Key
<1>9. UNCHANGED <<store, ttl, size, count, evictions>> BY DEF Tick
<1>10. ShardTypes' BY <1>6, <1>8, <1>9 DEF ShardInv, ShardTypes, SizesRight
<1>11. Onward BY <1>9 DEF Onward, ShardInv, ShardTypes, SizesRight
<1> QED BY <1>2, <1>6, <1>9, <1>10, <1>11 DEF Quiet, Still

(* See CheckLoadKind.                                                      *)
LEMMA PutKind ==
    ASSUME ShardInv, NEW t \in Threads, Put(t)
    PROVE  ShardTypes' /\ Onward /\ Puts(t)
<1>1. CallsRight /\ SizesRight /\ call \in [Threads -> Records] BY DEF ShardInv, ShardTypes, CallsRight
<1>2. Key(t) \in Keys /\ ~Holds(t) /\ ~Locked(Key(t)) BY <1>1, RecordIs DEF Put, At, Holds, Key
<1> DEFINE k == Key(t)
           s == ShardOf(k)
<1>3. s \in Shards BY <1>2, ShardIn
<1>4. call[t].acc \in Nat /\ call[t].shard \in Shards /\ call[t].res \in Results BY <1>1, RecordIs
<1>5. UNCHANGED <<epoch, ttl, size, count>> BY DEF Put
<1>6. PICK lost \in Victims(k) :
         /\ store' = [j \in Keys |->
               IF j = k THEN [val |-> call[t].req.val, epoch |-> epoch[s], ttl |-> call[t].req.n]
               ELSE IF j \in lost THEN NoEntry ELSE store[j]]
         /\ evictions' = [evictions EXCEPT ![s] = @ + Cardinality(lost)]
         /\ IF TakesFreeSlot(k, lost) THEN Becomes(t, "put") ELSE Answers(t, NoValue)
  BY DEF Put, Key
<1> DEFINE e == [val |-> call[t].req.val, epoch |-> epoch[s], ttl |-> call[t].req.n]
<1>7. e \in Entries
  <2>1. call[t].req.val \in Nat /\ call[t].req.n \in Nat BY <1>1, RecordIs
  <2>2. epoch[s] \in Nat BY <1>3 DEF ShardInv, ShardTypes
  <2> QED BY <2>1, <2>2 DEF Entries
<1>8. store' = [j \in Keys |-> IF j = k THEN e ELSE IF j \in lost THEN NoEntry ELSE store[j]] BY <1>6
<1>9. Cardinality(lost) \in Nat
  <2>1. lost = {} \/ \E j : lost = {j} BY DEF Victims
  <2>2. IsFiniteSet({}) /\ \A j : IsFiniteSet({j}) BY FS_EmptySet, FS_Singleton
  <2>3. IsFiniteSet(lost) BY <2>1, <2>2
  <2> QED BY <2>3, FS_CardinalityType
<1> HIDE DEF k, s, e
<1>10. store' \in [Keys -> Entries \cup {NoEntry}] BY <1>7, <1>8 DEF ShardInv, ShardTypes
<1>11. evictions' \in [Shards -> Nat] /\ \A r \in Shards : evictions[r] <= evictions'[r]
  <2>1. evictions \in [Shards -> Nat] BY DEF ShardInv, ShardTypes
  <2> DEFINE n == Cardinality(lost)
  <2>2. n \in Nat /\ evictions' = [evictions EXCEPT ![s] = @ + n] BY <1>6, <1>9
  <2> HIDE DEF n
  <2> QED BY <1>3, <2>1, <2>2
<1>12. Onward BY <1>5, <1>11 DEF Onward, ShardInv, ShardTypes, SizesRight
<1>13. CallsRight' /\ Moves(t) /\ Key(t)' = Key(t) /\ call'[t].stage = IF TakesFreeSlot(k, lost) THEN "put" ELSE "done"
  <2>1. CASE TakesFreeSlot(k, lost)
    <3>1. Going(t, "put", call[t].shard, call[t].acc, call[t].res) BY <1>1, <1>6, <2>1, BecomesIs
    <3> QED BY <1>1, <1>4, <2>1, <3>1, StepOf DEF Stages, Put, At, Goes
  <2>2. CASE ~TakesFreeSlot(k, lost)
    <3>1. Going(t, "done", 0, 0, NoValue) BY <1>1, <1>6, <2>2, AnswersIs
    <3> QED BY <1>1, <2>2, <3>1, StepOf, ShardIn DEF Stages, Results, Goes
  <2> QED BY <2>1, <2>2
<1>14. ShardTypes' BY <1>5, <1>10, <1>11, <1>13 DEF ShardInv, ShardTypes, SizesRight
<1>15. Puts(t) BY <1>2, <1>5, <1>7, <1>8, <1>13 DEF Puts, k
<1> QED BY <1>12, <1>14, <1>15

(* See CheckLoadKind.                                                      *)
LEMMA CountKind ==
    ASSUME ShardInv, NEW t \in Threads, Count(t)
    PROVE  ShardTypes' /\ Onward /\ Counts(t)
<1>1. CallsRight /\ SizesRight /\ call \in [Threads -> Records] BY DEF ShardInv, ShardTypes, CallsRight
<1>2. Key(t) \in Keys BY <1>1, RecordIs DEF Count, At
<1>3. ShardOf(Key(t)) \in Shards BY <1>2, ShardIn
<1>4. Going(t, "done", 0, 0, NoValue) BY <1>1, AnswersIs DEF Count
<1>5. CallsRight' /\ ~Holds(t)' /\ Moves(t) BY <1>1, <1>4, StepOf, ShardIn DEF Stages, Results, Goes
<1>6. UNCHANGED <<store, epoch, ttl, size, evictions>> BY DEF Count
<1>7. count' = [count EXCEPT ![ShardOf(Key(t))] = @ + 1] BY DEF Count, Key
<1>8. count' \in [Shards -> Int]
  <2>1. count \in [Shards -> Int] BY DEF ShardInv, ShardTypes
  <2> QED BY <1>3, <1>7, <2>1
<1>9. ShardTypes' BY <1>5, <1>6, <1>8 DEF ShardInv, ShardTypes, SizesRight
<1>10. Onward BY <1>6 DEF Onward, ShardInv, ShardTypes, SizesRight
<1> QED BY <1>2, <1>5, <1>6, <1>7, <1>9, <1>10 DEF Counts, Count, At

(* See CheckLoadKind.                                                      *)
LEMMA UncountKind ==
    ASSUME ShardInv, NEW t \in Threads, Uncount(t)
    PROVE  ShardTypes' /\ Onward /\ Uncounts(t)
<1>1. CallsRight /\ SizesRight /\ call \in [Threads -> Records] BY DEF ShardInv, ShardTypes, CallsRight
<1>2. Key(t) \in Keys BY <1>1, RecordIs DEF Uncount, At
<1>3. ShardOf(Key(t)) \in Shards BY <1>2, ShardIn
<1>4. Going(t, "done", 0, 0, TRUE) BY <1>1, AnswersIs DEF Uncount
<1>5. CallsRight' /\ ~Holds(t)' /\ Moves(t) BY <1>1, <1>4, StepOf, ShardIn DEF Stages, Results, Goes
<1>6. UNCHANGED <<store, epoch, ttl, size, evictions>> BY DEF Uncount
<1>7. count' = [count EXCEPT ![ShardOf(Key(t))] = @ - 1] BY DEF Uncount, Key
<1>8. count' \in [Shards -> Int]
  <2>1. count \in [Shards -> Int] BY DEF ShardInv, ShardTypes
  <2> QED BY <1>3, <1>7, <2>1
<1>9. ShardTypes' BY <1>5, <1>6, <1>8 DEF ShardInv, ShardTypes, SizesRight
<1>10. Onward BY <1>6 DEF Onward, ShardInv, ShardTypes, SizesRight
<1> QED BY <1>2, <1>5, <1>6, <1>7, <1>9, <1>10 DEF Uncounts, Uncount, At

(* See CheckLoadKind.                                                      *)
LEMMA FindKind ==
    ASSUME ShardInv, NEW t \in Threads, Find(t)
    PROVE  ShardTypes' /\ Onward /\ (Quiet(t) \/ Finds(t))
<1>1. CallsRight /\ SizesRight /\ call \in [Threads -> Records] BY DEF ShardInv, ShardTypes, CallsRight
<1>2. Key(t) \in Keys /\ ~Holds(t) /\ ~Locked(Key(t)) BY <1>1, RecordIs DEF Find, At, Holds, Key
<1> DEFINE k == call[t].req.key
           e == store[k]
           s == ShardOf(k)
           a == IF e.ttl = 0 THEN ttl[s] ELSE e.ttl
<1>3. s \in Shards /\ e \in Entries \cup {NoEntry} BY <1>2, ShardIn DEF Key, ShardInv, ShardTypes
<1>4. call[t].shard \in Shards /\ call[t].res \in Results BY <1>1, RecordIs
<1>5. CASE e = NoEntry
  <2>1. Going(t, "done", 0, 0, NoValue) BY <1>1, <1>5, AnswersIs DEF Find
  <2>2. CallsRight' /\ ~Holds(t)' /\ Moves(t) BY <1>1, <2>1, StepOf, ShardIn DEF Stages, Results, Goes
  <2> QED BY <1>2, <2>2, QuietTypes DEF Find, ShardInv, Quiet
<1>6. CASE e # NoEntry
  <2>1. call' = [call EXCEPT ![t].stage = "found", ![t].acc = a] BY <1>6 DEF Find
  <2>2. a \in Nat
    <3>1. ttl[s] \in Nat BY <1>3 DEF ShardInv, ShardTypes
    <3>2. e.ttl \in Nat BY <1>3, <1>6 DEF Entries
    <3> QED BY <3>1, <3>2
  <2> HIDE DEF a
  <2>3. Going(t, "found", call[t].shard, a, call[t].res) BY <1>1, <2>1, CarriesIs
  <2>4. Goes(t, "found", call[t].shard, a, call[t].res) /\ CallsRight' /\ Key(t)' = Key(t)
    BY <1>1, <1>4, <2>2, <2>3, StepOf DEF Stages, Find, At
  <2>5. ShardTypes' /\ Still /\ Onward BY <2>4, QuietTypes DEF Find, ShardInv
  <2>6. Present(Key(t)) BY <1>6 DEF Present, Key
  <2> QED BY <1>2, <2>4, <2>5, <2>6 DEF Finds, Goes
<1> QED BY <1>5, <1>6

(* A lookup answers with nothing or with the value that its entry has.     *)
LEMMA JudgeIs ==
    ASSUME ShardTypes, LocksRight, NEW t \in Threads, Judge(t)
    PROVE  /\ Present(Key(t)) /\ store[Key(t)] \in Entries /\ Key(t) \in Keys
           /\ \E r \in {NoValue, store[Key(t)].val} : Going(t, "done", 0, 0, r)
<1>1. CallsRight /\ call \in [Threads -> Records] BY DEF ShardTypes, CallsRight
<1>2. Key(t) \in Keys /\ Present(Key(t)) BY <1>1, RecordIs DEF Judge, At, Holds, Key, LocksRight
<1>3. store[Key(t)] \in Entries BY <1>2 DEF ShardTypes, Present
<1>4. \E r \in {NoValue, store[Key(t)].val} : Answers(t, r) BY DEF Judge, Key
<1> QED BY <1>1, <1>2, <1>3, <1>4, AnswersIs

(* See CheckLoadKind.                                                      *)
LEMMA JudgeKind ==
    ASSUME ShardInv, NEW t \in Threads, Judge(t)
    PROVE  ShardTypes' /\ Onward /\ Judges(t)
<1>1. CallsRight BY DEF ShardInv, ShardTypes
<1>2. PICK r \in {NoValue, store[Key(t)].val} : Going(t, "done", 0, 0, r) BY JudgeIs DEF ShardInv
<1>3. r \in Results BY JudgeIs DEF ShardInv, Entries, Results
<1>4. CallsRight' /\ ~Holds(t)' /\ Moves(t) BY <1>1, <1>2, <1>3, StepOf, ShardIn DEF Stages, Goes
<1> QED BY <1>4, QuietTypes DEF Judge, ShardInv, Judges, At

(* See CheckLoadKind.                                                      *)
LEMMA RemoveKind ==
    ASSUME ShardInv, NEW t \in Threads, Remove(t)
    PROVE  ShardTypes' /\ Onward /\ (Quiet(t) \/ Drops(t))
<1>1. CallsRight /\ SizesRight /\ call \in [Threads -> Records] BY DEF ShardInv, ShardTypes, CallsRight
<1>2. Key(t) \in Keys /\ ~Holds(t) /\ ~Locked(Key(t)) BY <1>1, RecordIs DEF Remove, At, Holds, Key
<1>3. store' = [store EXCEPT ![Key(t)] = NoEntry] BY DEF Remove, Key
<1>4. UNCHANGED <<epoch, ttl, size, count, evictions>> BY DEF Remove
<1>5. call[t].acc \in Nat /\ call[t].shard \in Shards /\ call[t].res \in Results BY <1>1, RecordIs
<1>6. store \in [Keys -> Entries \cup {NoEntry}] BY DEF ShardInv, ShardTypes
<1>7. CASE ~Present(Key(t))
  <2>1. Going(t, "done", 0, 0, FALSE) BY <1>1, <1>7, AnswersIs DEF Remove, Key
  <2>2. CallsRight' /\ ~Holds(t)' /\ Moves(t) BY <1>1, <2>1, StepOf, ShardIn DEF Stages, Results, Goes
  <2>3. store' = store BY <1>2, <1>3, <1>6, <1>7 DEF Present
  <2> QED BY <1>2, <1>4, <2>2, <2>3, QuietTypes DEF ShardInv, Quiet, shardVars
<1>8. CASE Present(Key(t))
  <2>1. Going(t, "dropped", call[t].shard, call[t].acc, call[t].res) BY <1>1, <1>8, BecomesIs DEF Remove, Key
  <2>2. Goes(t, "dropped", call[t].shard, call[t].acc, call[t].res) /\ CallsRight' /\ Key(t)' = Key(t)
    BY <1>1, <1>5, <2>1, StepOf DEF Stages, Remove, At
  <2>3. store' \in [Keys -> Entries \cup {NoEntry}] BY <1>2, <1>3, <1>6
  <2>4. ShardTypes' BY <1>4, <2>2, <2>3 DEF ShardInv, ShardTypes, SizesRight
  <2>5. Onward BY <1>4 DEF Onward, ShardInv, ShardTypes, SizesRight
  <2> QED BY <1>2, <1>3, <1>4, <1>8, <2>2, <2>4, <2>5 DEF Drops, Goes
<1> QED BY <1>7, <1>8

(* A turn of a loop keeps no lock.                                         *)
LEMMA TurnQuiet ==
    ASSUME CallsRight, NEW t \in Threads, call[t].stage = "called",
           NEW a \in Nat, NEW r \in Results, Turn(t, a, r)
    PROVE  CallsRight' /\ Moves(t) /\ ~Holds(t) /\ ~Holds(t)'
<1>1. /\ call' \in [Threads -> Records] /\ Moves(t) /\ call'[t].req = call[t].req
      /\ call'[t].stage \in {"done", "called"}
  BY TurnIs DEF Goes
<1>2. StageRight(call'[t]) BY <1>1, RecordIs DEF StageRight
<1> QED BY <1>1, <1>2, CallsStay DEF Holds

(* See CheckLoadKind.                                                      *)
LEMMA SetTtlKind ==
    ASSUME ShardInv, NEW t \in Threads, SetTtl(t)
    PROVE  ShardTypes' /\ Onward /\ Quiet(t)
<1>1. CallsRight BY DEF ShardInv, ShardTypes
<1>2. CallsRight' /\ Moves(t) /\ ~Holds(t) /\ ~Holds(t)' BY <1>1, TurnQuiet DEF SetTtl, At, Results
<1>3. call[t].shard \in Shards /\ call[t].req.n \in Nat BY <1>1, RecordIs
<1>4. ttl \in [Shards -> Nat] BY DEF ShardInv, ShardTypes
<1>5. ttl' \in [Shards -> Nat] BY <1>3, <1>4 DEF SetTtl
<1>6. UNCHANGED <<store, epoch, size, count, evictions>> BY DEF SetTtl
<1>7. ShardTypes' BY <1>2, <1>5, <1>6 DEF ShardInv, ShardTypes, SizesRight
<1>8. Onward BY <1>6 DEF Onward, ShardInv, ShardTypes, SizesRight
<1> QED BY <1>2, <1>6, <1>7, <1>8 DEF Quiet, Still

(* See CheckLoadKind.                                                      *)
LEMMA ResizeAllKind ==
    ASSUME ShardInv, NEW t \in Threads, ResizeAll(t)
    PROVE  ShardTypes' /\ Onward /\ (Quiet(t) \/ Grows(t))
<1>1. CallsRight /\ SizesRight BY DEF ShardInv, ShardTypes
<1>2. CallsRight' /\ Moves(t) /\ ~Holds(t) /\ ~Holds(t)' BY <1>1, TurnQuiet DEF ResizeAll, At, Results
<1> DEFINE s == call[t].shard
           n == call[t].req.n
<1>3. s \in Shards /\ n \in Nat /\ IsPowerOfTwo(n) BY <1>1, RecordIs DEF ResizeAll, At, StageRight, Legal
<1>7. ~InUse(s) /\ Grown(s, n) /\ UNCHANGED <<store, epoch, ttl, evictions>> BY DEF ResizeAll
<1>8. /\ ShardTypes /\ evictions \in [Shards -> Nat] /\ size \in [Shards -> Nat]
      /\ count \in [Shards -> Int]
  BY DEF ShardInv, ShardTypes, SizesRight
<1> HIDE DEF s, n
<1>9. CASE UNCHANGED <<size, count>>
  <2>1. ShardTypes' /\ Still /\ Onward BY <1>2, <1>7, <1>9, QuietTypes DEF shardVars, ShardInv
  <2> QED BY <1>2, <2>1 DEF Quiet
<1>10. CASE ~UNCHANGED <<size, count>>
  <2>1. PICK m \in Nat : /\ IsPowerOfTwo(m) /\ m > size[s] /\ Fits(s, m)
                         /\ size' = [size EXCEPT ![s] = m]
                         /\ count' = [count EXCEPT ![s] = Cardinality({k \in Keys : Present(k) /\ ShardOf(k) = s})]
    BY <1>1, <1>3, <1>7, <1>10, GrownIs
  <2> DEFINE x == Cardinality({k \in Keys : Present(k) /\ ShardOf(k) = s})
  <2>2. x \in Int
    <3>1. IsFiniteSet({k \in Keys : Present(k) /\ ShardOf(k) = s}) BY ShardedAssumption, FS_Subset
    <3> QED BY <3>1, FS_CardinalityType
  <2>3. count' = [count EXCEPT ![s] = x] BY <2>1
  <2> HIDE DEF x
  <2>4. SizesRight' BY <1>1, <2>1 DEF SizesRight
  <2>5. count' \in [Shards -> Int] BY <1>8, <2>2, <2>3
  <2>6. ShardTypes' BY <1>2, <1>7, <1>8, <2>4, <2>5 DEF ShardTypes
  <2>7. Onward BY <1>7, <1>8, <2>1 DEF Onward
  <2>8. Grows(t) BY <1>2, <1>3, <1>7, <2>1 DEF Grows
  <2> QED BY <2>6, <2>7, <2>8
<1> QED BY <1>9, <1>10

(* What a statistic reads in one shard and carries on.                     *)
Carry(op, a, s) == IF op # "current_epoch" THEN a + Stat(op, s)
                   ELSE IF Stat(op, s) > a THEN Stat(op, s) ELSE a

(* One turn of a statistic.                                                *)
LEMMA StatsIs ==
    ASSUME ShardTypes, CountsRight, NEW t \in Threads, Stats(t)
    PROVE  LET a == Carry(call[t].req.op, call[t].acc, call[t].shard)
           IN  call[t].stage = "called" /\ a \in Nat /\ Turn(t, a, a)
<1>1. call[t].acc \in Nat /\ call[t].shard \in Shards BY RecordIs DEF ShardTypes
<1>2. PICK op \in {"len", "capacity", "eviction_count", "current_epoch"} :
         call[t].req.op = op /\ Turn(t, Carry(op, call[t].acc, call[t].shard), Carry(op, call[t].acc, call[t].shard))
  BY DEF Stats, Carry
<1> DEFINE s == call[t].shard
<1>3. /\ count[s] \in Nat /\ size[s] \in Nat /\ evictions[s] \in Nat /\ epoch[s] \in Nat /\ Ways \in Nat
  BY <1>1, CountIs, ShardedAssumption DEF ShardTypes, SizesRight
<1> DEFINE p == size[s] * Ways
<1>4. p \in Nat BY <1>3
<1> HIDE DEF p
<1>5. Stat(op, s) \in {count[s], p, evictions[s], epoch[s]} BY DEF Stat, p
<1>6. Stat(op, s) \in Nat BY <1>3, <1>4, <1>5
<1> HIDE DEF s
<1>7. Carry(op, call[t].acc, s) \in Nat BY <1>1, <1>6 DEF Carry
<1> QED BY <1>2, <1>7 DEF s, Stats

(* See CheckLoadKind.                                                      *)
LEMMA StatsKind ==
    ASSUME ShardInv, NEW t \in Threads, Stats(t)
    PROVE  ShardTypes' /\ Onward /\ Quiet(t)
<1>1. CallsRight /\ ShardTypes /\ CountsRight BY DEF ShardInv, ShardTypes
<1> DEFINE a == Carry(call[t].req.op, call[t].acc, call[t].shard)
<1>2. call[t].stage = "called" /\ a \in Nat /\ Turn(t, a, a) BY <1>1, StatsIs
<1> HIDE DEF a
<1>3. a \in Results BY <1>2 DEF Results
<1>4. CallsRight' /\ Moves(t) /\ ~Holds(t) /\ ~Holds(t)' BY <1>1, <1>2, <1>3, TurnQuiet
<1> QED BY <1>1, <1>4, QuietTypes DEF Stats, Quiet

(* See CheckLoadKind.                                                      *)
LEMMA IsEmptyKind ==
    ASSUME ShardInv, NEW t \in Threads, IsEmpty(t)
    PROVE  ShardTypes' /\ Onward /\ Quiet(t)
<1>1. CallsRight /\ ShardTypes /\ call \in [Threads -> Records] BY DEF ShardInv, ShardTypes, CallsRight
<1>2. CASE Answers(t, FALSE)
  <2>1. Going(t, "done", 0, 0, FALSE) BY <1>1, <1>2, AnswersIs
  <2>2. CallsRight' /\ ~Holds(t)' /\ Moves(t) BY <1>1, <2>1, StepOf, ShardIn DEF Stages, Results, Goes
  <2> QED BY <1>1, <2>2, QuietTypes DEF IsEmpty, Quiet, At, Holds
<1>3. CASE Turn(t, 0, TRUE)
  <2>1. CallsRight' /\ Moves(t) /\ ~Holds(t) /\ ~Holds(t)' BY <1>1, <1>3, TurnQuiet DEF IsEmpty, At, Results
  <2> QED BY <1>1, <2>1, QuietTypes DEF IsEmpty, Quiet
<1> QED BY <1>2, <1>3 DEF IsEmpty

(* See CheckLoadKind.                                                      *)
LEMMA GetTtlKind ==
    ASSUME ShardInv, NEW t \in Threads, GetTtl(t)
    PROVE  ShardTypes' /\ Onward /\ Quiet(t)
<1>1. CallsRight /\ ShardTypes /\ call \in [Threads -> Records] BY DEF ShardInv, ShardTypes, CallsRight
<1>2. Going(t, "done", 0, 0, ttl[0]) BY <1>1, AnswersIs DEF GetTtl
<1>3. ttl[0] \in Results BY ShardIn DEF ShardInv, ShardTypes, Results
<1>4. CallsRight' /\ ~Holds(t)' /\ Moves(t) BY <1>1, <1>2, <1>3, StepOf, ShardIn DEF Stages, Goes
<1> QED BY <1>1, <1>4, QuietTypes DEF GetTtl, Quiet, At, Holds

(* A call begins.                                                          *)
LEMMA InvokeKind ==
    ASSUME ShardInv, NEW t \in Threads, NEW c, Legal(c), Invoke(t, c)
    PROVE  /\ ShardTypes' /\ Onward /\ Quiet(t) /\ call[t].stage = "done"
           /\ call'[t] = [req |-> c, stage |-> "called", shard |-> 0, acc |-> 0, res |-> NoValue]
<1>1. CallsRight /\ ShardTypes /\ call \in [Threads -> Records] BY DEF ShardInv, ShardTypes, CallsRight
<1> DEFINE r == [req |-> c, stage |-> "called", shard |-> 0, acc |-> 0, res |-> NoValue]
<1>2. r \in Records BY ShardIn DEF Records, Stages, Results, Legal
<1>3. StageRight(r) BY DEF StageRight
<1>4. call' = [call EXCEPT ![t] = r] /\ r.stage = "called" BY DEF Invoke
<1> HIDE DEF r
<1>5. call' \in [Threads -> Records] /\ call'[t] = r /\ Moves(t) BY <1>1, <1>2, <1>4 DEF Moves
<1>6. CallsRight' BY <1>1, <1>3, <1>5, CallsStay
<1>7. Quiet(t) /\ ShardTypes' /\ Onward
  BY <1>1, <1>4, <1>5, <1>6, QuietTypes DEF Quiet, Holds, Invoke
<1> QED BY <1>5, <1>7 DEF r, Invoke

(* Every step of a call is of one of the kinds.                            *)
LEMMA StepKind ==
    ASSUME ShardInv, NEW t \in Threads, Step(t)
    PROVE  ShardTypes' /\ Onward /\ Kinds(t)
BY CheckLoadKind, AutoGrowKind, TickKind, PutKind, CountKind, FindKind, JudgeKind, RemoveKind,
   UncountKind, SetTtlKind, ResizeAllKind, StatsKind, IsEmptyKind, GetTtlKind
   DEF Step, Kinds

-----------------------------------------------------------------------------
(* The bucket locks.                                                       *)

(* Who holds a lock has a key.                                             *)
LEMMA HolderKey ==
    ASSUME CallsRight, NEW t \in Threads, Holds(t)
    PROVE  Key(t) \in Keys /\ ShardOf(Key(t)) \in Shards
BY RecordIs, ShardIn DEF StageRight, Holds

(* The first part of LocksRight, from what the step of t changes.          *)
LEMMA LocksApart ==
    ASSUME LocksRight, NEW t \in Threads, Moves(t),
           \A u, w \in Threads \ {t} :
              Holds(u) /\ Holds(w) /\ SameBucket(Key(u), Key(w))' => SameBucket(Key(u), Key(w)),
           \A u \in Threads \ {t} : Holds(t)' /\ Holds(u) => ~SameBucket(Key(t), Key(u))'
    PROVE  \A u, w \in Threads : (Holds(u) /\ Holds(w) /\ u # w => ~SameBucket(Key(u), Key(w)))'
<1> SUFFICES ASSUME NEW u \in Threads, NEW w \in Threads, u # w, Holds(u)', Holds(w)',
                    SameBucket(Key(u), Key(w))'
             PROVE  FALSE
  OBVIOUS
<1>1. \A x \in Threads \ {t} : (Holds(x)' => Holds(x)) BY DEF Moves, Holds
<1>2. SameBucket(Key(w), Key(u))' BY DEF SameBucket
<1>3. CASE u # t /\ w # t BY <1>1, <1>3 DEF LocksRight
<1>4. CASE u = t BY <1>1, <1>4
<1>5. CASE w = t BY <1>1, <1>2, <1>5
<1> QED BY <1>3, <1>4, <1>5

(* With the sizes, the buckets of keys that stay do not change.            *)
LEMMA BucketsStay ==
    ASSUME NEW t \in Threads, Moves(t), UNCHANGED size
    PROVE  /\ \A j, k : SameBucket(j, k)' <=> SameBucket(j, k)
           /\ \A u, w \in Threads \ {t} : SameBucket(Key(u), Key(w))' <=> SameBucket(Key(u), Key(w))
           /\ \A u \in Threads \ {t} : Key(u)' = Key(u)
           /\ Key(t)' = Key(t) => \A u \in Threads \ {t} :
                 SameBucket(Key(t), Key(u))' <=> SameBucket(Key(t), Key(u))
BY DEF SameBucket, Moves, Key

(* Locks are kept apart by every kind of step.                             *)
LEMMA LocksStep ==
    ASSUME ShardInv, NEW t \in Threads, Kinds(t)
    PROVE  LocksRight'
<1>1. LocksRight /\ CallsRight /\ Moves(t)
  BY DEF ShardInv, ShardTypes, Kinds, Quiet, Finds, Judges, Puts, Counts, Drops, Uncounts, Grows
<1>2. \A u \in Threads \ {t} : call'[u] = call[u] /\ Key(u)' = Key(u) /\ (Holds(u)' <=> Holds(u))
  BY <1>1 DEF Moves, Key, Holds
<1> DEFINE StoreKept == \A u \in Threads \ {t} : Holds(u) => (Present(Key(u))' <=> Present(Key(u)))
           Own == /\ call'[t].stage \in {"put", "found"} => Present(Key(t))'
                  /\ call'[t].stage = "dropped" => ~Present(Key(t))'
<1>3. ASSUME StoreKept, Own
      PROVE  \A u \in Threads : (/\ call[u].stage \in {"put", "found"} => Present(Key(u))
                                 /\ call[u].stage = "dropped" => ~Present(Key(u)))'
  <2> SUFFICES ASSUME NEW u \in Threads
               PROVE  /\ call'[u].stage \in {"put", "found"} => Present(Key(u))'
                      /\ call'[u].stage = "dropped" => ~Present(Key(u))'
    OBVIOUS
  <2>1. CASE u = t BY <1>3, <2>1
  <2>2. CASE u # t BY <1>1, <1>2, <1>3, <2>2 DEF LocksRight, Holds
  <2> QED BY <2>1, <2>2
<1>4. ASSUME UNCHANGED store PROVE StoreKept BY <1>2, <1>4 DEF Present
<1>5. ASSUME UNCHANGED size, ~Holds(t)', StoreKept PROVE LocksRight'
  <2>1. Own BY <1>5 DEF Holds
  <2>2. \A u, w \in Threads : (Holds(u) /\ Holds(w) /\ u # w => ~SameBucket(Key(u), Key(w)))'
    BY <1>1, <1>5, BucketsStay, LocksApart
  <2> QED BY <1>3, <1>5, <2>1, <2>2 DEF LocksRight
<1>6. ASSUME UNCHANGED size, Key(t)' = Key(t), ~Locked(Key(t)), StoreKept, Own PROVE LocksRight'
  <2>1. \A u \in Threads \ {t} : Holds(u) => ~SameBucket(Key(t), Key(u))
    BY <1>6 DEF Locked, Key, SameBucket
  <2>2. \A u, w \in Threads : (Holds(u) /\ Holds(w) /\ u # w => ~SameBucket(Key(u), Key(w)))'
    BY <1>1, <1>6, <2>1, BucketsStay, LocksApart
  <2> QED BY <1>3, <1>6, <2>2 DEF LocksRight
<1> HIDE DEF StoreKept, Own
<1>7. CASE Quiet(t) BY <1>4, <1>5, <1>7 DEF Quiet, Still
<1>8. CASE Judges(t) BY <1>4, <1>5, <1>8 DEF Judges, Still
<1>9. CASE Counts(t) BY <1>4, <1>5, <1>9 DEF Counts
<1>10. CASE Uncounts(t) BY <1>4, <1>5, <1>10 DEF Uncounts
<1>11. CASE Finds(t)
  <2>1. Own BY <1>11 DEF Own, Finds, Still, Present
  <2> QED BY <1>4, <1>6, <1>11, <2>1 DEF Finds, Still
<1>12. ASSUME NEW u \in Threads \ {t}, ~Locked(Key(t)), Holds(u)
       PROVE  Key(u) # Key(t) /\ Key(u) \in Keys /\ \A lost \in Victims(Key(t)) : Key(u) \notin lost
  <2>1. ~SameBucket(Key(u), Key(t)) BY <1>12 DEF Locked, Key
  <2>2. ~(ShardOf(Key(u)) = ShardOf(Key(t)) /\ Index(Key(u), size[ShardOf(Key(t))]) = Index(Key(t), size[ShardOf(Key(t))]))
    BY <2>1 DEF SameBucket
  <2>3. Key(u) \in Keys BY <1>1, <1>12, HolderKey
  <2>4. Key(u) \notin RivalsIn(Key(t), size[ShardOf(Key(t))]) BY <2>2 DEF RivalsIn
  <2>5. \A lost \in Victims(Key(t)) : lost \subseteq RivalsIn(Key(t), size[ShardOf(Key(t))])
    BY DEF Victims
  <2> QED BY <2>1, <2>3, <2>4, <2>5 DEF SameBucket
<1>13. CASE Puts(t)
  <2>1. PICK lost \in Victims(Key(t)), e \in Entries :
           /\ store' = [j \in Keys |-> IF j = Key(t) THEN e ELSE IF j \in lost THEN NoEntry ELSE store[j]]
           /\ call'[t].stage = IF TakesFreeSlot(Key(t), lost) THEN "put" ELSE "done"
    BY <1>13 DEF Puts
  <2>2. StoreKept
    <3> SUFFICES ASSUME NEW u \in Threads \ {t}, Holds(u) PROVE Present(Key(u))' <=> Present(Key(u))
      BY DEF StoreKept
    <3>1. Key(u) # Key(t) /\ Key(u) \in Keys /\ Key(u) \notin lost BY <1>12, <1>13 DEF Puts
    <3>2. store'[Key(u)] = store[Key(u)] BY <2>1, <3>1
    <3> QED BY <1>2, <3>2 DEF Present
  <2>3. Own
    <3>1. store'[Key(t)] = e /\ e # NoEntry
      BY <1>13, <2>1, ShardedAssumption DEF Puts, Entries
    <3> QED BY <1>13, <2>1, <3>1 DEF Own, Puts, Present
  <2> QED BY <1>6, <1>13, <2>2, <2>3 DEF Puts
<1>14. CASE Drops(t)
  <2>1. store \in [Keys -> Entries \cup {NoEntry}] BY DEF ShardInv, ShardTypes
  <2>2. StoreKept
    <3> SUFFICES ASSUME NEW u \in Threads \ {t}, Holds(u) PROVE Present(Key(u))' <=> Present(Key(u))
      BY DEF StoreKept
    <3>1. Key(u) # Key(t) /\ Key(u) \in Keys BY <1>12, <1>14 DEF Drops
    <3>2. store'[Key(u)] = store[Key(u)] BY <1>14, <2>1, <3>1 DEF Drops
    <3> QED BY <1>2, <3>2 DEF Present
  <2>3. Own BY <1>14, <2>1 DEF Own, Drops, Present
  <2> QED BY <1>6, <1>14, <2>2, <2>3 DEF Drops
<1>15. CASE Grows(t)
  <2>1. PICK s \in Shards, n \in Nat : ~InUse(s) /\ size' = [size EXCEPT ![s] = n] BY <1>15 DEF Grows
  <2>2. \A u \in Threads \ {t} : Holds(u) => /\ ShardOf(Key(u)) # s /\ ShardOf(Key(u)) \in Shards
                                              /\ size'[ShardOf(Key(u))] = size[ShardOf(Key(u))]
    <3> SUFFICES ASSUME NEW u \in Threads \ {t}, Holds(u)
                 PROVE  /\ ShardOf(Key(u)) # s /\ ShardOf(Key(u)) \in Shards
                        /\ size'[ShardOf(Key(u))] = size[ShardOf(Key(u))]
      OBVIOUS
    <3>1. ShardOf(Key(u)) # s BY <2>1 DEF InUse, Key
    <3>2. ShardOf(Key(u)) \in Shards BY <1>1, HolderKey
    <3> QED BY <2>1, <3>1, <3>2 DEF ShardInv, ShardTypes, SizesRight
  <2>3. \A u, w \in Threads \ {t} :
           Holds(u) /\ Holds(w) /\ SameBucket(Key(u), Key(w))' => SameBucket(Key(u), Key(w))
    <3> SUFFICES ASSUME NEW u \in Threads \ {t}, NEW w \in Threads \ {t}, Holds(u), Holds(w),
                        SameBucket(Key(u), Key(w))'
                 PROVE  SameBucket(Key(u), Key(w))
      OBVIOUS
    <3>1. Key(u)' = Key(u) /\ Key(w)' = Key(w) BY <1>2
    <3> QED BY <2>2, <3>1 DEF SameBucket
  <2>4. ~Holds(t)' BY <1>15 DEF Grows
  <2>5. \A u, w \in Threads : (Holds(u) /\ Holds(w) /\ u # w => ~SameBucket(Key(u), Key(w)))'
    BY <1>1, <2>3, <2>4, LocksApart
  <2>6. StoreKept BY <1>4, <1>15 DEF Grows
  <2>7. Own BY <2>4 DEF Own, Holds
  <2> QED BY <1>3, <2>5, <2>6, <2>7 DEF LocksRight
<1> QED BY <1>7, <1>8, <1>9, <1>10, <1>11, <1>13, <1>14, <1>15 DEF Kinds

-----------------------------------------------------------------------------
(* The counters.                                                           *)

(* A key is counted if it is there, unless its insertion has still to be   *)
(* counted, or if its removal has still to be.                             *)
InCount(k) == (Present(k) /\ ~Pending(k)) \/ Dropped(k)

(* See InCount.                                                            *)
LEMMA CountedIs == CallsRight => \A k : k \in Counted <=> k \in Keys /\ InCount(k)
<1> SUFFICES ASSUME CallsRight, NEW k PROVE k \in Counted <=> k \in Keys /\ InCount(k) OBVIOUS
<1>1. ASSUME NEW t \in Threads, call[t].stage = "dropped" PROVE call[t].req.key \in Keys
  BY <1>1, HolderKey DEF Holds, Key
<1> QED BY <1>1 DEF Counted, InCount, Pending, Dropped, Key

(* What the other threads are about to count.                              *)
Elsewhere(t, st, k) == \E u \in Threads \ {t} : call[u].stage = st /\ Key(u) = k

(* A step changes what is to be counted by one thread only.                *)
LEMMA PendingMoves ==
    ASSUME NEW t \in Threads, Moves(t), NEW k
    PROVE  /\ Pending(k)  <=> Elsewhere(t, "put", k) \/ (call[t].stage = "put" /\ Key(t) = k)
           /\ Pending(k)' <=> Elsewhere(t, "put", k) \/ (call'[t].stage = "put" /\ Key(t)' = k)
           /\ Dropped(k)  <=> Elsewhere(t, "dropped", k) \/ (call[t].stage = "dropped" /\ Key(t) = k)
           /\ Dropped(k)' <=> Elsewhere(t, "dropped", k) \/ (call'[t].stage = "dropped" /\ Key(t)' = k)
<1>1. \A u \in Threads \ {t} : call'[u] = call[u] /\ Key(u)' = Key(u) BY DEF Moves, Key
<1>2. Pending(k) <=> Elsewhere(t, "put", k) \/ (call[t].stage = "put" /\ Key(t) = k)
  BY DEF Pending, Elsewhere
<1>3. Dropped(k) <=> Elsewhere(t, "dropped", k) \/ (call[t].stage = "dropped" /\ Key(t) = k)
  BY DEF Dropped, Elsewhere
<1>4. Pending(k)' <=> Elsewhere(t, "put", k) \/ (call'[t].stage = "put" /\ Key(t)' = k)
  BY <1>1 DEF Pending, Elsewhere
<1>5. Dropped(k)' <=> Elsewhere(t, "dropped", k) \/ (call'[t].stage = "dropped" /\ Key(t)' = k)
  BY <1>1 DEF Dropped, Elsewhere
<1> QED BY <1>2, <1>3, <1>4, <1>5

(* Nobody else holds a key in a bucket that t holds or finds unlocked.     *)
LEMMA AloneInBucket ==
    ASSUME LocksRight, NEW t \in Threads, Holds(t) \/ ~Locked(Key(t)), NEW k, SameBucket(k, Key(t))
    PROVE  ~Elsewhere(t, "put", k) /\ ~Elsewhere(t, "dropped", k)
<1> SUFFICES ASSUME NEW u \in Threads \ {t}, Holds(u), Key(u) = k PROVE FALSE
  BY DEF Elsewhere, Holds
<1> QED BY DEF LocksRight, Locked, Key

(* How a step changes the set of counted keys.                             *)
Swapped(j, k) == /\ j \in Counted /\ k \in Keys \ Counted /\ ShardOf(j) = ShardOf(k)
                 /\ Counted' = (Counted \ {j}) \cup {k}

(* Only an eviction, a count and an uncount change it.                     *)
LEMMA CountedStep ==
    ASSUME ShardInv, NEW t \in Threads, Kinds(t), CallsRight'
    PROVE  /\ Quiet(t) \/ Finds(t) \/ Judges(t) \/ Drops(t) \/ Grows(t) => Counted' = Counted
           /\ Counts(t) => Key(t) \notin Counted /\ Counted' = Counted \cup {Key(t)}
           /\ Uncounts(t) => Key(t) \in Counted /\ Counted' = Counted \ {Key(t)}
           /\ Puts(t) => Counted' = Counted \/ \E j \in Keys : Swapped(j, Key(t))
<1>1. /\ LocksRight /\ CallsRight /\ Moves(t) /\ ShardTypes
      /\ store \in [Keys -> Entries \cup {NoEntry}]
  BY DEF ShardInv, ShardTypes, Kinds, Quiet, Finds, Judges, Puts, Counts, Drops, Uncounts, Grows
<1>2. \A k : k \in Counted <=> k \in Keys /\ InCount(k) BY <1>1, CountedIs
<1>3. \A k : k \in Counted' <=> k \in Keys /\ InCount(k)'
  <2>1. (CallsRight => \A k : k \in Counted <=> k \in Keys /\ InCount(k))' BY CountedIs, PTL
  <2> QED BY <2>1
<1>4. SameBucket(Key(t), Key(t)) BY DEF SameBucket
<1>5. ASSUME Quiet(t) \/ Finds(t) \/ Judges(t) \/ Grows(t) PROVE Counted' = Counted
  <2>1. \A k : (Pending(k)' <=> Pending(k)) /\ (Dropped(k)' <=> Dropped(k)) /\ (Present(k)' <=> Present(k))
    BY <1>1, <1>5, PendingMoves DEF Quiet, Finds, Judges, Grows, Holds, Still, Present
  <2> QED BY <1>2, <1>3, <2>1 DEF InCount
<1>6. ASSUME Drops(t) PROVE Counted' = Counted
  <2> SUFFICES ASSUME NEW k \in Keys PROVE InCount(k)' <=> InCount(k) BY <1>2, <1>3
  <2>1. CASE k = Key(t)
    <3>1. ~Elsewhere(t, "put", k) BY <1>1, <1>4, <1>6, <2>1, AloneInBucket DEF Drops
    <3>2. ~Pending(k) /\ Dropped(k)' BY <1>1, <1>6, <2>1, <3>1, PendingMoves DEF Drops, Holds
    <3> QED BY <1>6, <2>1, <3>2 DEF InCount, Drops
  <2>2. CASE k # Key(t)
    <3>1. Present(k)' <=> Present(k) BY <1>1, <1>6, <2>2 DEF Drops, Present
    <3> QED BY <1>1, <1>6, <2>2, <3>1, PendingMoves DEF Drops, InCount, Holds
  <2> QED BY <2>1, <2>2
<1>7. ASSUME Counts(t) PROVE Key(t) \notin Counted /\ Counted' = Counted \cup {Key(t)}
  <2>0. PICK k : k = Key(t) OBVIOUS
  <2>1. Present(k) /\ Holds(t) BY <1>1, <1>7, <2>0 DEF Counts, LocksRight, Holds
  <2>2. ~Elsewhere(t, "put", k) /\ ~Elsewhere(t, "dropped", k) BY <1>1, <1>4, <2>0, <2>1, AloneInBucket
  <2>3. \A i : Present(i)' <=> Present(i) BY <1>7 DEF Counts, Present
  <2>4. call[t].stage = "put" /\ call'[t].stage \notin {"put", "dropped"} /\ k \in Keys
    BY <1>7, <2>0 DEF Counts, Holds
  <2>5. ~InCount(k) /\ InCount(k)' BY <1>1, <2>0, <2>1, <2>2, <2>3, <2>4, PendingMoves DEF InCount
  <2>6. \A i : i # k => (InCount(i)' <=> InCount(i)) BY <1>1, <2>0, <2>3, <2>4, PendingMoves DEF InCount
  <2>7. \A i : i \in Counted' <=> i \in Counted \cup {k} BY <1>2, <1>3, <2>4, <2>5, <2>6
  <2>8. k \notin Counted BY <1>2, <2>5
  <2> QED BY <2>0, <2>7, <2>8
<1>8. ASSUME Uncounts(t) PROVE Key(t) \in Counted /\ Counted' = Counted \ {Key(t)}
  <2>0. PICK k : k = Key(t) OBVIOUS
  <2>1. ~Present(k) /\ Holds(t) BY <1>1, <1>8, <2>0 DEF Uncounts, LocksRight, Holds
  <2>2. ~Elsewhere(t, "put", k) /\ ~Elsewhere(t, "dropped", k) BY <1>1, <1>4, <2>0, <2>1, AloneInBucket
  <2>3. \A i : Present(i)' <=> Present(i) BY <1>8 DEF Uncounts, Present
  <2>4. call[t].stage = "dropped" /\ call'[t].stage \notin {"put", "dropped"} /\ k \in Keys
    BY <1>8, <2>0 DEF Uncounts, Holds
  <2>5. InCount(k) /\ ~InCount(k)' BY <1>1, <2>0, <2>1, <2>2, <2>3, <2>4, PendingMoves DEF InCount
  <2>6. \A i : i # k => (InCount(i)' <=> InCount(i)) BY <1>1, <2>0, <2>3, <2>4, PendingMoves DEF InCount
  <2>7. \A i : i \in Counted' <=> i \in Counted \ {k} BY <1>2, <1>3, <2>4, <2>5, <2>6
  <2>8. k \in Counted BY <1>2, <2>4, <2>5
  <2> QED BY <2>0, <2>7, <2>8
<1>9. ASSUME Puts(t) PROVE Counted' = Counted \/ \E j \in Keys : Swapped(j, Key(t))
  <2>1. PICK lost \in Victims(Key(t)), e \in Entries :
           /\ store' = [j \in Keys |-> IF j = Key(t) THEN e ELSE IF j \in lost THEN NoEntry ELSE store[j]]
           /\ call'[t].stage = IF TakesFreeSlot(Key(t), lost) THEN "put" ELSE "done"
    BY <1>9 DEF Puts
  <2>2. /\ Key(t) \in Keys /\ Key(t)' = Key(t) /\ ~Locked(Key(t)) /\ call[t].stage \notin {"put", "dropped"}
    BY <1>9 DEF Puts, Holds
  <2> DEFINE k == Key(t)
  <2>3. ~Elsewhere(t, "put", k) /\ ~Elsewhere(t, "dropped", k) BY <1>1, <1>4, <2>2, AloneInBucket
  <2>4. Present(k)'
    <3>1. e # NoEntry BY ShardedAssumption DEF Entries
    <3> QED BY <2>1, <2>2, <3>1 DEF Present
  <2>5. ~Pending(k) /\ ~Dropped(k) /\ ~Dropped(k)' /\ (Pending(k)' <=> call'[t].stage = "put")
    BY <1>1, <2>1, <2>2, <2>3, PendingMoves
  <2>6. \A i : i # k => (Pending(i)' <=> Pending(i)) /\ (Dropped(i)' <=> Dropped(i))
    BY <1>1, <2>1, <2>2, PendingMoves
  <2>7. CASE lost = {}
    <3>1. InCount(k)' <=> InCount(k) BY <2>1, <2>4, <2>5, <2>7 DEF InCount, TakesFreeSlot
    <3>2. \A i \in Keys : i # k => (Present(i)' <=> Present(i)) BY <2>1, <2>7 DEF Present
    <3>3. \A i \in Keys : i # k => (InCount(i)' <=> InCount(i)) BY <2>6, <3>2 DEF InCount
    <3>4. \A i : i \in Counted' <=> i \in Counted BY <1>2, <1>3, <2>2, <3>1, <3>3
    <3> QED BY <3>4
  <2>8. CASE lost # {}
    <3>1. PICK j \in RivalsIn(k, size[ShardOf(k)]) : lost = {j} /\ ~Present(k) BY <2>8 DEF Victims
    <3>2. j \in Keys /\ j # k /\ Present(j) /\ ShardOf(j) = ShardOf(k) /\ SameBucket(j, k)
      BY <3>1 DEF RivalsIn, SameBucket
    <3>3. ~Elsewhere(t, "put", j) /\ ~Elsewhere(t, "dropped", j) BY <1>1, <2>2, <3>2, AloneInBucket
    <3>4. ~Pending(j) /\ ~Dropped(j) /\ ~Dropped(j)' BY <1>1, <2>1, <2>2, <3>2, <3>3, PendingMoves
    <3>5. ~Present(j)' BY <2>1, <3>1, <3>2 DEF Present
    <3>6. InCount(j) /\ ~InCount(j)' BY <3>2, <3>4, <3>5 DEF InCount
    <3>7. ~InCount(k) /\ InCount(k)' BY <2>1, <2>4, <2>5, <2>8, <3>1 DEF InCount, TakesFreeSlot
    <3>8. \A i \in Keys : i # k /\ i # j => (Present(i)' <=> Present(i)) BY <2>1, <3>1 DEF Present
    <3>9. \A i \in Keys : i # k /\ i # j => (InCount(i)' <=> InCount(i)) BY <2>6, <3>8 DEF InCount
    <3>10. j \in Counted /\ k \in Keys \ Counted BY <1>2, <2>2, <3>2, <3>6, <3>7
    <3>11. Counted' = (Counted \ {j}) \cup {k}
      <4>1. \A i : i \in Counted' <=> i \in (Counted \ {j}) \cup {k}
        BY <1>2, <1>3, <2>2, <3>2, <3>6, <3>7, <3>9
      <4> QED BY <4>1
    <3> QED BY <3>2, <3>10, <3>11 DEF Swapped
  <2> QED BY <2>7, <2>8
<1> QED BY <1>5, <1>6, <1>7, <1>8, <1>9

(* The counters stay right.                                                *)
LEMMA CountsStep ==
    ASSUME ShardInv, NEW t \in Threads, Kinds(t), CallsRight'
    PROVE  CountsRight'
<1>1. /\ LocksRight /\ CallsRight /\ ShardTypes /\ CountsRight /\ count \in [Shards -> Int]
  BY DEF ShardInv, ShardTypes
<1> SUFFICES ASSUME NEW s \in Shards PROVE count'[s] = Cardinality(CountedIn(s)')
  BY DEF CountsRight
<1>2. count[s] = Cardinality(CountedIn(s)) /\ IsFiniteSet(CountedIn(s)) BY <1>1, CountIs DEF CountsRight
<1>3. ASSUME Counted' = Counted, count'[s] = count[s] PROVE count'[s] = Cardinality(CountedIn(s)')
  <2>1. CountedIn(s)' = CountedIn(s) BY <1>3 DEF CountedIn
  <2> QED BY <1>2, <1>3, <2>1
<1>4. CASE Quiet(t) \/ Finds(t) \/ Judges(t) \/ Drops(t)
  <2>1. Counted' = Counted BY <1>4, CountedStep
  <2>2. count' = count BY <1>4 DEF Quiet, Finds, Judges, Drops, Still
  <2> QED BY <1>3, <2>1, <2>2
<1>5. CASE Grows(t)
  <2>1. Counted' = Counted BY <1>5, CountedStep
  <2>2. PICK r \in Shards :
           /\ ~InUse(r)
           /\ count' = [count EXCEPT ![r] = Cardinality({k \in Keys : Present(k) /\ ShardOf(k) = r})]
    BY <1>5 DEF Grows
  <2>3. CASE s # r BY <1>1, <1>3, <2>1, <2>2, <2>3
  <2>4. CASE s = r
    <3>1. \A k : ShardOf(k) = s => ~Pending(k) /\ ~Dropped(k)
      BY <2>2, <2>4 DEF Pending, Dropped, InUse, Holds, Key
    <3>2. \A k : k \in Counted <=> k \in Keys /\ InCount(k) BY <1>1, CountedIs
    <3>3. {k \in Keys : Present(k) /\ ShardOf(k) = s} = CountedIn(s)
      BY <3>1, <3>2 DEF CountedIn, InCount
    <3>4. CountedIn(s)' = CountedIn(s) BY <2>1 DEF CountedIn
    <3>5. count'[s] = Cardinality({k \in Keys : Present(k) /\ ShardOf(k) = s}) BY <1>1, <2>2, <2>4
    <3> QED BY <3>3, <3>4, <3>5
  <2> QED BY <2>3, <2>4
<1>6. CASE Counts(t)
  <2>1. PICK k : k = Key(t) OBVIOUS
  <2>2. k \notin Counted /\ Counted' = Counted \cup {k} BY <1>6, <2>1, CountedStep
  <2>3. count' = [count EXCEPT ![ShardOf(k)] = @ + 1] BY <1>6, <2>1 DEF Counts
  <2>4. CASE ShardOf(k) # s
    <3>1. CountedIn(s)' = CountedIn(s) BY <2>2, <2>4 DEF CountedIn
    <3>2. count'[s] = count[s] BY <1>1, <2>3, <2>4
    <3> QED BY <1>2, <3>1, <3>2
  <2>5. CASE ShardOf(k) = s
    <3>1. CountedIn(s)' = CountedIn(s) \cup {k} /\ k \notin CountedIn(s) BY <2>2, <2>5 DEF CountedIn
    <3>2. Cardinality(CountedIn(s) \cup {k}) = Cardinality(CountedIn(s)) + 1 BY <1>2, <3>1, FS_AddElement
    <3>3. count'[s] = count[s] + 1 BY <1>1, <2>3, <2>5
    <3> QED BY <1>2, <3>1, <3>2, <3>3
  <2> QED BY <2>4, <2>5
<1>7. CASE Uncounts(t)
  <2>1. PICK k : k = Key(t) OBVIOUS
  <2>2. k \in Counted /\ Counted' = Counted \ {k} BY <1>7, <2>1, CountedStep
  <2>3. count' = [count EXCEPT ![ShardOf(k)] = @ - 1] BY <1>7, <2>1 DEF Uncounts
  <2>4. CASE ShardOf(k) # s
    <3>1. CountedIn(s)' = CountedIn(s) BY <2>2, <2>4 DEF CountedIn
    <3>2. count'[s] = count[s] BY <1>1, <2>3, <2>4
    <3> QED BY <1>2, <3>1, <3>2
  <2>5. CASE ShardOf(k) = s
    <3>1. CountedIn(s)' = CountedIn(s) \ {k} /\ k \in CountedIn(s) BY <2>2, <2>5 DEF CountedIn
    <3>2. Cardinality(CountedIn(s) \ {k}) = Cardinality(CountedIn(s)) - 1 BY <1>2, <3>1, FS_RemoveElement
    <3>3. count'[s] = count[s] - 1 BY <1>1, <2>3, <2>5
    <3> QED BY <1>2, <3>1, <3>2, <3>3
  <2> QED BY <2>4, <2>5
<1>8. CASE Puts(t)
  <2>1. count' = count BY <1>8 DEF Puts
  <2>2. CASE Counted' = Counted BY <1>3, <2>1, <2>2
  <2>3. CASE Counted' # Counted
    <3>0. PICK k : k = Key(t) OBVIOUS
    <3>1. PICK j \in Keys : Swapped(j, k) BY <1>8, <2>3, <3>0, CountedStep
    <3>2. j \in Counted /\ k \notin Counted /\ ShardOf(j) = ShardOf(k) /\ Counted' = (Counted \ {j}) \cup {k}
      BY <3>1 DEF Swapped
    <3>3. CASE ShardOf(k) # s
      <4>1. CountedIn(s)' = CountedIn(s) BY <3>2, <3>3 DEF CountedIn
      <4> QED BY <1>2, <2>1, <4>1
    <3>4. CASE ShardOf(k) = s
      <4> DEFINE A == CountedIn(s) \ {j}
      <4>1. /\ CountedIn(s)' = A \cup {k} /\ j \in CountedIn(s) /\ k \notin A
        BY <3>2, <3>4 DEF CountedIn
      <4>2. IsFiniteSet(A) /\ Cardinality(A) = Cardinality(CountedIn(s)) - 1
        BY <1>2, <4>1, FS_RemoveElement
      <4> HIDE DEF A
      <4>3. Cardinality(A \cup {k}) = Cardinality(A) + 1 BY <4>1, <4>2, FS_AddElement
      <4>4. Cardinality(CountedIn(s)) \in Nat BY <1>2, FS_CardinalityType
      <4> QED BY <1>2, <2>1, <4>1, <4>2, <4>3, <4>4
    <3> QED BY <3>3, <3>4
  <2> QED BY <2>2, <2>3
<1> QED BY <1>4, <1>5, <1>6, <1>7, <1>8 DEF Kinds

(* No bucket comes to hold more entries than it has slots.                 *)
LEMMA MatesStep ==
    ASSUME ShardInv, NEW t \in Threads, Kinds(t), CallsRight'
    PROVE  MatesRight'
<1>1. /\ LocksRight /\ CallsRight /\ ShardTypes /\ MatesRight /\ Moves(t)
      /\ store \in [Keys -> Entries \cup {NoEntry}] /\ size \in [Shards -> Nat] /\ Ways \in Nat /\ Ways > 0
  BY ShardedAssumption DEF ShardInv, ShardTypes, SizesRight, Kinds, Quiet, Finds, Judges, Puts, Counts,
     Drops, Uncounts, Grows
<1> SUFFICES ASSUME NEW k \in Keys PROVE Cardinality(Mates(k)') <= Ways
  BY DEF MatesRight
<1>2. \A S \in SUBSET Keys : IsFiniteSet(S) /\ Cardinality(S) \in Nat
  BY ShardedAssumption, FS_Subset, FS_CardinalityType
<1>3. ASSUME NEW A \in SUBSET Keys, NEW B \in SUBSET A, Cardinality(A) <= Ways PROVE Cardinality(B) <= Ways
  <2>1. Cardinality(B) <= Cardinality(A) BY <1>2, FS_Subset
  <2>2. Cardinality(A) \in Nat /\ Cardinality(B) \in Nat BY <1>2
  <2> QED BY <1>1, <1>3, <2>1, <2>2
<1>4. Mates(k) \in SUBSET Keys /\ Mates(k)' \in SUBSET Keys /\ Cardinality(Mates(k)) <= Ways
  BY <1>1 DEF Mates, MatesRight
<1>5. ASSUME UNCHANGED size,
             \A j \in Keys : SameBucket(j, k) /\ (Present(j)' \/ Dropped(j)') => Present(j) \/ Dropped(j)
      PROVE  Cardinality(Mates(k)') <= Ways
  <2>1. \A j : SameBucket(j, k)' <=> SameBucket(j, k) BY <1>1, <1>5, BucketsStay
  <2>2. Mates(k)' \subseteq Mates(k) BY <1>5, <2>1 DEF Mates
  <2> QED BY <1>3, <1>4, <2>2
<1>6. CASE Quiet(t) \/ Finds(t) \/ Judges(t) \/ Counts(t) \/ Uncounts(t)
  <2>1. UNCHANGED <<size, store>> BY <1>6 DEF Quiet, Finds, Judges, Counts, Uncounts, Still
  <2>2. \A j : Dropped(j)' => Dropped(j)
    BY <1>1, <1>6, PendingMoves DEF Quiet, Finds, Judges, Counts, Uncounts, Holds
  <2>3. \A j : Present(j)' => Present(j) BY <2>1 DEF Present
  <2> QED BY <1>5, <2>1, <2>2, <2>3
<1>7. CASE Drops(t)
  <2>1. UNCHANGED size BY <1>7 DEF Drops
  <2>2. \A j : Dropped(j)' => Dropped(j) \/ j = Key(t) BY <1>1, <1>7, PendingMoves DEF Drops, Holds
  <2>3. \A j \in Keys : Present(j)' => Present(j) BY <1>1, <1>7 DEF Present, Drops
  <2>4. Present(Key(t)) BY <1>7 DEF Drops
  <2> QED BY <1>5, <2>1, <2>2, <2>3, <2>4
<1>8. CASE Puts(t)
  <2>0. PICK q : q = Key(t) OBVIOUS
  <2>1. PICK lost \in Victims(q), e \in Entries :
           /\ store' = [j \in Keys |-> IF j = q THEN e ELSE IF j \in lost THEN NoEntry ELSE store[j]]
           /\ call'[t].stage = IF TakesFreeSlot(q, lost) THEN "put" ELSE "done"
    BY <1>8, <2>0 DEF Puts
  <2>2. UNCHANGED size /\ q \in Keys /\ ~Locked(q) /\ call[t].stage \notin {"put", "dropped"}
    BY <1>8, <2>0 DEF Puts, Holds
  <2>3. \A j : Dropped(j)' <=> Dropped(j)
    BY <1>1, <2>1, <2>2, PendingMoves
  <2>4. \A j \in Keys : Present(j)' => (Present(j) /\ j \notin lost) \/ j = q BY <2>1 DEF Present
  <2>5. CASE Present(q) BY <1>5, <2>2, <2>3, <2>4, <2>5
  <2>6. CASE ~SameBucket(k, q)
    <3>1. ~SameBucket(q, k) BY <2>6 DEF SameBucket
    <3> QED BY <1>5, <2>2, <2>3, <2>4, <3>1
  <2>7. CASE ~Present(q) /\ SameBucket(k, q)
    <3> DEFINE R == RivalsIn(q, size[ShardOf(q)])
               A == R \ lost
    <3>1. \A j \in Keys : SameBucket(j, q) => ~Dropped(j)
      BY <1>1, <2>0, <2>2, AloneInBucket, PendingMoves
    <3>2. Mates(k)' \subseteq A \cup {q}
      <4> SUFFICES ASSUME NEW j \in Mates(k)', j # q PROVE j \in A OBVIOUS
      <4>1. j \in Keys /\ SameBucket(j, k) /\ (Present(j)' \/ Dropped(j)')
        BY <1>1, <2>2, BucketsStay DEF Mates
      <4>2. SameBucket(j, q) BY <2>7, <4>1 DEF SameBucket
      <4>3. Present(j) /\ j \notin lost BY <2>3, <2>4, <3>1, <4>1, <4>2
      <4> QED BY <4>1, <4>2, <4>3 DEF RivalsIn, SameBucket
    <3>3. R \in SUBSET Keys /\ A \in SUBSET Keys /\ A \cup {q} \in SUBSET Keys /\ q \notin R
      BY <2>2 DEF RivalsIn
    <3>4. IsFiniteSet(R) /\ IsFiniteSet(A) /\ Cardinality(R) \in Nat /\ Cardinality(A) \in Nat BY <1>2, <3>3
    <3>5. Cardinality(A \cup {q}) = Cardinality(A) + 1 BY <3>3, <3>4, FS_AddElement
    <3>6. Cardinality(A) < Ways
      <4>1. CASE lost = {}
        <5>1. A = R BY <4>1
        <5>2. Cardinality(R) < Ways BY <2>7, <4>1 DEF Victims
        <5> QED BY <5>1, <5>2
      <4>2. CASE lost # {}
        <5>1. PICK j \in R : lost = {j} BY <4>2 DEF Victims
        <5>2. R \subseteq Mates(q) /\ Mates(q) \in SUBSET Keys /\ Cardinality(Mates(q)) <= Ways
          BY <1>1, <2>2 DEF RivalsIn, Mates, SameBucket, MatesRight
        <5>3. Cardinality(R) <= Ways BY <1>3, <5>2
        <5>4. Cardinality(R \ {j}) = Cardinality(R) - 1 BY <3>4, <5>1, FS_RemoveElement
        <5>5. Cardinality(A) = Cardinality(R) - 1 BY <5>1, <5>4
        <5> HIDE DEF A, R
        <5> QED BY <1>1, <3>4, <5>3, <5>5
      <4> QED BY <4>1, <4>2
    <3>7. Cardinality(A \cup {q}) <= Ways BY <1>1, <3>4, <3>5, <3>6
    <3> QED BY <1>3, <3>2, <3>3, <3>7
  <2> QED BY <2>5, <2>6, <2>7
<1>9. CASE Grows(t)
  <2>1. PICK s \in Shards, n \in Nat : ~InUse(s) /\ Fits(s, n) /\ size' = [size EXCEPT ![s] = n]
    BY <1>9 DEF Grows
  <2>2. \A j : (Present(j)' <=> Present(j)) /\ (Dropped(j)' <=> Dropped(j))
    BY <1>1, <1>9, PendingMoves DEF Grows, Holds, Present
  <2>3. \A j \in Keys : ShardOf(j) \in Shards BY ShardIn
  <2>4. CASE ShardOf(k) # s
    <3>1. \A j \in Keys : SameBucket(j, k)' => SameBucket(j, k)
      BY <1>1, <2>1, <2>3, <2>4 DEF SameBucket
    <3>2. Mates(k)' \subseteq Mates(k) BY <2>2, <3>1 DEF Mates
    <3> QED BY <1>3, <1>4, <3>2
  <2>5. CASE ShardOf(k) = s /\ Mates(k)' = {}
    <3>1. Cardinality(Mates(k)') = 0 BY <2>5, FS_EmptySet
    <3> QED BY <1>1, <3>1
  <2>6. CASE ShardOf(k) = s /\ Mates(k)' # {}
    <3>1. \A j : ShardOf(j) = s => ~Dropped(j) BY <2>1 DEF Dropped, InUse, Holds, Key
    <3>2. size'[s] = n BY <1>1, <2>1
    <3>3. \A j \in Mates(k)' : j \in Keys /\ Present(j) /\ ShardOf(j) = s /\ Index(j, n) = Index(k, n)
      BY <2>2, <2>6, <3>1, <3>2 DEF Mates, SameBucket
    <3>4. PICK j : j \in Mates(k)' BY <2>6
    <3> DEFINE R == RivalsIn(j, n)
    <3>5. Cardinality(R) < Ways BY <2>1, <3>3, <3>4 DEF Fits
    <3>6. Mates(k)' \subseteq R \cup {j} BY <3>3, <3>4 DEF RivalsIn
    <3>7. R \in SUBSET Keys /\ j \in Keys /\ j \notin R BY <3>3, <3>4 DEF RivalsIn
    <3>8. IsFiniteSet(R) /\ Cardinality(R) \in Nat BY <1>2, <3>7
    <3>9. Cardinality(R \cup {j}) = Cardinality(R) + 1 BY <3>7, <3>8, FS_AddElement
    <3>10. Cardinality(R \cup {j}) <= Ways /\ R \cup {j} \in SUBSET Keys BY <1>1, <3>5, <3>7, <3>8, <3>9
    <3> QED BY <1>3, <3>6, <3>10
  <2> QED BY <2>4, <2>5, <2>6
<1> QED BY <1>6, <1>7, <1>8, <1>9 DEF Kinds

-----------------------------------------------------------------------------
(* The invariant of the shards.                                            *)

(* It holds at the start.                                                  *)
LEMMA ShardInit == SoakInit => ShardInv
<1> SUFFICES ASSUME SoakInit PROVE ShardInv OBVIOUS
<1>1. /\ store = [k \in Keys |-> NoEntry]
      /\ epoch = [s \in Shards |-> 0] /\ ttl = [s \in Shards |-> 0]
      /\ size = [s \in Shards |-> Size0]
      /\ count = [s \in Shards |-> 0] /\ evictions = [s \in Shards |-> 0]
      /\ call = [t \in Threads |-> [req |-> Request("none", NoValue, 0, 0), stage |-> "done",
                                    shard |-> 0, acc |-> 0, res |-> NoValue]]
  BY DEF SoakInit, Init
<1> DEFINE q == Request("none", NoValue, 0, 0)
           r == [req |-> q, stage |-> "done", shard |-> 0, acc |-> 0, res |-> NoValue]
<1>2. q \in Requests /\ Legal(q) BY DEF Request, Requests, Legal, Ops
<1> HIDE DEF q
<1>3. r \in Records /\ StageRight(r) /\ r.stage = "done"
  BY <1>2, ShardIn DEF Records, Stages, Results, StageRight
<1>4. call = [t \in Threads |-> r] BY <1>1 DEF q
<1> HIDE DEF r
<1>5. CallsRight BY <1>3, <1>4 DEF CallsRight
<1>6. SizesRight BY <1>1, ShardedAssumption DEF SizesRight
<1>7. ShardTypes BY <1>1, <1>5, <1>6 DEF ShardTypes
<1>8. \A t \in Threads : call[t].stage = "done" BY <1>3, <1>4
<1>9. LocksRight BY <1>8 DEF LocksRight, Holds
<1>10. \A k \in Keys : ~Present(k) BY <1>1 DEF Present
<1>11. \A k : ~Dropped(k) BY <1>8 DEF Dropped
<1>12. MatesRight
  <2>1. \A k \in Keys : Mates(k) = {} BY <1>10, <1>11 DEF Mates
  <2>2. Cardinality({}) = 0 BY FS_EmptySet
  <2> QED BY <2>1, <2>2, ShardedAssumption DEF MatesRight
<1>13. CountsRight
  <2>1. Counted = {} BY <1>5, <1>10, <1>11, CountedIs DEF InCount
  <2>2. \A s \in Shards : CountedIn(s) = {} BY <2>1 DEF CountedIn
  <2>3. Cardinality({}) = 0 BY FS_EmptySet
  <2> QED BY <1>1, <2>2, <2>3 DEF CountsRight
<1> QED BY <1>7, <1>9, <1>12, <1>13 DEF ShardInv

(* The calls that the main thread makes are legal.                         *)
LEMMA MainLegal ==
    /\ \A op \in {"len", "capacity", "eviction_count"} : Legal(Request(op, NoValue, 0, 0))
    /\ \A v \in Nat : Legal(Request("insert", Sentinel, v, SentinelTtl))
    /\ Legal(Request("get", Sentinel, 0, 0)) /\ Legal(Request("set_ttl", NoValue, 0, TtlEpochs))
BY SoakAssumption DEF Request, Legal, Requests, Ops

(* The main thread: its record.                                            *)
Pcs == {"set_ttl", "prime", "len", "capacity", "evictions", "check", "sentinel", "get", "verify",
        "stop"}
MonTypes == mon \in [pc : Pcs, len : Results, cap : Results, last : Results, tick : Nat,
                     fail : SUBSET {"len exceeded capacity", "eviction_count decreased",
                                    "sentinel missing", "sentinel wrong value"}]

(* A step of the soak test: a call goes on, a call begins, or the main     *)
(* thread looks at its samples.                                            *)
Begins(t) == \E c : Legal(c) /\ Invoke(t, c) /\ (t # Main => c \in Calls[t])

(* Nothing but the window and the main thread's record changes.            *)
LEMMA ShardStays ==
    ASSUME ShardInv, UNCHANGED <<shardVars, call>>
    PROVE  ShardInv' /\ Onward /\ Counted' = Counted
<1>1. UNCHANGED <<store, epoch, ttl, size, count, evictions, call>> BY DEF shardVars
<1>2. ShardTypes' /\ Onward BY <1>1 DEF ShardInv, ShardTypes, SizesRight, CallsRight, Onward
<1>3. LocksRight' BY <1>1 DEF ShardInv, LocksRight, Holds, SameBucket, Key, Present
<1>4. \A k : Mates(k)' = Mates(k) BY <1>1 DEF Mates, SameBucket, Present, Dropped, Key
<1>5. MatesRight' BY <1>1, <1>4 DEF ShardInv, MatesRight
<1>6. Counted' = Counted BY <1>1 DEF Counted, Present
<1>7. \A s : CountedIn(s)' = CountedIn(s) BY <1>6 DEF CountedIn
<1>8. CountsRight' BY <1>1, <1>7 DEF ShardInv, CountsRight
<1> QED BY <1>2, <1>3, <1>5, <1>6, <1>8 DEF ShardInv

(* A step of one thread.                                                   *)
LEMMA ShardStep ==
    ASSUME ShardInv, NEW t \in Threads, Step(t) \/ Begins(t)
    PROVE  ShardInv' /\ Onward /\ Kinds(t)
<1>1. ShardTypes' /\ Onward /\ Kinds(t) BY StepKind, InvokeKind DEF Begins, Kinds
<1>2. CallsRight' BY <1>1 DEF ShardTypes
<1> QED BY <1>1, <1>2, LocksStep, MatesStep, CountsStep DEF ShardInv

(* What SoakNext does to the calls.                                        *)
LEMMA SoakMoves ==
    ASSUME MonTypes, SoakNext
    PROVE  /\ \/ \E t \in Threads : Step(t) /\ UNCHANGED mon
              \/ \E t \in Threads : Begins(t)
              \/ UNCHANGED <<shardVars, call>>
           /\ Watch
<1>1. Watch BY DEF SoakNext
<1>2. mon.tick \in Nat /\ Main \in Threads BY SoakAssumption DEF MonTypes
<1>3. ASSUME NEW t \in Threads \ {Main}, NEW c \in Calls[t], Invoke(t, c) PROVE Begins(t)
  BY <1>3, SoakAssumption DEF Begins
<1>4. ASSUME NEW c, Legal(c), Invoke(Main, c) PROVE Begins(Main) BY <1>4 DEF Begins
<1>5. Prime => Begins(Main) BY <1>4, MainLegal DEF Prime, PutSentinel
<1>6. SampleLen \/ SampleCapacity \/ SampleEvictions => Begins(Main)
  BY <1>4, MainLegal DEF SampleLen, SampleCapacity, SampleEvictions, Does
<1>7. InsertSentinel \/ ReadSentinel => Begins(Main)
  BY <1>2, <1>4, MainLegal DEF InsertSentinel, ReadSentinel, PutSentinel
<1>8. CheckStats \/ VerifySentinel => UNCHANGED <<shardVars, call>> BY DEF CheckStats, VerifySentinel, Silent
<1> QED BY <1>1, <1>2, <1>3, <1>5, <1>6, <1>7, <1>8 DEF SoakNext

(* The main thread's record keeps its type.                                *)
LEMMA MonTypesStep ==
    ASSUME ShardInv, MonTypes, SoakNext
    PROVE  MonTypes'
<1>1. Result \in Results BY SoakAssumption, RecordIs DEF ShardInv, ShardTypes, Result
<1>2. CASE UNCHANGED mon BY <1>2 DEF MonTypes
<1>3. CASE Prime \/ InsertSentinel \/ ReadSentinel
  BY <1>3 DEF Prime, InsertSentinel, ReadSentinel, GoesTo, MonTypes, Pcs
<1>4. CASE SampleLen
  <2>1. mon.tick \in Nat BY DEF MonTypes
  <2>2. PICK n \in Nat : n = mon.tick + 1 BY <2>1
  <2>3. mon' = [mon EXCEPT !.pc = "capacity", !.tick = n] BY <1>4, <2>2 DEF SampleLen
  <2> QED BY <2>3 DEF MonTypes, Pcs
<1>5. CASE SampleCapacity BY <1>1, <1>5 DEF SampleCapacity, MonTypes, Pcs
<1>6. CASE SampleEvictions BY <1>1, <1>6 DEF SampleEvictions, MonTypes, Pcs
<1>7. CASE CheckStats
  <2>1. PICK fails \in SUBSET {"len exceeded capacity", "eviction_count decreased"}, pc \in {"sentinel", "stop"} :
           mon' = [mon EXCEPT !.pc = pc, !.len = 0, !.cap = 0, !.last = Result, !.fail = fails]
    BY <1>7, Zenon DEF CheckStats
  <2>2. 0 \in Results BY DEF Results
  <2>3. pc \in Pcs BY DEF Pcs
  <2> QED BY <1>1, <2>1, <2>2, <2>3 DEF MonTypes
<1>8. CASE VerifySentinel
  <2>1. PICK fails \in SUBSET {"sentinel missing", "sentinel wrong value"} :
           mon' = [mon EXCEPT !.pc = "len", !.fail = fails]
    BY <1>8 DEF VerifySentinel
  <2> QED BY <2>1 DEF MonTypes, Pcs
<1> QED BY <1>2, <1>3, <1>4, <1>5, <1>6, <1>7, <1>8 DEF SoakNext

(* The invariant of the shards holds in every reachable state: the types,  *)
(* the exclusion of the bucket locks, no bucket above its slots, and every *)
(* counter equal to the keys its shard counts.                             *)
THEOREM ShardInvariant == SoakSpec => [](ShardInv /\ MonTypes)
<1>1. SoakInit => ShardInv /\ MonTypes
  BY ShardInit DEF SoakInit, MonTypes, Pcs, Results
<1>2. ShardInv /\ MonTypes /\ [SoakNext]_soakVars => (ShardInv /\ MonTypes)'
  <2> SUFFICES ASSUME ShardInv, MonTypes, [SoakNext]_soakVars PROVE (ShardInv /\ MonTypes)'
    OBVIOUS
  <2>1. CASE SoakNext
    <3>1. ShardInv' BY <2>1, SoakMoves, ShardStep, ShardStays
    <3>2. MonTypes' BY <2>1, MonTypesStep
    <3> QED BY <3>1, <3>2
  <2>2. CASE UNCHANGED soakVars
    <3>1. UNCHANGED <<shardVars, call, mon>> BY <2>2 DEF soakVars, vars
    <3>2. ShardInv' BY <3>1, ShardStays
    <3>3. MonTypes' BY <3>1 DEF MonTypes
    <3> QED BY <3>2, <3>3
  <2> QED BY <2>1, <2>2
<1> QED BY <1>1, <1>2, PTL DEF SoakSpec

(* The sizes that the hash can address: its bits below the fingerprint,    *)
(* 2^53 in the code, choose the bucket.                                    *)
Addressable == \A s \in Shards : size[s] <= BucketBits

(* Whatever the tables have grown to, keys of every fingerprint reach      *)
(* every bucket of every shard, as long as the hash has a bit for each     *)
(* doubling (shard_for, bucket_hash).                                      *)
THEOREM ShardedBucketsReachable == SoakSpec => [](Addressable => BucketsReachable)
<1>1. ShardInv /\ Addressable => BucketsReachable
  <2> SUFFICES ASSUME ShardInv, Addressable, NEW s \in Shards
               PROVE  {<<BucketHash(h) % size[s], H2(h)>> : h \in {g \in HashValues : ShardFor(g) = s}}
                         = (0 .. (size[s] - 1)) \X (0 .. (H2Size - 1))
    BY DEF BucketsReachable
  <2> DEFINE n == size[s]
             A == {<<BucketHash(h) % n, H2(h)>> : h \in {g \in HashValues : ShardFor(g) = s}}
             B == 0 .. (n - 1)
             X == 0 .. (H2Size - 1)
  <2>1. n \in Nat /\ IsPowerOfTwo(n) /\ n <= BucketBits BY DEF ShardInv, ShardTypes, SizesRight, Addressable
  <2>2. n > 0 BY <2>1, PowerPositive
  <2> HIDE DEF n
  <2>3. \A h \in HashValues : BucketHash(h) % n \in B /\ H2(h) \in X
    <3> SUFFICES ASSUME NEW h \in HashValues PROVE BucketHash(h) % n \in B /\ H2(h) \in X OBVIOUS
    <3>1. BucketHash(h) \in Nat /\ H2(h) \in X BY HashIn
    <3> DEFINE b == BucketHash(h)
    <3> HIDE DEF b
    <3>2. b % n \in B BY <2>1, <2>2, <3>1, DivMod DEF b
    <3> QED BY <3>1, <3>2 DEF b
  <2>4. \A b \in B, x \in X : \E h \in HashValues : ShardFor(h) = s /\ BucketHash(h) % n = b /\ H2(h) = x
    BY <2>1, ReachesBucket
  <2> HIDE DEF B, X
  <2>5. A \subseteq B \X X BY <2>3
  <2>6. B \X X \subseteq A
    <3> SUFFICES ASSUME NEW b \in B, NEW x \in X PROVE <<b, x>> \in A OBVIOUS
    <3>1. PICK h \in HashValues : ShardFor(h) = s /\ BucketHash(h) % n = b /\ H2(h) = x BY <2>4
    <3> QED BY <3>1
  <2>7. A = B \X X BY <2>5, <2>6
  <2> QED BY <2>7 DEF n, A, B, X
<1> QED BY <1>1, ShardInvariant, PTL

-----------------------------------------------------------------------------
(* The loops over the shards.                                              *)

(* Which step a call can take.                                             *)
LEMMA StepOp ==
    ASSUME NEW t \in Threads, Step(t)
    PROVE  /\ call[t].stage # "done"
           /\ call[t].req.op \in {"len", "capacity", "eviction_count"} => Stats(t)
           /\ call[t].req.op = "set_ttl" => SetTtl(t)
           /\ call[t].req.op # "set_ttl" => UNCHANGED ttl
           /\ call[t].req.op = "get" => Find(t) \/ Judge(t)
           /\ call[t].req.op = "insert" => CheckLoad(t) \/ AutoGrow(t) \/ Tick(t) \/ Put(t) \/ Count(t)
           /\ call[t].req.op \notin {"insert", "remove"} => UNCHANGED store
           /\ call[t].req.op # "insert" => UNCHANGED evictions
<1> DEFINE op == call[t].req.op
           live == call[t].stage # "done"
<1>1. CheckLoad(t) => op = "insert" /\ live /\ UNCHANGED <<store, ttl, evictions>>
  BY DEF CheckLoad, At, shardVars
<1>2. AutoGrow(t) => op = "insert" /\ live /\ UNCHANGED <<store, ttl, evictions>> BY DEF AutoGrow, At
<1>3. Tick(t) => op = "insert" /\ live /\ UNCHANGED <<store, ttl, evictions>> BY DEF Tick, At
<1>4. Put(t) => op = "insert" /\ live /\ UNCHANGED ttl BY DEF Put, At
<1>5. Count(t) => op = "insert" /\ live /\ UNCHANGED <<store, ttl, evictions>> BY DEF Count, At
<1>6. Find(t) => op = "get" /\ live /\ UNCHANGED <<store, ttl, evictions>> BY DEF Find, At, shardVars
<1>7. Judge(t) => op = "get" /\ live /\ UNCHANGED <<store, ttl, evictions>> BY DEF Judge, At, shardVars
<1>8. Remove(t) => op = "remove" /\ live /\ UNCHANGED <<ttl, evictions>> BY DEF Remove, At
<1>9. Uncount(t) => op = "remove" /\ live /\ UNCHANGED <<store, ttl, evictions>> BY DEF Uncount, At
<1>10. SetTtl(t) => op = "set_ttl" /\ live /\ UNCHANGED <<store, evictions>> BY DEF SetTtl, At
<1>11. ResizeAll(t) => op = "resize_all" /\ live /\ UNCHANGED <<store, ttl, evictions>> BY DEF ResizeAll, At
<1>12. Stats(t) => /\ op \in {"len", "capacity", "eviction_count", "current_epoch"} /\ live
                   /\ UNCHANGED <<store, ttl, evictions>>
  BY DEF Stats, shardVars
<1>13. IsEmpty(t) => op = "is_empty" /\ live /\ UNCHANGED <<store, ttl, evictions>> BY DEF IsEmpty, At, shardVars
<1>14. GetTtl(t) => op = "get_ttl" /\ live /\ UNCHANGED <<store, ttl, evictions>> BY DEF GetTtl, At, shardVars
<1> HIDE DEF op, live
<1>15. /\ live /\ (op \in {"len", "capacity", "eviction_count"} => Stats(t))
       /\ (op = "set_ttl" => SetTtl(t)) /\ (op # "set_ttl" => UNCHANGED ttl)
       /\ (op = "get" => Find(t) \/ Judge(t))
       /\ (op = "insert" => CheckLoad(t) \/ AutoGrow(t) \/ Tick(t) \/ Put(t) \/ Count(t))
       /\ (op \notin {"insert", "remove"} => UNCHANGED store)
       /\ (op # "insert" => UNCHANGED evictions)
  BY <1>1, <1>2, <1>3, <1>4, <1>5, <1>6, <1>7, <1>8, <1>9, <1>10, <1>11, <1>12, <1>13, <1>14 DEF Step
<1> QED BY <1>15 DEF op, live

(* A turn of a sum over the shards.                                        *)
LEMMA SumStep ==
    ASSUME ShardInv, NEW t \in Threads, Step(t), call[t].req.op \in {"len", "capacity", "eviction_count"}
    PROVE  LET a == call[t].acc + Stat(call[t].req.op, call[t].shard)
           IN  /\ call[t].stage = "called" /\ a \in Nat /\ UNCHANGED shardVars /\ Counted' = Counted
               /\ IF call[t].shard = LastShard THEN Goes(t, "done", 0, 0, a)
                  ELSE /\ Goes(t, "called", call[t].shard + 1, a, call[t].res)
                       /\ call[t].shard + 1 \in Shards
<1>1. Stats(t) BY StepOp
<1>2. ShardTypes /\ CountsRight /\ CallsRight BY DEF ShardInv, ShardTypes
<1> DEFINE a == call[t].acc + Stat(call[t].req.op, call[t].shard)
<1>3. Carry(call[t].req.op, call[t].acc, call[t].shard) = a BY DEF Carry
<1>4. call[t].stage = "called" /\ a \in Nat /\ Turn(t, a, a) BY <1>1, <1>2, <1>3, StatsIs
<1>5. UNCHANGED shardVars BY <1>1 DEF Stats
<1> HIDE DEF a
<1>6. a \in Results BY <1>4 DEF Results
<1>7. IF call[t].shard = LastShard THEN Goes(t, "done", 0, 0, a)
      ELSE Goes(t, "called", call[t].shard + 1, a, call[t].res) /\ call[t].shard + 1 \in Shards
  BY <1>2, <1>4, <1>6, TurnIs
<1>8. Counted' = Counted
  <2>1. ShardTypes' /\ Quiet(t) BY <1>1, StatsKind
  <2>2. CallsRight' BY <2>1 DEF ShardTypes
  <2> QED BY <2>1, <2>2, CountedStep DEF Kinds
<1> QED BY <1>4, <1>5, <1>7, <1>8 DEF a

(* A turn of set_ttl.                                                      *)
LEMMA TtlStep ==
    ASSUME ShardInv, NEW t \in Threads, Step(t), call[t].req.op = "set_ttl"
    PROVE  /\ call[t].stage = "called" /\ ttl' = [ttl EXCEPT ![call[t].shard] = call[t].req.n]
           /\ IF call[t].shard = LastShard THEN Goes(t, "done", 0, 0, NoValue)
              ELSE /\ Goes(t, "called", call[t].shard + 1, 0, call[t].res)
                   /\ call[t].shard + 1 \in Shards
<1>1. SetTtl(t) BY StepOp
<1>2. CallsRight BY DEF ShardInv, ShardTypes
<1>3. call[t].stage = "called" /\ Turn(t, 0, NoValue) BY <1>1 DEF SetTtl, At
<1> QED BY <1>1, <1>2, <1>3, TurnIs DEF SetTtl, Results

(* A call that begins.                                                     *)
LEMMA BeginsIs ==
    ASSUME ShardInv, NEW t \in Threads, Begins(t)
    PROVE  /\ call[t].stage = "done" /\ call'[t].stage = "called" /\ call'[t].shard = 0 /\ call'[t].acc = 0
           /\ UNCHANGED shardVars /\ Moves(t)
<1>1. PICK c : Legal(c) /\ Invoke(t, c) BY DEF Begins
<1>2. /\ call[t].stage = "done" /\ Quiet(t)
      /\ call'[t] = [req |-> c, stage |-> "called", shard |-> 0, acc |-> 0, res |-> NoValue]
  BY <1>1, InvokeKind
<1> QED BY <1>1, <1>2 DEF Invoke, Quiet

(* Whose call changes, and how.                                            *)
LEMMA WhoMoves ==
    ASSUME ShardInv, MonTypes, SoakNext, NEW t \in Threads
    PROVE  \/ Step(t) /\ UNCHANGED mon
           \/ Begins(t)
           \/ call'[t] = call[t]
<1>1. ASSUME NEW u \in Threads, Step(u) \/ Begins(u), u # t PROVE call'[t] = call[t]
  <2>1. Moves(u)
    BY <1>1, ShardStep DEF Kinds, Quiet, Finds, Judges, Puts, Counts, Drops, Uncounts, Grows
  <2> QED BY <1>1, <2>1 DEF Moves
<1> QED BY <1>1, SoakMoves

-----------------------------------------------------------------------------
(* What the window of a call in progress says.  While len is summing, the  *)
(* sum so far lies between the keys of the shards it has passed that were  *)
(* counted all the time and those that were counted at some time.  A       *)
(* set_ttl without rival has set all the shards it has passed.             *)
Below(s) == {k \in Keys : ShardOf(k) < s}

LenRight(t) ==
    /\ window[t].low \subseteq Counted /\ Counted \subseteq window[t].high
    /\ Cardinality(window[t].low \cap Below(call[t].shard)) <= call[t].acc
    /\ call[t].acc <= Cardinality(window[t].high \cap Below(call[t].shard))

TtlRight(t) ==
    /\ \A u \in Threads \ {t} : ~Running(u, "set_ttl")
    /\ \A s \in Shards : s < call[t].shard => ttl[s] = call[t].req.n

WindowRight(t) ==
    /\ window[t].low \subseteq Keys /\ window[t].high \subseteq Keys
    /\ Running(t, "len") => LenRight(t)
    /\ Running(t, "set_ttl") /\ window[t].alone => TtlRight(t)

WindowsRight == \A t \in Threads : WindowRight(t)

(* One more shard.                                                         *)
LEMMA BelowNext ==
    ASSUME NEW A \in SUBSET Keys, NEW s \in Shards
    PROVE  /\ Cardinality(A \cap Below(s + 1))
                 = Cardinality(A \cap Below(s)) + Cardinality({k \in A : ShardOf(k) = s})
           /\ Cardinality(A \cap Below(s)) \in Nat /\ Cardinality({k \in A : ShardOf(k) = s}) \in Nat
           /\ s = LastShard => A \cap Below(s + 1) = A
<1> DEFINE B == A \cap Below(s)
           C == {k \in A : ShardOf(k) = s}
           D == A \cap Below(s + 1)
<1>1. \A k \in Keys : ShardOf(k) \in Shards /\ ShardOf(k) \in Nat /\ s \in Nat BY ShardIn
<1>2. D = B \cup C BY <1>1 DEF Below
<1>3. B \cap C = {} BY <1>1 DEF Below
<1>4. IsFiniteSet(B) /\ IsFiniteSet(C) BY ShardedAssumption, FS_Subset
<1>5. s = LastShard => D = A BY <1>1, FieldSizes DEF Below, LastShard, Shards
<1> HIDE DEF B, C, D
<1>6. Cardinality(B \cup C) = Cardinality(B) + Cardinality(C) - Cardinality(B \cap C)
  BY <1>4, FS_Union
<1>7. Cardinality(B \cap C) = 0 BY <1>3, FS_EmptySet
<1>8. Cardinality(B) \in Nat /\ Cardinality(C) \in Nat BY <1>4, FS_CardinalityType
<1>9. Cardinality(D) = Cardinality(B) + Cardinality(C) BY <1>2, <1>6, <1>7, <1>8
<1> QED BY <1>5, <1>8, <1>9 DEF B, C, D

(* Subsets are smaller.                                                    *)
LEMMA Smaller ==
    ASSUME NEW A \in SUBSET Keys, NEW B \in SUBSET A
    PROVE  Cardinality(B) <= Cardinality(A) /\ Cardinality(A) \in Nat /\ Cardinality(B) \in Nat
<1>1. IsFiniteSet(A) /\ IsFiniteSet(B) BY ShardedAssumption, FS_Subset
<1> QED BY <1>1, FS_Subset, FS_CardinalityType

(* Adding the counter of one shard keeps the sum within the bounds.        *)
LEMMA SumBracketed ==
    ASSUME ShardInv, NEW low \in SUBSET Counted, NEW high \in SUBSET Keys, Counted \subseteq high,
           NEW s \in Shards, NEW a \in Nat,
           Cardinality(low \cap Below(s)) <= a, a <= Cardinality(high \cap Below(s))
    PROVE  /\ Cardinality(low \cap Below(s + 1)) <= a + count[s]
           /\ a + count[s] <= Cardinality(high \cap Below(s + 1))
<1>1. count[s] = Cardinality(CountedIn(s)) /\ count[s] \in Nat /\ Counted \subseteq Keys
  BY CountIs DEF ShardInv, CountsRight
<1> DEFINE L == {k \in low : ShardOf(k) = s}
           H == {k \in high : ShardOf(k) = s}
<1>2. L \subseteq CountedIn(s) /\ CountedIn(s) \subseteq H /\ H \subseteq Keys /\ CountedIn(s) \subseteq Keys
  BY <1>1 DEF CountedIn
<1>3. Cardinality(L) <= count[s] BY <1>1, <1>2, Smaller
<1>4. count[s] <= Cardinality(H) BY <1>1, <1>2, Smaller
<1>5. /\ Cardinality(low \cap Below(s + 1)) = Cardinality(low \cap Below(s)) + Cardinality(L)
      /\ Cardinality(low \cap Below(s)) \in Nat /\ Cardinality(L) \in Nat
  <2>1. low \in SUBSET Keys BY <1>1
  <2> QED BY <2>1, BelowNext
<1>6. /\ Cardinality(high \cap Below(s + 1)) = Cardinality(high \cap Below(s)) + Cardinality(H)
      /\ Cardinality(high \cap Below(s)) \in Nat /\ Cardinality(H) \in Nat
  BY BelowNext
<1> HIDE DEF L, H
<1> QED BY <1>1, <1>3, <1>4, <1>5, <1>6

(* A call stays the same call until it has returned.                       *)
LEMMA StepReq ==
    ASSUME CallsRight, NEW t \in Threads, Step(t)
    PROVE  call'[t].req = call[t].req
<1>0. call \in [Threads -> Records] BY DEF CallsRight
<1>1. ASSUME NEW st, NEW sh, NEW a, NEW r, Going(t, st, sh, a, r) PROVE call'[t].req = call[t].req
  BY <1>0, <1>1 DEF Going
<1>2. \A st : Becomes(t, st) => call'[t].req = call[t].req BY <1>0, <1>1, BecomesIs
<1>3. \A r : Answers(t, r) => call'[t].req = call[t].req BY <1>0, <1>1, AnswersIs
<1>4. \A a : NextShard(t, a) => call'[t].req = call[t].req BY <1>0, <1>1, NextShardIs
<1>5. \A st, a : call' = [call EXCEPT ![t].stage = st, ![t].acc = a] => call'[t].req = call[t].req
  BY <1>0, <1>1, CarriesIs
<1>6. \A a, r : Turn(t, a, r) => call'[t].req = call[t].req BY <1>3, <1>4 DEF Turn
<1>7. CheckLoad(t) => call'[t].req = call[t].req BY <1>2, <1>5 DEF CheckLoad
<1>8. AutoGrow(t) => call'[t].req = call[t].req BY <1>5 DEF AutoGrow
<1>9. Tick(t) => call'[t].req = call[t].req BY <1>2 DEF Tick
<1>10. Put(t) => call'[t].req = call[t].req BY <1>2, <1>3 DEF Put
<1>11. Count(t) \/ Uncount(t) \/ Judge(t) \/ GetTtl(t) => call'[t].req = call[t].req
  BY <1>3 DEF Count, Uncount, Judge, GetTtl
<1>12. Find(t) => call'[t].req = call[t].req BY <1>3, <1>5 DEF Find
<1>13. Remove(t) => call'[t].req = call[t].req BY <1>2, <1>3 DEF Remove
<1>14. SetTtl(t) \/ ResizeAll(t) \/ Stats(t) => call'[t].req = call[t].req
  BY <1>6 DEF SetTtl, ResizeAll, Stats
<1>15. IsEmpty(t) => call'[t].req = call[t].req BY <1>3, <1>6 DEF IsEmpty
<1> QED BY <1>7, <1>8, <1>9, <1>10, <1>11, <1>12, <1>13, <1>14, <1>15 DEF Step

(* What Watch records for one thread.                                      *)
LEMMA WatchIs ==
    ASSUME Watch, NEW t \in Threads
    PROVE  /\ ~Running(t, "len")' => window'[t].low = {} /\ window'[t].high = {}
           /\ Running(t, "len")' =>
                 /\ window'[t].low = Counted' \cap (IF Running(t, "len") THEN window[t].low ELSE Keys)
                 /\ window'[t].high = Counted' \cup window[t].high
           /\ Running(t, "set_ttl")' /\ window'[t].alone =>
                 window[t].alone /\ \A u \in Threads \ {t} : ~Running(u, "set_ttl")'
<1> DEFINE low == IF ~Running(t, "len")' THEN {}
                  ELSE Counted' \cap (IF Running(t, "len") THEN window[t].low ELSE Keys)
           high == IF ~Running(t, "len")' THEN {} ELSE Counted' \cup window[t].high
           alone == ~Running(t, "set_ttl")' \/
                      (window[t].alone /\ \A u \in Threads \ {t} : ~Running(u, "set_ttl")')
<1>1. window'[t] = [low |-> low, high |-> high, alone |-> alone] BY DEF Watch
<1>2. window'[t].low = low /\ window'[t].high = high /\ window'[t].alone = alone
  <2> HIDE DEF low, high, alone
  <2> QED BY <1>1
<1> QED BY <1>2

(* A len in progress: nothing of it changes, it passes a shard, or it      *)
(* begins.                                                                 *)
LEMMA LenMoves ==
    ASSUME ShardInv, MonTypes, SoakNext, NEW t \in Threads, Running(t, "len")'
    PROVE  \/ Running(t, "len") /\ call'[t] = call[t]
           \/ /\ Running(t, "len") /\ Counted' = Counted
              /\ call'[t].shard = call[t].shard + 1 /\ call'[t].acc = call[t].acc + count[call[t].shard]
           \/ ~Running(t, "len") /\ call'[t].shard = 0 /\ call'[t].acc = 0
<1>1. CASE Step(t)
  <2>1. call[t].req.op = "len" BY <1>1, StepReq DEF ShardInv, ShardTypes, Running
  <2>2. Stat("len", call[t].shard) = count[call[t].shard] BY DEF Stat
  <2> QED BY <1>1, <2>1, <2>2, SumStep DEF Goes, Running
<1>2. CASE Begins(t) BY <1>2, BeginsIs DEF Running
<1>3. CASE call'[t] = call[t] BY <1>3 DEF Running
<1> QED BY <1>1, <1>2, <1>3, WhoMoves

(* The same for set_ttl.                                                   *)
LEMMA TtlMoves ==
    ASSUME ShardInv, MonTypes, SoakNext, NEW t \in Threads, Running(t, "set_ttl")'
    PROVE  \/ Running(t, "set_ttl") /\ call'[t] = call[t]
           \/ /\ Running(t, "set_ttl") /\ ttl' = [ttl EXCEPT ![call[t].shard] = call[t].req.n]
              /\ call'[t].shard = call[t].shard + 1 /\ call'[t].req = call[t].req
           \/ ~Running(t, "set_ttl") /\ call'[t].shard = 0
<1>1. CASE Step(t)
  <2>1. call[t].req.op = "set_ttl" BY <1>1, StepReq DEF ShardInv, ShardTypes, Running
  <2> QED BY <1>1, <2>1, TtlStep DEF Goes, Running
<1>2. CASE Begins(t) BY <1>2, BeginsIs DEF Running
<1>3. CASE call'[t] = call[t] BY <1>3 DEF Running
<1> QED BY <1>1, <1>2, <1>3, WhoMoves

(* The default TTLs change only if a set_ttl is in progress.               *)
LEMMA TtlStays ==
    ASSUME ShardInv, MonTypes, SoakNext, ~UNCHANGED ttl
    PROVE  \E u \in Threads : Running(u, "set_ttl") /\ call'[u] # call[u]
<1>1. ~UNCHANGED shardVars BY DEF shardVars
<1>2. PICK u \in Threads : Step(u) BY <1>1, SoakMoves, BeginsIs
<1>3. call[u].req.op = "set_ttl" /\ call[u].stage # "done" BY <1>2, StepOp
<1>4. call[u].stage = "called" /\ call[u].shard \in Shards BY <1>2, <1>3, TtlStep, RecordIs DEF ShardInv, ShardTypes
<1>5. call'[u] # call[u]
  <2>1. CASE call[u].shard = LastShard BY <1>2, <1>3, <1>4, <2>1, TtlStep DEF Goes
  <2>2. CASE call[u].shard # LastShard
    <3>1. call'[u].shard = call[u].shard + 1 /\ call[u].shard \in Nat BY <1>2, <1>3, <1>4, <2>2, TtlStep, ShardIn DEF Goes
    <3> DEFINE x == call[u].shard
               y == call'[u].shard
    <3>2. x # y BY <3>1
    <3> QED BY <3>2
  <2> QED BY <2>1, <2>2
<1> QED BY <1>3, <1>5 DEF Running

(* The windows stay right.                                                 *)
LEMMA WindowsStep ==
    ASSUME ShardInv, MonTypes, ShardInv', WindowsRight, SoakNext
    PROVE  WindowsRight'
<1> SUFFICES ASSUME NEW t \in Threads PROVE WindowRight(t)' BY DEF WindowsRight
<1>1. WindowRight(t) /\ Watch BY DEF WindowsRight, SoakNext
<1>2. Counted \subseteq Keys /\ Counted' \subseteq Keys
  <2>1. CallsRight /\ CallsRight' BY DEF ShardInv, ShardTypes
  <2>2. (CallsRight => \A k : k \in Counted <=> k \in Keys /\ InCount(k))' BY CountedIs, PTL
  <2> QED BY <2>1, <2>2, CountedIs
<1>3. window'[t].low \subseteq Keys /\ window'[t].high \subseteq Keys
  <2>1. CASE Running(t, "len")'
    <3>1. window'[t].low \subseteq Counted' /\ window'[t].high = Counted' \cup window[t].high
      BY <1>1, <2>1, WatchIs
    <3> QED BY <1>1, <1>2, <3>1 DEF WindowRight
  <2>2. CASE ~Running(t, "len")'
    <3>1. window'[t].low = {} /\ window'[t].high = {} BY <1>1, <2>2, WatchIs
    <3> QED BY <3>1
  <2> QED BY <2>1, <2>2
<1>4. ASSUME Running(t, "len")' PROVE LenRight(t)'
  <2> DEFINE low == window[t].low
             high == window[t].high
             nlow == window'[t].low
             nhigh == window'[t].high
  <2>1. /\ nlow = Counted' \cap (IF Running(t, "len") THEN low ELSE Keys)
        /\ nhigh = Counted' \cup high
    BY <1>1, <1>4, WatchIs
  <2>2. nlow \subseteq Counted' /\ Counted' \subseteq nhigh BY <2>1
  <2>3. call[t].acc \in Nat /\ call[t].shard \in Shards BY RecordIs DEF ShardInv, ShardTypes
  <2>4. low \subseteq Keys /\ high \subseteq Keys BY <1>1 DEF WindowRight
  <2> DEFINE B == Below(call'[t].shard)
             a == call'[t].acc
  <2> SUFFICES Cardinality(nlow \cap B) <= a /\ a <= Cardinality(nhigh \cap B)
    BY <2>2 DEF LenRight, Below
  <2>5. CASE Running(t, "len") /\ call'[t] = call[t]
    <3>1. Cardinality(low \cap B) <= a /\ a <= Cardinality(high \cap B) BY <1>1, <2>5 DEF WindowRight, LenRight
    <3>2. nlow \cap B \subseteq low \cap B /\ high \cap B \subseteq nhigh \cap B BY <2>1, <2>5
    <3>3. Cardinality(nlow \cap B) <= Cardinality(low \cap B) /\ Cardinality(nlow \cap B) \in Nat
            /\ Cardinality(low \cap B) \in Nat
      BY <2>4, <3>2, Smaller
    <3>4. Cardinality(high \cap B) <= Cardinality(nhigh \cap B) /\ Cardinality(nhigh \cap B) \in Nat
            /\ Cardinality(high \cap B) \in Nat
      BY <1>3, <2>4, <3>2, Smaller
    <3>5. a \in Nat BY <2>3, <2>5
    <3> HIDE DEF low, high, nlow, nhigh, B, a
    <3> QED BY <3>1, <3>3, <3>4, <3>5
  <2>6. CASE /\ Running(t, "len") /\ Counted' = Counted
             /\ call'[t].shard = call[t].shard + 1 /\ call'[t].acc = call[t].acc + count[call[t].shard]
    <3>1. LenRight(t) BY <1>1, <2>6 DEF WindowRight
    <3>2. nlow = low /\ nhigh = high BY <2>1, <2>6, <3>1 DEF LenRight
    <3>3. /\ Cardinality(low \cap Below(call[t].shard + 1)) <= call[t].acc + count[call[t].shard]
          /\ call[t].acc + count[call[t].shard] <= Cardinality(high \cap Below(call[t].shard + 1))
      BY <2>3, <2>4, <3>1, SumBracketed DEF LenRight
    <3> QED BY <2>6, <3>2, <3>3
  <2>7. CASE ~Running(t, "len") /\ call'[t].shard = 0 /\ call'[t].acc = 0
    <3>0. ASSUME NEW k \in Keys PROVE ~(ShardOf(k) < 0)
      <4>1. ShardOf(k) \in Nat BY ShardIn
      <4> DEFINE n == ShardOf(k)
      <4> HIDE DEF n
      <4>2. ~(n < 0) BY <4>1 DEF n
      <4> QED BY <4>2 DEF n
    <3>1. B = {} BY <2>7, <3>0 DEF Below
    <3>2. Cardinality(nlow \cap B) = 0 /\ Cardinality(nhigh \cap B) = 0 BY <3>1, FS_EmptySet
    <3> QED BY <2>7, <3>2
  <2> QED BY <1>4, <2>5, <2>6, <2>7, LenMoves
<1>5. ASSUME Running(t, "set_ttl")', window'[t].alone PROVE TtlRight(t)'
  <2>1. window[t].alone /\ \A u \in Threads \ {t} : ~Running(u, "set_ttl")' BY <1>1, <1>5, WatchIs
  <2>2. \A s \in Shards : s < call'[t].shard => ttl'[s] = call'[t].req.n
    <3>1. CASE Running(t, "set_ttl") /\ call'[t] = call[t]
      <4>1. TtlRight(t) BY <1>1, <2>1, <3>1 DEF WindowRight
      <4>2. UNCHANGED ttl BY <3>1, <4>1, TtlStays DEF TtlRight
      <4> QED BY <3>1, <4>1, <4>2 DEF TtlRight
    <3>2. CASE /\ Running(t, "set_ttl") /\ ttl' = [ttl EXCEPT ![call[t].shard] = call[t].req.n]
               /\ call'[t].shard = call[t].shard + 1 /\ call'[t].req = call[t].req
      <4>1. TtlRight(t) BY <1>1, <2>1, <3>2 DEF WindowRight
      <4>2. call[t].shard \in Nat /\ call[t].shard \in Shards /\ ttl \in [Shards -> Nat] /\ Shards \subseteq Nat
        BY RecordIs, ShardIn DEF ShardInv, ShardTypes
      <4> QED BY <3>2, <4>1, <4>2 DEF TtlRight
    <3>3. CASE ~Running(t, "set_ttl") /\ call'[t].shard = 0 BY <3>3, ShardIn
    <3> QED BY <1>5, <3>1, <3>2, <3>3, TtlMoves
  <2> QED BY <2>1, <2>2 DEF TtlRight
<1> QED BY <1>3, <1>4, <1>5 DEF WindowRight

(* The windows are right in every reachable state.                         *)
THEOREM WindowInvariant == SoakSpec => []WindowsRight
<1>1. SoakInit => WindowsRight
  <2> SUFFICES ASSUME SoakInit, NEW t \in Threads PROVE WindowRight(t) BY DEF WindowsRight
  <2>1. window[t] = [low |-> {}, high |-> {}, alone |-> TRUE] /\ call[t].stage = "done"
    BY DEF SoakInit, Init
  <2> QED BY <2>1 DEF WindowRight, Running
<1>2. ShardInv /\ MonTypes /\ ShardInv' /\ WindowsRight /\ [SoakNext]_soakVars => WindowsRight'
  <2> SUFFICES ASSUME ShardInv, MonTypes, ShardInv', WindowsRight, [SoakNext]_soakVars PROVE WindowsRight'
    OBVIOUS
  <2>1. CASE SoakNext BY <2>1, WindowsStep
  <2>2. CASE UNCHANGED soakVars
    <3>1. UNCHANGED <<shardVars, call, window>> BY <2>2 DEF soakVars, vars
    <3>2. Counted' = Counted BY <3>1, ShardStays
    <3>3. ttl' = ttl BY <3>1 DEF shardVars
    <3> QED BY <3>1, <3>2, <3>3 DEF WindowsRight, WindowRight, LenRight, TtlRight, Running, Below
  <2> QED BY <2>1, <2>2
<1> QED BY <1>1, <1>2, ShardInvariant, PTL DEF SoakSpec

(* A len() that returns counts every key that was in the map all the time  *)
(* and no key that never was, although its counters were read one after    *)
(* the other while other threads went on (ShardedPulseMap::len).           *)
THEOREM ShardedLenBracketed == SoakSpec => LenBracketed
<1> DEFINE Bracketed ==
       \A t \in Threads :
          At(t, "len", "called") /\ call'[t].stage = "done" =>
             /\ Cardinality(window[t].low) <= call'[t].res
             /\ call'[t].res <= Cardinality(window[t].high)
<1>1. ShardInv /\ MonTypes /\ WindowsRight /\ [SoakNext]_soakVars => [Bracketed]_vars
  <2> SUFFICES ASSUME ShardInv, MonTypes, WindowsRight, [SoakNext]_soakVars, ~UNCHANGED vars,
                      NEW t \in Threads, At(t, "len", "called"), call'[t].stage = "done"
               PROVE  /\ Cardinality(window[t].low) <= call'[t].res
                      /\ call'[t].res <= Cardinality(window[t].high)
    OBVIOUS
  <2>1. SoakNext BY DEF soakVars
  <2>2. Step(t) BY <2>1, WhoMoves, BeginsIs DEF At
  <2> DEFINE s == call[t].shard
             a == call[t].acc + count[s]
  <2>3. Stat("len", s) = count[s] BY DEF Stat
  <2>4. s = LastShard /\ call'[t].res = a BY <2>2, <2>3, SumStep DEF At, Goes
  <2>5. LenRight(t) /\ window[t].low \subseteq Keys /\ window[t].high \subseteq Keys
    BY DEF WindowsRight, WindowRight, Running, At
  <2>6. s \in Shards /\ call[t].acc \in Nat BY RecordIs DEF ShardInv, ShardTypes
  <2>7. /\ Cardinality(window[t].low \cap Below(s + 1)) <= a
        /\ a <= Cardinality(window[t].high \cap Below(s + 1))
    BY <2>5, <2>6, SumBracketed DEF LenRight
  <2>8. window[t].low \cap Below(s + 1) = window[t].low /\ window[t].high \cap Below(s + 1) = window[t].high
    BY <2>4, <2>5, <2>6, BelowNext
  <2> QED BY <2>4, <2>7, <2>8
<1>2. LenBracketed <=> [][Bracketed]_vars BY DEF LenBracketed
<1> QED BY <1>1, <1>2, ShardInvariant, WindowInvariant, PTL DEF SoakSpec

(* A set_ttl that no other one overlapped leaves its value in every shard  *)
(* (ShardedPulseMap::set_ttl).                                             *)
THEOREM ShardedTtlAgreed == SoakSpec => TtlAgreed
<1> DEFINE Agreed ==
       \A t \in Threads :
          /\ At(t, "set_ttl", "called") /\ call'[t].stage = "done" /\ window[t].alone
          => \A s \in Shards : ttl'[s] = call[t].req.n
<1>1. ShardInv /\ MonTypes /\ WindowsRight /\ [SoakNext]_soakVars => [Agreed]_vars
  <2> SUFFICES ASSUME ShardInv, MonTypes, WindowsRight, [SoakNext]_soakVars, ~UNCHANGED vars,
                      NEW t \in Threads, At(t, "set_ttl", "called"), call'[t].stage = "done", window[t].alone,
                      NEW s \in Shards
               PROVE  ttl'[s] = call[t].req.n
    OBVIOUS
  <2>1. SoakNext BY DEF soakVars
  <2>2. Step(t) BY <2>1, WhoMoves, BeginsIs DEF At
  <2>3. call[t].shard = LastShard /\ ttl' = [ttl EXCEPT ![call[t].shard] = call[t].req.n]
    BY <2>2, TtlStep DEF At, Goes
  <2>4. TtlRight(t) BY DEF WindowsRight, WindowRight, Running, At
  <2>5. ttl \in [Shards -> Nat] BY DEF ShardInv, ShardTypes
  <2>6. s = LastShard \/ s < LastShard BY FieldSizes DEF Shards, LastShard
  <2> QED BY <2>3, <2>4, <2>5, <2>6 DEF TtlRight
<1>2. TtlAgreed <=> [][Agreed]_vars BY DEF TtlAgreed
<1> QED BY <1>1, <1>2, ShardInvariant, WindowInvariant, PTL DEF SoakSpec

-----------------------------------------------------------------------------
(* Sums over the shards, as the number of elements of a set that has f[s]  *)
(* elements for each shard s.                                              *)
Cells(f, A) == {c \in A \X Nat : c[2] < f[c[1]]}
Total(f, A) == Cardinality(Cells(f, A))
Upto(s)     == {r \in Shards : r < s}
From(s)     == {r \in Shards : r >= s}

(* One more shard adds its number.                                         *)
LEMMA CellsAdd ==
    ASSUME NEW f \in [Shards -> Nat], NEW A \in SUBSET Shards, IsFiniteSet(Cells(f, A)),
           NEW s \in Shards \ A
    PROVE  IsFiniteSet(Cells(f, A \cup {s})) /\ Total(f, A \cup {s}) = Total(f, A) + f[s]
<1> DEFINE n == f[s]
           I == 0 .. (n - 1)
           D == {s} \X I
           C == Cells(f, A)
<1>1. n \in Nat OBVIOUS
<1>2. IsFiniteSet(I) /\ Cardinality(I) = n
  <2> HIDE DEF n
  <2>1. IsFiniteSet(I) /\ Cardinality(I) = IF 0 > n - 1 THEN 0 ELSE (n - 1) - 0 + 1
    BY <1>1, FS_Interval
  <2> QED BY <1>1, <2>1
<1>3. IsFiniteSet({s}) /\ Cardinality({s}) = 1 BY FS_Singleton
<1>4. IsFiniteSet(D) /\ Cardinality(D) = n
  <2> HIDE DEF I, n
  <2>1. IsFiniteSet(D) /\ Cardinality(D) = Cardinality({s}) * Cardinality(I) BY <1>2, <1>3, FS_Product
  <2> QED BY <1>1, <1>2, <1>3, <2>1
<1>5. Cells(f, A \cup {s}) = C \cup D
  <2>1. \A r, i : <<r, i>> \in Cells(f, A \cup {s}) <=> <<r, i>> \in C \cup D BY <1>1 DEF Cells
  <2>2. \A c \in Cells(f, A \cup {s}) : c = <<c[1], c[2]>> BY DEF Cells
  <2>3. \A c \in C \cup D : c = <<c[1], c[2]>> BY DEF Cells
  <2> DEFINE E == Cells(f, A \cup {s})
             F == C \cup D
  <2> HIDE DEF C, D, E, F
  <2>4. ASSUME NEW c \in E PROVE c \in F
    <3>1. c = <<c[1], c[2]>> BY <2>2 DEF E
    <3>2. <<c[1], c[2]>> \in E => <<c[1], c[2]>> \in F BY <2>1 DEF E, F
    <3> QED BY <3>1, <3>2
  <2>5. ASSUME NEW c \in F PROVE c \in E
    <3>1. c = <<c[1], c[2]>> BY <2>3 DEF F
    <3>2. <<c[1], c[2]>> \in F => <<c[1], c[2]>> \in E BY <2>1 DEF E, F
    <3> QED BY <3>1, <3>2
  <2>6. E = F BY <2>4, <2>5
  <2> QED BY <2>6 DEF E, F
<1>6. C \cap D = {} BY DEF Cells
<1> HIDE DEF n, I, D
<1>7. /\ IsFiniteSet(C \cup D)
      /\ Cardinality(C \cup D) = Cardinality(C) + Cardinality(D) - Cardinality(C \cap D)
  BY <1>4, FS_Union
<1>8. Cardinality(C \cap D) = 0 BY <1>6, FS_EmptySet
<1>9. Cardinality(C) \in Nat BY FS_CardinalityType
<1> HIDE DEF C
<1>10. Cardinality(C \cup D) = Cardinality(C) + n BY <1>1, <1>4, <1>7, <1>8, <1>9
<1> QED BY <1>5, <1>7, <1>10 DEF Total, n, C

(* The shards before and after one.                                        *)
LEMMA UptoFrom ==
    /\ Upto(0) = {} /\ From(0) = Shards /\ Upto(LastShard + 1) = Shards /\ From(LastShard + 1) = {}
    /\ \A s \in Shards : /\ Upto(s + 1) = Upto(s) \cup {s} /\ s \notin Upto(s)
                         /\ From(s) = From(s + 1) \cup {s} /\ s \notin From(s + 1)
    /\ \A s : Upto(s) \in SUBSET Shards /\ From(s) \in SUBSET Shards
<1>1. \A s \in Shards : s \in Nat /\ s <= LastShard BY FieldSizes DEF Shards, LastShard
<1>2. LastShard \in Nat BY FieldSizes DEF LastShard
<1>3. Upto(0) = {} /\ From(0) = Shards BY <1>1 DEF Upto, From
<1>4. Upto(LastShard + 1) = Shards /\ From(LastShard + 1) = {} BY <1>1, <1>2 DEF Upto, From
<1>5. \A s \in Shards : Upto(s + 1) = Upto(s) \cup {s} /\ s \notin Upto(s) BY <1>1 DEF Upto
<1>6. \A s \in Shards : From(s) = From(s + 1) \cup {s} /\ s \notin From(s + 1) BY <1>1 DEF From
<1> QED BY <1>3, <1>4, <1>5, <1>6 DEF Upto, From

(* Sums are numbers.                                                       *)
LEMMA CellsFinite ==
    ASSUME NEW f \in [Shards -> Nat], NEW A \in SUBSET Shards
    PROVE  IsFiniteSet(Cells(f, A)) /\ Total(f, A) \in Nat
<1> DEFINE S == {n \in 0 .. NumShards : ~IsFiniteSet(Cells(f, Upto(n)))}
<1>1. S = {}
  <2> SUFFICES ASSUME S # {} PROVE FALSE OBVIOUS
  <2>1. NumShards \in Nat /\ NumShards > 0 BY FieldSizes
  <2>2. S \in SUBSET Nat BY <2>1
  <2>3. PICK n \in S : \A m \in S : n <= m BY <2>2, Least
  <2>4. n \in 0 .. NumShards /\ ~IsFiniteSet(Cells(f, Upto(n))) BY <2>3
  <2>5. CASE n = 0
    <3>1. Cells(f, Upto(n)) = {} BY <2>5, UptoFrom DEF Cells
    <3> QED BY <2>4, <3>1, FS_EmptySet
  <2>6. CASE n # 0
    <3> DEFINE m == n - 1
    <3>1. m \in Shards /\ m \in 0 .. NumShards /\ n = m + 1 /\ m < n BY <2>1, <2>4, <2>6 DEF Shards
    <3> HIDE DEF m
    <3>2. m \notin S
      <4> SUFFICES ASSUME m \in S PROVE FALSE OBVIOUS
      <4>1. n <= m BY <2>3
      <4> QED BY <2>1, <2>4, <3>1, <4>1
    <3>3. IsFiniteSet(Cells(f, Upto(m))) BY <3>1, <3>2
    <3>4. IsFiniteSet(Cells(f, Upto(m) \cup {m})) BY <3>1, <3>3, UptoFrom, CellsAdd
    <3> QED BY <2>4, <3>1, <3>4, UptoFrom
  <2> QED BY <2>5, <2>6
<1>2. IsFiniteSet(Cells(f, Shards))
  <2>1. NumShards \in 0 .. NumShards /\ NumShards = LastShard + 1 BY FieldSizes DEF LastShard
  <2> QED BY <1>1, <2>1, UptoFrom
<1>3. Cells(f, A) \subseteq Cells(f, Shards) BY DEF Cells
<1>4. IsFiniteSet(Cells(f, A)) BY <1>2, <1>3, FS_Subset
<1> QED BY <1>4, FS_CardinalityType DEF Total

(* Sums of larger numbers are larger.                                      *)
LEMMA TotalGrows ==
    ASSUME NEW f \in [Shards -> Nat], NEW g \in [Shards -> Nat], NEW A \in SUBSET Shards,
           \A s \in A : f[s] <= g[s]
    PROVE  Total(f, A) <= Total(g, A) /\ Total(f, A) \in Nat /\ Total(g, A) \in Nat
<1>1. Cells(f, A) \subseteq Cells(g, A)
  <2> SUFFICES ASSUME NEW c \in Cells(f, A) PROVE c \in Cells(g, A) OBVIOUS
  <2>1. c \in A \X Nat /\ c[2] < f[c[1]] BY DEF Cells
  <2>2. PICK r \in A, i \in Nat : c = <<r, i>> BY <2>1
  <2>3. f[r] \in Nat /\ g[r] \in Nat /\ f[r] <= g[r] /\ i < f[r] BY <2>1, <2>2
  <2>4. i < g[r] BY <2>3
  <2> QED BY <2>2, <2>4 DEF Cells
<1>2. IsFiniteSet(Cells(g, A)) BY CellsFinite
<1>3. Total(f, A) \in Nat /\ Total(g, A) \in Nat BY CellsFinite
<1> QED BY <1>1, <1>2, <1>3, FS_Subset DEF Total

(* The sums before and after a shard, and over no and all shards.          *)
LEMMA TotalIs ==
    ASSUME NEW f \in [Shards -> Nat]
    PROVE  /\ Total(f, Upto(0)) = 0 /\ Total(f, From(0)) = Total(f, Shards)
           /\ Total(f, Upto(LastShard + 1)) = Total(f, Shards) /\ Total(f, From(LastShard + 1)) = 0
           /\ \A s \in Shards : /\ Total(f, Upto(s + 1)) = Total(f, Upto(s)) + f[s]
                                /\ Total(f, From(s)) = Total(f, From(s + 1)) + f[s]
           /\ \A s : Total(f, Upto(s)) \in Nat /\ Total(f, From(s)) \in Nat
           /\ Total(f, Shards) \in Nat
<1>1. Total(f, {}) = 0
  <2>1. Cells(f, {}) = {} BY DEF Cells
  <2> QED BY <2>1, FS_EmptySet DEF Total
<1>2. ASSUME NEW s \in Shards
      PROVE  /\ Total(f, Upto(s + 1)) = Total(f, Upto(s)) + f[s]
             /\ Total(f, From(s)) = Total(f, From(s + 1)) + f[s]
  <2>1. Upto(s) \in SUBSET Shards /\ s \in Shards \ Upto(s) /\ Upto(s + 1) = Upto(s) \cup {s} BY UptoFrom
  <2>2. From(s + 1) \in SUBSET Shards /\ s \in Shards \ From(s + 1) /\ From(s) = From(s + 1) \cup {s} BY UptoFrom
  <2>3. IsFiniteSet(Cells(f, Upto(s))) /\ IsFiniteSet(Cells(f, From(s + 1))) BY <2>1, <2>2, CellsFinite
  <2> QED BY <2>1, <2>2, <2>3, CellsAdd
<1>3. \A s : Total(f, Upto(s)) \in Nat /\ Total(f, From(s)) \in Nat BY UptoFrom, CellsFinite
<1>4. Total(f, Shards) \in Nat BY CellsFinite
<1> QED BY <1>1, <1>2, <1>3, <1>4, UptoFrom

(* n boxes with at most w things in each hold at most n times w things.    *)
LEMMA Boxes ==
    ASSUME NEW A, IsFiniteSet(A), NEW n \in Nat, NEW w \in Nat, NEW b \in [A -> 0 .. (n - 1)],
           \A i \in 0 .. (n - 1) : Cardinality({a \in A : b[a] = i}) <= w
    PROVE  Cardinality(A) <= n * w
<1> DEFINE I == 0 .. (n - 1)
           Box(i) == {a \in A : b[a] = i}
           W == 1 .. w
           num == [i \in I |-> CHOOSE f : f \in Injection(Box(i), W)]
           g == [a \in A |-> <<b[a], num[b[a]][a]>>]
<1>1. ASSUME NEW i \in I PROVE \E f : f \in Injection(Box(i), W)
  <2>1. IsFiniteSet(Box(i)) BY FS_Subset
  <2>2. Cardinality(Box(i)) \in Nat /\ ExistsBijection(1 .. Cardinality(Box(i)), Box(i)) BY <2>1, FS_CardinalityType
  <2> DEFINE m == Cardinality(Box(i))
             X == Box(i)
  <2>3. m \in Nat /\ m <= w BY <2>2
  <2>4. ExistsBijection(1 .. m, X) BY <2>2
  <2> HIDE DEF m, X
  <2>5. PICK h : h \in Bijection(1 .. m, X) BY <2>4 DEF ExistsBijection
  <2> DEFINE f == [a \in X |-> CHOOSE j \in 1 .. m : h[j] = a]
  <2>6. \A a \in X : f[a] \in 1 .. m /\ h[f[a]] = a BY <2>5 DEF Bijection, Surjection
  <2>7. f \in [X -> W] BY <2>3, <2>6
  <2>8. f \in Injection(X, W) BY <2>6, <2>7 DEF Injection, IsInjective
  <2> QED BY <2>8 DEF X
<1>2. \A i \in I : num[i] \in Injection(Box(i), W) BY <1>1
<1> HIDE DEF num
<1>3. \A a \in A : b[a] \in I /\ a \in Box(b[a]) OBVIOUS
<1>4. \A a \in A : num[b[a]][a] \in W BY <1>2, <1>3 DEF Injection
<1>5. g \in [A -> I \X W] BY <1>3, <1>4
<1>6. \A a, c \in A : g[a] = g[c] => a = c
  <2> SUFFICES ASSUME NEW a \in A, NEW c \in A, g[a] = g[c] PROVE a = c OBVIOUS
  <2>1. b[a] = b[c] /\ num[b[a]][a] = num[b[c]][c] OBVIOUS
  <2>2. a \in Box(b[a]) /\ c \in Box(b[a]) /\ b[a] \in I BY <1>3, <2>1
  <2> DEFINE i == b[a]
             h == num[i]
             X == Box(i)
  <2>3. h \in Injection(X, W) /\ a \in X /\ c \in X /\ h[a] = h[c] BY <1>2, <2>1, <2>2
  <2> HIDE DEF h, X
  <2> QED BY <2>3 DEF Injection, IsInjective
<1>7. g \in Injection(A, I \X W)
  <2> HIDE DEF g, I, W
  <2> QED BY <1>5, <1>6 DEF Injection, IsInjective
<1>8. IsFiniteSet(I) /\ Cardinality(I) = n
  <2>1. IsFiniteSet(I) /\ Cardinality(I) = IF 0 > n - 1 THEN 0 ELSE (n - 1) - 0 + 1 BY FS_Interval
  <2> QED BY <2>1
<1>9. IsFiniteSet(W) /\ Cardinality(W) = w
  <2>1. IsFiniteSet(W) /\ Cardinality(W) = IF 1 > w THEN 0 ELSE w - 1 + 1 BY FS_Interval
  <2> QED BY <2>1
<1> HIDE DEF g, I, W
<1>10. IsFiniteSet(I \X W) /\ Cardinality(I \X W) = n * w BY <1>8, <1>9, FS_Product
<1> QED BY <1>7, <1>10, FS_Injection

(* A shard never counts more keys than its table has slots.                *)
LEMMA CountFits ==
    ASSUME ShardInv, NEW s \in Shards
    PROVE  count[s] <= size[s] * Ways
<1> DEFINE n == size[s]
           A == CountedIn(s)
           b == [k \in A |-> Index(k, n)]
<1>1. ShardTypes /\ CallsRight /\ CountsRight /\ MatesRight /\ SizesRight BY DEF ShardInv, ShardTypes
<1>2. n \in Nat /\ n > 0 BY <1>1, PowerPositive DEF SizesRight
<1>3. A \subseteq Keys /\ IsFiniteSet(A) /\ count[s] = Cardinality(A)
  BY <1>1, CountIs DEF CountedIn, CountsRight
<1>4. \A k \in A : k \in Keys /\ ShardOf(k) = s /\ (Present(k) \/ Dropped(k))
  BY <1>1, CountedIs DEF CountedIn, InCount
<1>5. Ways \in Nat BY ShardedAssumption
<1>6. ASSUME NEW k \in A PROVE Index(k, n) \in 0 .. (n - 1)
  <2>1. BucketHash(Hash[k]) \in Nat BY <1>4, ShardIn
  <2> DEFINE h == BucketHash(Hash[k])
  <2> HIDE DEF h, n
  <2>2. h % n \in 0 .. (n - 1) BY <1>2, <2>1, DivMod DEF h
  <2> QED BY <2>2 DEF Index, h
<1>7. ASSUME NEW i \in 0 .. (n - 1) PROVE Cardinality({k \in A : b[k] = i}) <= Ways
  <2> DEFINE F == {k \in A : b[k] = i}
  <2>1. CASE F = {}
    <3>1. Cardinality(F) = 0 BY <2>1, FS_EmptySet
    <3> QED BY <1>5, <3>1
  <2>2. CASE F # {}
    <3>1. PICK k : k \in F BY <2>2
    <3>2. F \subseteq Mates(k)
      <4> SUFFICES ASSUME NEW j \in F PROVE j \in Mates(k) OBVIOUS
      <4>1. j \in A /\ k \in A /\ Index(j, n) = Index(k, n) BY <3>1
      <4> QED BY <1>4, <4>1 DEF Mates, SameBucket
    <3>3. Mates(k) \subseteq Keys /\ Cardinality(Mates(k)) <= Ways BY <1>1, <1>4, <3>1 DEF Mates, MatesRight
    <3>4. /\ Cardinality(F) <= Cardinality(Mates(k)) /\ Cardinality(Mates(k)) \in Nat
          /\ Cardinality(F) \in Nat
      BY <3>2, <3>3, Smaller
    <3> HIDE DEF F
    <3>5. Cardinality(F) <= Ways BY <1>5, <3>3, <3>4
    <3> QED BY <3>5 DEF F
  <2> QED BY <2>1, <2>2
<1>8. b \in [A -> 0 .. (n - 1)] BY <1>6
<1> HIDE DEF n, A, b
<1>9. Cardinality(A) <= n * Ways BY <1>2, <1>3, <1>5, <1>7, <1>8, Boxes
<1> QED BY <1>3, <1>9 DEF n
-----------------------------------------------------------------------------
(* The samples of the main thread.                                         *)
Capacity == [s \in Shards |-> size[s] * Ways]

SentinelHas(v) == store[Sentinel] = NoEntry \/ store[Sentinel].val = v

(* No worker inserts the sentinel.                                         *)
WorkersRight == \A t \in Threads \ {Main} : ~(call[t].req.op = "insert" /\ Key(t) = Sentinel)

(* The last sample of evictions is below what has been evicted since.      *)
LastRight == mon.last \in Nat /\ mon.last <= Total(evictions, Shards)

(* len stays below the capacity of the shards it has passed.               *)
LenSampled ==
    /\ call[Main].req.op = "len"
    /\ IF call[Main].stage = "done"
       THEN call[Main].res \in Nat /\ call[Main].res <= Total(Capacity, Shards)
       ELSE call[Main].acc <= Total(Capacity, Upto(call[Main].shard))

(* capacity gets at least to the capacity at the time of len.              *)
CapacitySampled ==
    /\ call[Main].req.op = "capacity" /\ mon.len \in Nat
    /\ IF call[Main].stage = "done"
       THEN call[Main].res \in Nat /\ mon.len <= call[Main].res
       ELSE mon.len <= call[Main].acc + Total(Capacity, From(call[Main].shard))

(* eviction_count lies between its last value and what has been evicted.   *)
EvictionsSampled ==
    /\ call[Main].req.op = "eviction_count" /\ mon.len \in Nat /\ mon.cap \in Nat /\ mon.len <= mon.cap
    /\ IF call[Main].stage = "done"
       THEN /\ call[Main].res \in Nat /\ mon.last <= call[Main].res
            /\ call[Main].res <= Total(evictions, Shards)
       ELSE /\ mon.last <= call[Main].acc + Total(evictions, From(call[Main].shard))
            /\ call[Main].acc <= Total(evictions, Upto(call[Main].shard))

(* The sentinel, if it is there, has the value inserted last.              *)
SentinelPut ==
    /\ call[Main].req.op = "insert" /\ Key(Main) = Sentinel /\ call[Main].req.val = mon.tick
    /\ call[Main].stage \in {"put", "done"} => SentinelHas(mon.tick)

SentinelRead ==
    /\ call[Main].req.op = "get" /\ Key(Main) = Sentinel /\ SentinelHas(mon.tick)
    /\ call[Main].stage = "done" => call[Main].res \in {NoValue, mon.tick}

MonRight ==
    /\ StatisticsSound /\ WorkersRight /\ LastRight
    /\ mon.pc = "capacity"  => LenSampled
    /\ mon.pc = "evictions" => CapacitySampled
    /\ mon.pc = "check"     => EvictionsSampled
    /\ mon.pc = "get"       => SentinelPut
    /\ mon.pc = "verify"    => SentinelRead

(* The functions that are summed, and how they grow.                       *)
LEMMA SumsGrow ==
    ASSUME ShardInv, ShardInv', Onward
    PROVE  /\ evictions \in [Shards -> Nat] /\ evictions' \in [Shards -> Nat]
           /\ Capacity \in [Shards -> Nat] /\ Capacity' \in [Shards -> Nat]
           /\ \A A \in SUBSET Shards : /\ Total(evictions, A) <= Total(evictions', A)
                                       /\ Total(evictions, A) \in Nat /\ Total(evictions', A) \in Nat
                                       /\ Total(Capacity, A) <= Total(Capacity', A)
                                       /\ Total(Capacity, A) \in Nat /\ Total(Capacity', A) \in Nat
<1>1. evictions \in [Shards -> Nat] /\ evictions' \in [Shards -> Nat] BY DEF ShardInv, ShardTypes
<1>2. ASSUME NEW s \in Shards
      PROVE  /\ size[s] * Ways \in Nat /\ size'[s] * Ways \in Nat /\ size[s] * Ways <= size'[s] * Ways
             /\ evictions[s] <= evictions'[s]
  <2> DEFINE m == size[s]
             n == size'[s]
  <2>1. m \in Nat /\ n \in Nat /\ Ways \in Nat /\ m <= n /\ evictions[s] <= evictions'[s]
    BY ShardedAssumption DEF ShardInv, ShardTypes, SizesRight, Onward
  <2> HIDE DEF m, n
  <2>2. m * Ways \in Nat /\ n * Ways \in Nat /\ m * Ways <= n * Ways BY <2>1
  <2> QED BY <2>1, <2>2 DEF m, n
<1>3. Capacity \in [Shards -> Nat] /\ Capacity' \in [Shards -> Nat] BY <1>2 DEF Capacity
<1>4. \A s \in Shards : Capacity[s] <= Capacity'[s] BY <1>2 DEF Capacity
<1>5. PICK e, f, c, d : e = evictions /\ f = evictions' /\ c = Capacity /\ d = Capacity' OBVIOUS
<1>6. /\ e \in [Shards -> Nat] /\ f \in [Shards -> Nat] /\ \A s \in Shards : e[s] <= f[s]
      /\ c \in [Shards -> Nat] /\ d \in [Shards -> Nat] /\ \A s \in Shards : c[s] <= d[s]
  BY <1>1, <1>2, <1>3, <1>4, <1>5
<1>7. \A A \in SUBSET Shards : /\ Total(e, A) <= Total(f, A) /\ Total(e, A) \in Nat /\ Total(f, A) \in Nat
                               /\ Total(c, A) <= Total(d, A) /\ Total(c, A) \in Nat /\ Total(d, A) \in Nat
  BY <1>6, TotalGrows
<1> QED BY <1>1, <1>3, <1>5, <1>7

(* Only insertions and removals change entries.                            *)
LEMMA StoreSteps ==
    ASSUME NEW t \in Threads, Step(t)
    PROVE  UNCHANGED store \/ Put(t) \/ Remove(t)
<1>1. CheckLoad(t) \/ Find(t) \/ Judge(t) \/ Stats(t) \/ IsEmpty(t) \/ GetTtl(t) => UNCHANGED store
  BY DEF CheckLoad, Find, Judge, Stats, IsEmpty, GetTtl, shardVars
<1>2. AutoGrow(t) \/ Tick(t) \/ Count(t) \/ Uncount(t) \/ SetTtl(t) \/ ResizeAll(t) => UNCHANGED store
  BY DEF AutoGrow, Tick, Count, Uncount, SetTtl, ResizeAll
<1> QED BY <1>1, <1>2 DEF Step

(* The sentinel keeps its value until it is put again.                     *)
LEMMA SentinelStays ==
    ASSUME ShardInv, NEW t \in Threads, Step(t), NEW v, SentinelHas(v), ~(Put(t) /\ Key(t) = Sentinel)
    PROVE  SentinelHas(v)'
<1>1. store \in [Keys -> Entries \cup {NoEntry}] /\ Sentinel \in Keys
  BY SoakAssumption DEF ShardInv, ShardTypes
<1>2. store'[Sentinel] \in {NoEntry, store[Sentinel]}
  <2>1. CASE UNCHANGED store BY <2>1
  <2>2. CASE Put(t)
    <3>1. Puts(t) /\ Key(t) # Sentinel BY <2>2, PutKind
    <3>2. PICK lost \in Victims(Key(t)), e \in Entries :
             store' = [j \in Keys |-> IF j = Key(t) THEN e ELSE IF j \in lost THEN NoEntry ELSE store[j]]
      BY <3>1 DEF Puts
    <3> QED BY <1>1, <3>1, <3>2
  <2>3. CASE Remove(t) BY <1>1, <2>3 DEF Remove
  <2> QED BY <2>1, <2>2, <2>3, StoreSteps
<1> QED BY <1>2 DEF SentinelHas

(* A step of another thread.                                               *)
LEMMA MonElsewhere ==
    ASSUME ShardInv, ShardInv', Onward, MonRight, UNCHANGED mon, call'[Main] = call[Main], WorkersRight',
           \A v : SentinelHas(v) => SentinelHas(v)'
    PROVE  MonRight'
<1>0. call[Main].acc \in Nat BY RecordIs, SoakAssumption DEF ShardInv, ShardTypes
<1>1. \A A \in SUBSET Shards : /\ Total(evictions, A) <= Total(evictions', A)
                               /\ Total(evictions, A) \in Nat /\ Total(evictions', A) \in Nat
                               /\ Total(Capacity, A) <= Total(Capacity', A)
                               /\ Total(Capacity, A) \in Nat /\ Total(Capacity', A) \in Nat
  BY SumsGrow
<1> DEFINE U == Upto(call[Main].shard)
           F == From(call[Main].shard)
<1>2. U \in SUBSET Shards /\ F \in SUBSET Shards /\ Shards \in SUBSET Shards BY UptoFrom
<1>3. Upto(call'[Main].shard) = U /\ From(call'[Main].shard) = F OBVIOUS
<1> HIDE DEF U, F
<1>4. LastRight' BY <1>1, <1>2 DEF MonRight, LastRight
<1>5. ASSUME LenSampled PROVE LenSampled' BY <1>0, <1>1, <1>2, <1>3, <1>5 DEF LenSampled, U
<1>6. ASSUME CapacitySampled PROVE CapacitySampled' BY <1>0, <1>1, <1>2, <1>3, <1>6 DEF CapacitySampled, F
<1>7. ASSUME EvictionsSampled, LastRight PROVE EvictionsSampled'
  BY <1>0, <1>1, <1>2, <1>3, <1>7 DEF EvictionsSampled, LastRight, U, F
<1>8. PICK v : v = mon.tick OBVIOUS
<1>9. ASSUME SentinelPut PROVE SentinelPut' BY <1>8, <1>9 DEF SentinelPut, SentinelHas, Key
<1>10. ASSUME SentinelRead PROVE SentinelRead' BY <1>8, <1>10 DEF SentinelRead, SentinelHas, Key
<1> QED BY <1>4, <1>5, <1>6, <1>7, <1>9, <1>10 DEF MonRight, StatisticsSound

(* A turn of a sum of the main thread.                                     *)
LEMMA MonSums ==
    ASSUME ShardInv, ShardInv', Onward, LastRight, UNCHANGED mon, Step(Main),
           call[Main].req.op \in {"len", "capacity", "eviction_count"}
    PROVE  /\ LenSampled => LenSampled'
           /\ CapacitySampled => CapacitySampled'
           /\ EvictionsSampled => EvictionsSampled'
<1> DEFINE c == call[Main]
           d == call'[Main]
           s == c.shard
           op == c.req.op
           n == Stat(op, s)
<1>1. Main \in Threads BY SoakAssumption
<1>2. c.acc \in Nat /\ s \in Shards /\ s \in Nat BY <1>1, RecordIs, ShardIn DEF ShardInv, ShardTypes
<1>3. /\ c.stage = "called" /\ c.acc + n \in Nat /\ UNCHANGED shardVars /\ d.req = c.req
      /\ IF s = LastShard THEN d.stage = "done" /\ d.res = c.acc + n
         ELSE d.stage = "called" /\ d.shard = s + 1 /\ d.acc = c.acc + n
  BY <1>1, SumStep DEF Goes
<1>4. evictions' = evictions /\ Capacity' = Capacity BY <1>3 DEF shardVars, Capacity
<1>5. evictions \in [Shards -> Nat] /\ Capacity \in [Shards -> Nat] BY SumsGrow
<1> DEFINE Sums(f) == /\ Total(f, Upto(LastShard + 1)) = Total(f, Shards) /\ Total(f, From(LastShard + 1)) = 0
                      /\ Total(f, Upto(s + 1)) = Total(f, Upto(s)) + f[s]
                      /\ Total(f, From(s)) = Total(f, From(s + 1)) + f[s]
                      /\ Total(f, Upto(s)) \in Nat /\ Total(f, From(s)) \in Nat
                      /\ Total(f, Upto(s + 1)) \in Nat /\ Total(f, From(s + 1)) \in Nat
<1>6. Sums(evictions) /\ Sums(Capacity) BY <1>2, <1>5, TotalIs
<1>7. /\ op = "len" => n = count[s] /\ n <= Capacity[s]
      /\ op = "capacity" => n = Capacity[s]
      /\ op = "eviction_count" => n = evictions[s]
  BY <1>2, CountFits DEF Stat, Capacity
<1>8. count[s] \in Nat /\ Capacity[s] \in Nat /\ evictions[s] \in Nat
  BY <1>2, <1>5, CountIs DEF ShardInv
<1> HIDE DEF n, op, s
<1>9. ASSUME LenSampled PROVE LenSampled'
  <2>1. op = "len" /\ c.acc <= Total(Capacity, Upto(s)) BY <1>3, <1>9 DEF LenSampled, op, s
  <2>2. c.acc + n <= Total(Capacity, Upto(s + 1)) BY <1>2, <1>6, <1>7, <1>8, <2>1
  <2> QED BY <1>3, <1>4, <1>6, <2>1, <2>2 DEF LenSampled, op
<1>10. ASSUME CapacitySampled PROVE CapacitySampled'
  <2>1. op = "capacity" /\ mon.len \in Nat /\ mon.len <= c.acc + Total(Capacity, From(s))
    BY <1>3, <1>10 DEF CapacitySampled, op, s
  <2>2. mon.len <= (c.acc + n) + Total(Capacity, From(s + 1)) BY <1>2, <1>6, <1>7, <1>8, <2>1
  <2> QED BY <1>3, <1>4, <1>6, <2>1, <2>2 DEF CapacitySampled, op
<1>11. ASSUME EvictionsSampled PROVE EvictionsSampled'
  <2>1. /\ op = "eviction_count" /\ mon.last <= c.acc + Total(evictions, From(s))
        /\ c.acc <= Total(evictions, Upto(s)) /\ mon.len \in Nat /\ mon.cap \in Nat /\ mon.len <= mon.cap
    BY <1>3, <1>11 DEF EvictionsSampled, op, s
  <2>2. mon.last \in Nat BY DEF LastRight
  <2>3. mon.last <= (c.acc + n) + Total(evictions, From(s + 1)) /\ c.acc + n <= Total(evictions, Upto(s + 1))
    BY <1>2, <1>6, <1>7, <1>8, <2>1, <2>2
  <2> QED BY <1>3, <1>4, <1>6, <2>1, <2>2, <2>3 DEF EvictionsSampled, op
<1> QED BY <1>9, <1>10, <1>11

(* The main thread puts and reads the sentinel.                            *)
LEMMA MonSentinel ==
    ASSUME ShardInv, Step(Main), UNCHANGED mon
    PROVE  /\ SentinelPut => SentinelPut'
           /\ SentinelRead => SentinelRead'
<1>0. Main \in Threads /\ Sentinel \in Keys /\ CallsRight /\ call \in [Threads -> Records]
  BY SoakAssumption DEF ShardInv, ShardTypes, CallsRight
<1>1. call'[Main].req = call[Main].req BY <1>0, StepReq
<1>2. ASSUME NEW st, NEW sh, NEW a, NEW r, Going(Main, st, sh, a, r)
      PROVE  call'[Main].stage = st /\ call'[Main].res = r
  BY <1>0, <1>2 DEF Going
<1>3. PICK v : v = mon.tick OBVIOUS
<1>4. ASSUME SentinelPut PROVE SentinelPut'
  <2>1. call[Main].req.op = "insert" /\ Key(Main) = Sentinel /\ call[Main].req.val = v
    BY <1>3, <1>4 DEF SentinelPut
  <2> SUFFICES ASSUME call'[Main].stage \in {"put", "done"} PROVE SentinelHas(v)'
    BY <1>1, <1>3, <2>1 DEF SentinelPut, Key, SentinelHas
  <2>2. ~CheckLoad(Main)
    <3> SUFFICES ASSUME CheckLoad(Main) PROVE FALSE OBVIOUS
    <3>1. \/ Becomes(Main, "checked")
          \/ \E a : call' = [call EXCEPT ![Main].stage = "loaded", ![Main].acc = a]
      BY DEF CheckLoad
    <3> QED BY <1>0, <1>2, <3>1, BecomesIs, CarriesIs
  <2>3. ~AutoGrow(Main) BY <1>0, <1>2, CarriesIs DEF AutoGrow
  <2>4. ~Tick(Main) BY <1>0, <1>2, BecomesIs DEF Tick
  <2>5. CASE Put(Main)
    <3>1. store'[Sentinel].val = v
      <4> DEFINE e == [val |-> call[Main].req.val, epoch |-> epoch[ShardOf(call[Main].req.key)], ttl |-> call[Main].req.n]
      <4>1. \E lost : store' = [j \in Keys |-> IF j = call[Main].req.key THEN e
                                               ELSE IF j \in lost THEN NoEntry ELSE store[j]]
        BY <2>5 DEF Put
      <4>2. e.val = v BY <2>1
      <4> HIDE DEF e
      <4> QED BY <1>0, <2>1, <4>1, <4>2 DEF Key
    <3> QED BY <3>1 DEF SentinelHas
  <2>6. CASE Count(Main)
    <3>1. SentinelHas(v) BY <1>3, <1>4, <2>6 DEF SentinelPut, Count, At
    <3> QED BY <2>6, <3>1 DEF Count, SentinelHas
  <2> QED BY <1>0, <2>1, <2>2, <2>3, <2>4, <2>5, <2>6, StepOp
<1>5. ASSUME SentinelRead PROVE SentinelRead'
  <2>1. call[Main].req.op = "get" /\ Key(Main) = Sentinel /\ SentinelHas(v) BY <1>3, <1>5 DEF SentinelRead
  <2>2. UNCHANGED store BY <1>0, <2>1, StepOp
  <2> SUFFICES ASSUME call'[Main].stage = "done" PROVE call'[Main].res \in {NoValue, v}
    BY <1>1, <1>3, <2>1, <2>2 DEF SentinelRead, Key, SentinelHas
  <2>3. CASE Find(Main)
    <3>1. \/ Answers(Main, NoValue)
          \/ \E a : call' = [call EXCEPT ![Main].stage = "found", ![Main].acc = a]
      BY <2>3 DEF Find
    <3>2. CASE Answers(Main, NoValue)
      <4>1. Going(Main, "done", 0, 0, NoValue) BY <1>0, <3>2, AnswersIs
      <4> QED BY <1>2, <4>1
    <3>3. ASSUME NEW a, call' = [call EXCEPT ![Main].stage = "found", ![Main].acc = a] PROVE FALSE
      <4>1. Going(Main, "found", call[Main].shard, a, call[Main].res) BY <1>0, <3>3, CarriesIs
      <4>2. call'[Main].stage = "found" BY <1>2, <4>1
      <4> QED BY <4>2
    <3> QED BY <3>1, <3>2, <3>3
  <2>4. CASE Judge(Main)
    <3>1. PICK r \in {NoValue, store[Key(Main)].val} : Going(Main, "done", 0, 0, r)
      BY <1>0, <2>4, JudgeIs DEF ShardInv
    <3>2. Present(Key(Main)) BY <1>0, <2>4, JudgeIs DEF ShardInv
    <3>3. r \in {NoValue, v} BY <2>1, <3>1, <3>2 DEF SentinelHas, Present
    <3> QED BY <1>2, <3>1, <3>3
  <2> QED BY <1>0, <2>1, <2>3, <2>4, StepOp
<1> QED BY <1>4, <1>5

(* No worker comes to insert the sentinel.                                 *)
LEMMA WorkersStep ==
    ASSUME ShardInv, MonTypes, WorkersRight, SoakNext
    PROVE  WorkersRight'
<1> SUFFICES ASSUME NEW t \in Threads \ {Main} PROVE ~(call'[t].req.op = "insert" /\ call'[t].req.key = Sentinel)
  BY DEF WorkersRight, Key
<1>1. ~(call[t].req.op = "insert" /\ call[t].req.key = Sentinel) BY DEF WorkersRight, Key
<1>2. CASE Step(t) BY <1>1, <1>2, StepReq DEF ShardInv, ShardTypes
<1>3. CASE Begins(t)
  <2>1. PICK c : Legal(c) /\ Invoke(t, c) /\ c \in Calls[t] BY <1>3 DEF Begins
  <2>2. call'[t] = [req |-> c, stage |-> "called", shard |-> 0, acc |-> 0, res |-> NoValue] BY <2>1, InvokeKind
  <2> QED BY <2>1, <2>2, SoakAssumption
<1>4. CASE call'[t] = call[t] BY <1>1, <1>4
<1> QED BY <1>2, <1>3, <1>4, WhoMoves

(* The main thread begins a call: where it is then.                        *)
LEMMA MainBegins ==
    ASSUME ShardInv, NEW c, Legal(c), Invoke(Main, c)
    PROVE  /\ call'[Main].req = c /\ call'[Main].stage = "called" /\ call'[Main].shard = 0
           /\ call'[Main].acc = 0 /\ UNCHANGED <<store, size, evictions>>
<1>1. call'[Main] = [req |-> c, stage |-> "called", shard |-> 0, acc |-> 0, res |-> NoValue]
  BY SoakAssumption, InvokeKind
<1> QED BY <1>1 DEF Invoke, shardVars

(* The fields of the main thread's record.                                 *)
LEMMA MonFields ==
    ASSUME MonTypes
    PROVE  /\ \A x : LET m == [mon EXCEPT !.pc = x]
                     IN  m.pc = x /\ m.len = mon.len /\ m.cap = mon.cap /\ m.last = mon.last
                           /\ m.tick = mon.tick /\ m.fail = mon.fail
           /\ \A x, y : LET m == [mon EXCEPT !.pc = x, !.tick = y]
                        IN  m.pc = x /\ m.last = mon.last /\ m.fail = mon.fail
           /\ \A x, y : LET m == [mon EXCEPT !.pc = x, !.len = y]
                        IN  m.pc = x /\ m.len = y /\ m.last = mon.last /\ m.fail = mon.fail
           /\ \A x, y : LET m == [mon EXCEPT !.pc = x, !.cap = y]
                        IN  m.pc = x /\ m.cap = y /\ m.len = mon.len /\ m.last = mon.last /\ m.fail = mon.fail
           /\ \A x, y : LET m == [mon EXCEPT !.pc = x, !.fail = y]
                        IN  m.pc = x /\ m.last = mon.last /\ m.fail = y
           /\ \A x, y, z : LET m == [mon EXCEPT !.pc = x, !.len = 0, !.cap = 0, !.last = y, !.fail = z]
                           IN  m.pc = x /\ m.last = y /\ m.fail = z
BY DEF MonTypes

(* The samples stay right.                                                 *)
LEMMA MonStep ==
    ASSUME ShardInv, ShardInv', MonTypes, MonRight, SoakNext
    PROVE  MonRight'
<1>0. Main \in Threads /\ WorkersRight' /\ LastRight /\ StatisticsSound /\ mon.tick \in Nat
  BY SoakAssumption, WorkersStep DEF MonRight, MonTypes
<1>a. evictions \in [Shards -> Nat] /\ Capacity \in [Shards -> Nat]
  <2>1. evictions \in [Shards -> Nat] BY DEF ShardInv, ShardTypes
  <2>2. \A s \in Shards : size[s] * Ways \in Nat
    BY ShardedAssumption DEF ShardInv, ShardTypes, SizesRight
  <2> QED BY <2>1, <2>2 DEF Capacity
<1>b. /\ Total(evictions, Upto(0)) = 0 /\ Total(evictions, From(0)) = Total(evictions, Shards)
      /\ Total(Capacity, Upto(0)) = 0 /\ Total(Capacity, From(0)) = Total(Capacity, Shards)
      /\ Total(evictions, Shards) \in Nat /\ Total(Capacity, Shards) \in Nat
  BY <1>a, TotalIs
<1>c. ASSUME UNCHANGED <<store, size, evictions>>
      PROVE  evictions' = evictions /\ Capacity' = Capacity /\ \A v : SentinelHas(v)' <=> SentinelHas(v)
  BY <1>c DEF Capacity, SentinelHas
<1>1. CASE \E t \in Threads : Step(t) /\ UNCHANGED mon
  <2>1. PICK t \in Threads : Step(t) /\ UNCHANGED mon BY <1>1
  <2>2. Onward BY <2>1, ShardStep
  <2>3. CASE t # Main
    <3>1. call'[Main] = call[Main]
      <4>1. Moves(t)
        BY <2>1, ShardStep DEF Kinds, Quiet, Finds, Judges, Puts, Counts, Drops, Uncounts, Grows
      <4> QED BY <1>0, <2>3, <4>1 DEF Moves
    <3>2. ~(Put(t) /\ Key(t) = Sentinel) BY <2>3 DEF MonRight, WorkersRight, Put, At
    <3>3. \A v : SentinelHas(v) => SentinelHas(v)' BY <2>1, <3>2, SentinelStays
    <3> QED BY <1>0, <2>1, <2>2, <3>1, <3>3, MonElsewhere
  <2>4. CASE t = Main
    <3>1. LastRight'
      <4>1. Total(evictions, Shards) <= Total(evictions', Shards) /\ Total(evictions', Shards) \in Nat
        BY <2>2, SumsGrow
      <4> QED BY <1>0, <1>b, <2>1, <4>1 DEF LastRight
    <3>2. Step(Main) /\ UNCHANGED mon BY <2>1, <2>4
    <3>3. mon.pc = "capacity" => LenSampled' BY <1>0, <2>2, <3>2, MonSums DEF MonRight, LenSampled
    <3>4. mon.pc = "evictions" => CapacitySampled' BY <1>0, <2>2, <3>2, MonSums DEF MonRight, CapacitySampled
    <3>5. mon.pc = "check" => EvictionsSampled' BY <1>0, <2>2, <3>2, MonSums DEF MonRight, EvictionsSampled
    <3>6. mon.pc = "get" => SentinelPut' BY <3>2, MonSentinel DEF MonRight
    <3>7. mon.pc = "verify" => SentinelRead' BY <3>2, MonSentinel DEF MonRight
    <3> QED BY <1>0, <3>1, <3>2, <3>3, <3>4, <3>5, <3>6, <3>7 DEF MonRight, StatisticsSound
  <2> QED BY <2>3, <2>4
<1>2. CASE \E t \in Threads \ {Main} : \E c \in Calls[t] : Invoke(t, c) /\ UNCHANGED mon
  <2>1. PICK t \in Threads \ {Main} : Begins(t) /\ UNCHANGED mon BY <1>2, SoakAssumption DEF Begins
  <2>2. Onward /\ UNCHANGED shardVars /\ Moves(t) BY <2>1, ShardStep, BeginsIs
  <2>3. call'[Main] = call[Main] BY <1>0, <2>2 DEF Moves
  <2>4. \A v : SentinelHas(v) => SentinelHas(v)' BY <2>2 DEF SentinelHas, shardVars
  <2> QED BY <1>0, <2>1, <2>2, <2>3, <2>4, MonElsewhere
<1>d. ASSUME mon'.last = mon.last, mon'.fail = mon.fail, UNCHANGED evictions PROVE LastRight' /\ StatisticsSound'
  BY <1>0, <1>d DEF LastRight, StatisticsSound
<1>3. CASE Prime
  <2>0. PICK x \in {"prime", "len"} : mon' = [mon EXCEPT !.pc = x] BY <1>3 DEF Prime, GoesTo
  <2>1. mon'.pc \in {"prime", "len"} /\ mon'.last = mon.last /\ mon'.fail = mon.fail
    BY <2>0, MonFields
  <2>2. UNCHANGED evictions BY <1>3, MainLegal, MainBegins DEF Prime, PutSentinel
  <2> QED BY <1>0, <1>d, <2>1, <2>2 DEF MonRight
<1>4. CASE SampleLen
  <2>1. mon'.pc = "capacity" /\ mon'.last = mon.last /\ mon'.fail = mon.fail
    BY <1>4, MonFields DEF SampleLen
  <2> DEFINE q == Request("len", NoValue, 0, 0)
  <2>2. q.op = "len" /\ Legal(q) /\ Invoke(Main, q) BY <1>4, MainLegal DEF SampleLen, Does, Request
  <2> HIDE DEF q
  <2>3. /\ call'[Main].req = q /\ call'[Main].stage = "called" /\ call'[Main].shard = 0
        /\ call'[Main].acc = 0 /\ UNCHANGED <<store, size, evictions>>
    BY <2>2, MainBegins
  <2>4. LenSampled' BY <1>b, <1>c, <2>2, <2>3 DEF LenSampled
  <2> QED BY <1>0, <1>d, <2>1, <2>3, <2>4 DEF MonRight
<1>5. CASE SampleCapacity
  <2>1. mon'.pc = "evictions" /\ mon'.last = mon.last /\ mon'.fail = mon.fail /\ mon'.len = Result
    BY <1>5, MonFields DEF SampleCapacity
  <2> DEFINE q == Request("capacity", NoValue, 0, 0)
  <2>2. q.op = "capacity" /\ Legal(q) /\ Invoke(Main, q) BY <1>5, MainLegal DEF SampleCapacity, Does, Request
  <2> HIDE DEF q
  <2>3. /\ call'[Main].req = q /\ call'[Main].stage = "called" /\ call'[Main].shard = 0
        /\ call'[Main].acc = 0 /\ UNCHANGED <<store, size, evictions>>
    BY <2>2, MainBegins
  <2>4. Result \in Nat /\ Result <= Total(Capacity, Shards)
    BY <1>5 DEF MonRight, LenSampled, SampleCapacity, Ready, Result
  <2>5. CapacitySampled' BY <1>b, <1>c, <2>1, <2>2, <2>3, <2>4 DEF CapacitySampled
  <2> QED BY <1>0, <1>d, <2>1, <2>3, <2>5 DEF MonRight
<1>6. CASE SampleEvictions
  <2>1. /\ mon'.pc = "check" /\ mon'.last = mon.last /\ mon'.fail = mon.fail /\ mon'.len = mon.len
        /\ mon'.cap = Result
    BY <1>6, MonFields DEF SampleEvictions
  <2> DEFINE q == Request("eviction_count", NoValue, 0, 0)
  <2>2. q.op = "eviction_count" /\ Legal(q) /\ Invoke(Main, q)
    BY <1>6, MainLegal DEF SampleEvictions, Does, Request
  <2> HIDE DEF q
  <2>3. /\ call'[Main].req = q /\ call'[Main].stage = "called" /\ call'[Main].shard = 0
        /\ call'[Main].acc = 0 /\ UNCHANGED <<store, size, evictions>>
    BY <2>2, MainBegins
  <2>4. Result \in Nat /\ mon.len \in Nat /\ mon.len <= Result
    BY <1>6 DEF MonRight, CapacitySampled, SampleEvictions, Ready, Result
  <2>5. EvictionsSampled' BY <1>0, <1>b, <1>c, <2>1, <2>2, <2>3, <2>4 DEF EvictionsSampled, LastRight
  <2> QED BY <1>0, <1>d, <2>1, <2>3, <2>5 DEF MonRight
<1>7. CASE CheckStats
  <2>1. EvictionsSampled /\ call[Main].stage = "done" BY <1>7 DEF CheckStats, Ready, MonRight
  <2>2. /\ mon.len \in Nat /\ mon.cap \in Nat /\ mon.last \in Nat /\ Result \in Nat
        /\ mon.len <= mon.cap /\ mon.last <= Result /\ Result <= Total(evictions, Shards)
    BY <1>0, <2>1 DEF EvictionsSampled, LastRight, Result
  <2>3. ~(mon.len > mon.cap) /\ ~(Result < mon.last) BY <2>2
  <2>4. mon' = [mon EXCEPT !.pc = "sentinel", !.len = 0, !.cap = 0, !.last = Result, !.fail = {}]
    BY <1>7, <2>3 DEF CheckStats
  <2>5. mon'.pc = "sentinel" /\ mon'.last = Result /\ mon'.fail = {} BY <2>4, MonFields
  <2>6. UNCHANGED evictions BY <1>7 DEF CheckStats, Silent, shardVars
  <2> QED BY <1>0, <2>2, <2>5, <2>6 DEF MonRight, LastRight, StatisticsSound
<1>8. CASE InsertSentinel
  <2>1. /\ mon'.pc = "get" /\ mon'.last = mon.last /\ mon'.fail = mon.fail /\ mon'.tick = mon.tick
    BY <1>8, MonFields DEF InsertSentinel, GoesTo
  <2> DEFINE q == Request("insert", Sentinel, mon.tick, SentinelTtl)
  <2>2. /\ q.op = "insert" /\ q.key = Sentinel /\ q.val = mon.tick /\ Legal(q) /\ Invoke(Main, q)
    BY <1>0, <1>8, MainLegal DEF InsertSentinel, PutSentinel, Request
  <2> HIDE DEF q
  <2>3. call'[Main].req = q /\ call'[Main].stage = "called" /\ UNCHANGED evictions BY <2>2, MainBegins
  <2>4. SentinelPut' BY <2>1, <2>2, <2>3 DEF SentinelPut, Key
  <2> QED BY <1>0, <1>d, <2>1, <2>3, <2>4 DEF MonRight
<1>9. CASE ReadSentinel
  <2>1. /\ mon'.pc = "verify" /\ mon'.last = mon.last /\ mon'.fail = mon.fail /\ mon'.tick = mon.tick
    BY <1>9, MonFields DEF ReadSentinel, GoesTo
  <2> DEFINE q == Request("get", Sentinel, 0, 0)
  <2>2. q.op = "get" /\ q.key = Sentinel /\ Legal(q) /\ Invoke(Main, q)
    BY <1>9, MainLegal DEF ReadSentinel, Request
  <2> HIDE DEF q
  <2>3. call'[Main].req = q /\ call'[Main].stage = "called" /\ UNCHANGED <<store, size, evictions>>
    BY <2>2, MainBegins
  <2>4. SentinelHas(mon.tick) BY <1>9 DEF ReadSentinel, Ready, MonRight, SentinelPut
  <2>5. SentinelHas(mon.tick)' BY <2>1, <2>3, <2>4 DEF SentinelHas
  <2>6. SentinelRead' BY <2>1, <2>2, <2>3, <2>5 DEF SentinelRead, Key
  <2> QED BY <1>0, <1>d, <2>1, <2>3, <2>6 DEF MonRight
<1>10. CASE VerifySentinel
  <2>1. Result \in {NoValue, mon.tick} BY <1>10 DEF VerifySentinel, Ready, MonRight, SentinelRead, Result
  <2> DEFINE f == CASE Result = NoValue -> {"sentinel missing"}
                    [] Result = mon.tick -> {}
                    [] OTHER -> {"sentinel wrong value"}
  <2>2. mon' = [mon EXCEPT !.pc = "len", !.fail = f] BY <1>10 DEF VerifySentinel
  <2>a. f \subseteq {"sentinel missing"} BY <2>1
  <2> HIDE DEF f
  <2>3. mon'.pc = "len" /\ mon'.last = mon.last /\ mon'.fail = f BY <2>2, MonFields
  <2>4. UNCHANGED evictions BY <1>10 DEF VerifySentinel, Silent, shardVars
  <2> QED BY <1>0, <2>a, <2>3, <2>4 DEF MonRight, LastRight, StatisticsSound
<1> QED BY <1>1, <1>2, <1>3, <1>4, <1>5, <1>6, <1>7, <1>8, <1>9, <1>10 DEF SoakNext

(* The checks of the soak test on the statistics never fail, and what it   *)
(* reads back as the sentinel is what it inserted last (soak_test main).   *)
THEOREM SoakStatisticsSound == SoakSpec => []StatisticsSound
<1>1. SoakInit => MonRight
  <2> SUFFICES ASSUME SoakInit PROVE MonRight OBVIOUS
  <2>1. mon.pc = "set_ttl" /\ mon.last = 0 /\ mon.fail = {} BY DEF SoakInit
  <2>2. evictions \in [Shards -> Nat] BY ShardInit DEF ShardInv, ShardTypes
  <2>3. Total(evictions, Shards) \in Nat BY <2>2, TotalIs
  <2>4. WorkersRight BY DEF SoakInit, Init, WorkersRight, Request
  <2> QED BY <2>1, <2>3, <2>4 DEF MonRight, StatisticsSound, LastRight
<1>2. ShardInv /\ ShardInv' /\ MonTypes /\ MonRight /\ [SoakNext]_soakVars => MonRight'
  <2> SUFFICES ASSUME ShardInv, ShardInv', MonTypes, MonRight, [SoakNext]_soakVars PROVE MonRight'
    OBVIOUS
  <2>1. CASE SoakNext BY <2>1, MonStep
  <2>2. CASE UNCHANGED soakVars
    <3>1. UNCHANGED <<shardVars, call, mon>> BY <2>2 DEF soakVars, vars
    <3>2. Onward BY <3>1, ShardStays
    <3>3. WorkersRight' BY <3>1 DEF MonRight, WorkersRight, Key
    <3>4. \A v : SentinelHas(v) => SentinelHas(v)' BY <3>1 DEF SentinelHas, shardVars
    <3> QED BY <3>1, <3>2, <3>3, <3>4, MonElsewhere
  <2> QED BY <2>1, <2>2
<1>3. MonRight => StatisticsSound BY DEF MonRight
<1> QED BY <1>1, <1>2, <1>3, ShardInvariant, PTL DEF SoakSpec
=============================================================================
