-------------------- MODULE ConcurrentPulseMapRefinement --------------------
(***************************************************************************)
(* ConcurrentPulseMap implements SharedCache: every call takes effect at   *)
(* one instant while it runs.  An insertion does so when it stamps its     *)
(* entry, a removal when it leaves a tombstone, a lookup when it decides   *)
(* whether the entry has expired.                                          *)
(***************************************************************************)
EXTENDS ConcurrentPulseMapProofs

-----------------------------------------------------------------------------
(* What SharedCache sees of a thread.                                      *)
Seen(t) == [req |-> call[t], stage |-> Stage(t),
            sample |-> IF pc[t] = "age" THEN seen[t] ELSE 0,
            res |-> IF pc[t] \in {"push", "copy"} THEN Decoded(Value(t)) ELSE res[t]]

(* Stamps lie in the past, and every tick of the epoch belongs to a call,  *)
(* so that the wrapping difference of epochs is an age.                    *)
Unticked     == {t \in Threads : Op(t) = "insert" /\ pc[t] \in {"check", "grow", "tick"}}
TicksCounted == current_epoch + Cardinality(Unticked) <= made
StampsPast   == \A b \in BucketIds : \A s \in SlotIds : epochs[b][s].epoch <= current_epoch

(* The size that a resize wants: the caller's, or twice the number of      *)
(* buckets at some earlier time.                                           *)
WantedSize(t) == pc[t] = "grow" =>
    /\ Op(t) = "resize" => seen[t] = call[t].n
    /\ Op(t) = "insert" => seen[t] <= 2 * num_buckets /\ \E i \in 0 .. seen[t] : seen[t] = 2^i

Unanswered(t) == pc[t] \notin {"idle", "uncount"} => res[t] = NoValue

(* An insertion between its choice of a slot and its stamp: the entries    *)
(* beside it are as committed, and the committed ones that are gone are    *)
(* those that the contract lets it forget.                                 *)
Spares(t, lost) ==
    \A j \in Keys \ {call[t].key} : Bucket(j) = Home(t) =>
        /\ j \in lost => \A o \in Settled : KeyAt(o) # j
        /\ j \notin lost /\ store[j] # NoEntry => \E o \in Settled : KeyAt(o) = j

Pending(t) == pc[t] \in {"write", "stamp"} =>
    /\ \A o \in Settled : o[1] = Home(t) /\ o # Place(t) => store[KeyAt(o)] = EntryAt(o)
    /\ \E lost \in Cache!Victims(call[t].key) : Spares(t, lost)

CallInv ==
    /\ store = [k \in Keys |-> store[k]] /\ res = [t \in Threads |-> res[t]]
    /\ TicksCounted
    /\ StampsPast
    /\ \A t \in Threads : WantedSize(t) /\ Unanswered(t) /\ Pending(t)

-----------------------------------------------------------------------------
(* What a step does to the registers that CallInv is about.                *)
Owes(t) == IF Op(t) = "insert" /\ pc[t] \in {"check", "grow", "tick"} THEN 1 ELSE 0

RegistersKept(t) ==
    /\ res' = [u \in Threads |-> res'[u]] /\ made' = made
    /\ \A u \in Threads \ {t} : seen'[u] = seen[u] /\ res'[u] = res[u]
    /\ pc'[t] \notin {"idle", "uncount"} => pc[t] \notin {"idle", "uncount"} /\ res'[t] = res[t]
    /\ pc'[t] = "grow" => pc[t] = "check" /\ seen'[t] = 2 * num_buckets
    /\ current_epoch' >= current_epoch /\ current_epoch' + Owes(t)' <= current_epoch + Owes(t)

(* Every step but a resize does that and no more.                          *)
LEMMA StepRegisters ==
    ASSUME ControlInv, NEW t \in Threads, Step(t), ~Grow(t), res = [u \in Threads |-> res[u]]
    PROVE  RegistersKept(t)
<1>0. /\ pc \in [Threads -> Labels] /\ seen \in [Threads -> Nat] /\ current_epoch \in Nat
      /\ call' = call /\ \A l : l = pc[t] => Op(t) \in OpsAt(l) \/ l = "idle"
  BY StepFrame DEF ControlInv, Control, CallsRight
<1>a. \A r : res' = [res EXCEPT ![t] = r] =>
         res' = [u \in Threads |-> res'[u]] /\ \A u \in Threads \ {t} : res'[u] = res[u]
  OBVIOUS
<1> USE DEF RegistersKept, Goto, Leave, registers, frame, counters, AfterGrow, Owes, Op
<1>1. CASE Enter(t) BY <1>0, <1>1 DEF Enter
<1>2. CASE Acquire(t) BY <1>0, <1>2 DEF Acquire
<1>3. CASE CheckLoad(t) BY <1>0, <1>3 DEF CheckLoad
<1>4. CASE Tick(t) BY <1>0, <1>4 DEF Tick, OpsAt
<1>5. CASE DrainTake(t) BY <1>0, <1>5 DEF DrainTake
<1>6. CASE DrainEnd(t) BY <1>0, <1>6 DEF DrainEnd
<1>7. CASE Apply(t) BY <1>0, <1>7 DEF Apply
<1>8. CASE InsertMatch(t) BY <1>0, <1>8 DEF InsertMatch
<1>9. CASE Write(t) BY <1>0, <1>9 DEF Write
<1>10. CASE Stamp(t) BY <1>0, <1>10 DEF Stamp
<1>11. CASE InsertEnd(t) BY <1>0, <1>11 DEF InsertEnd
<1>12. CASE LookupMiss(t) BY <1>0, <1>12 DEF LookupMiss
<1>13. CASE LookupFound(t) BY <1>0, <1>13 DEF LookupFound
<1>14. CASE LookupExpired(t) BY <1>0, <1>14 DEF LookupExpired
<1>15. CASE PeekLive(t) BY <1>0, <1>15 DEF PeekLive
<1>16. CASE GetLive(t) BY <1>0, <1>16 DEF GetLive
<1>17. CASE GetPush(t) BY <1>0, <1>17 DEF GetPush
<1>18. CASE GetCopy(t)
  <2>1. \E r : res' = [res EXCEPT ![t] = r] BY <1>18 DEF GetCopy
  <2>2. res' = [u \in Threads |-> res'[u]] /\ \A u \in Threads \ {t} : res'[u] = res[u] BY <2>1, <1>a
  <2>3. pc' = [pc EXCEPT ![t] = "idle"] BY <1>18 DEF GetCopy
  <2>4. /\ made' = made /\ current_epoch' = current_epoch
        /\ \A u \in Threads \ {t} : seen'[u] = seen[u]
    BY <1>0, <1>18 DEF GetCopy
  <2> QED BY <1>0, <2>2, <2>3, <2>4
<1>19. CASE RemoveFound(t)
  <2>1. \E r : res' = [res EXCEPT ![t] = r] BY <1>19 DEF RemoveFound
  <2>2. res' = [u \in Threads |-> res'[u]] /\ \A u \in Threads \ {t} : res'[u] = res[u] BY <2>1, <1>a
  <2>3. pc' = [pc EXCEPT ![t] = "uncount"] BY <1>19 DEF RemoveFound
  <2>4. /\ made' = made /\ current_epoch' = current_epoch
        /\ \A u \in Threads \ {t} : seen'[u] = seen[u]
    BY <1>0, <1>19 DEF RemoveFound
  <2> QED BY <1>0, <2>2, <2>3, <2>4
<1>20. CASE RemoveEnd(t) BY <1>0, <1>20 DEF RemoveEnd
<1>21. CASE RemoveMissing(t)
  <2>1. \E r : res' = [res EXCEPT ![t] = r] BY <1>21 DEF RemoveMissing
  <2>2. res' = [u \in Threads |-> res'[u]] /\ \A u \in Threads \ {t} : res'[u] = res[u] BY <2>1, <1>a
  <2>3. pc' = [pc EXCEPT ![t] = "idle"] BY <1>21 DEF RemoveMissing
  <2>4. /\ made' = made /\ current_epoch' = current_epoch
        /\ \A u \in Threads \ {t} : seen'[u] = seen[u]
    BY <1>0, <1>21 DEF RemoveMissing
  <2> QED BY <1>0, <2>2, <2>3, <2>4
<1>22. CASE SetTtl(t) BY <1>0, <1>22 DEF SetTtl
<1>23. CASE GrowSkip(t) BY <1>0, <1>23 DEF GrowSkip, OpsAt
<1> QED BY <1>1, <1>2, <1>3, <1>4, <1>5, <1>6, <1>7, <1>8, <1>9, <1>10, <1>11, <1>12,
           <1>13, <1>14, <1>15, <1>16, <1>17, <1>18, <1>19, <1>20, <1>21, <1>22, <1>23
        DEF Step, Insert, Lookup, Remove

-----------------------------------------------------------------------------
(* Resizing.                                                               *)

(* A larger table splits buckets and never merges them, so no bucket of it *)
(* overflows.                                                              *)
LEMMA Splits ==
    ASSUME ControlInv, TableInv, Settled = Occupied, NEW g \in Nat, g > 0
    PROVE  FitsIn(num_buckets * g)
<1> DEFINE m == num_buckets
           n == m * g
<1>1. m \in Nat /\ m > 0 BY DEF ControlInv, Size
<1> HIDE DEF m
<1>2. n \in Nat /\ n > 0 BY <1>1
<1>3. n % m = 0
  <2>1. 0 \in 0 .. (m - 1) /\ n = m * g + 0 BY <1>1
  <2> QED BY <1>1, <1>2, <2>1, RemainderIs
<1> HIDE DEF n
<1>4. ASSUME NEW b \in 0 .. (n - 1) PROVE Cardinality(MovesTo(n, b)) <= SlotsPerBucket
  <2> DEFINE c == b % m
             F == {<<c, s>> : s \in SlotIds}
  <2>1. ASSUME NEW o \in MovesTo(n, b) PROVE o \in F
    <3>1. o \in Occupied /\ Hash[KeyAt(o)] % n = b BY DEF MovesTo, Index
    <3>2. KeyAt(o) \in Keys BY <3>1, SettledIn
    <3> DEFINE h == Hash[KeyAt(o)]
    <3>3. h \in Nat BY <3>2, SharedAssumption
    <3>4. h % m = o[1] BY <3>1 DEF TableInv, Filed, Bucket, Index, m
    <3>5. (h % n) % m = h % m BY <1>1, <1>2, <1>3, <3>3, RemainderNested
    <3>6. o = <<o[1], o[2]>> /\ o[2] \in SlotIds BY <3>1, PlacesIn
    <3> QED BY <3>1, <3>4, <3>5, <3>6
  <2> DEFINE f == [s \in SlotIds |-> <<c, s>>]
  <2> HIDE DEF c
  <2>2. f \in [SlotIds -> F] /\ (\A s, r \in SlotIds : f[s] = f[r] => s = r) /\ \A x \in F : \E s \in SlotIds : f[s] = x
    OBVIOUS
  <2> HIDE DEF f, F
  <2>3. f \in Bijection(SlotIds, F) BY <2>2, Fun_IsBij
  <2>4. IsFiniteSet(F) /\ Cardinality(F) = Cardinality(SlotIds)
    BY <2>3, SlotIdsNat, FS_Bijection DEF ExistsBijection
  <2>5. MovesTo(n, b) \in SUBSET F BY <2>1
  <2> QED BY <2>4, <2>5, SlotIdsNat, FS_Subset
<1> QED BY <1>4 DEF FitsIn, n, m

(* A resize goes exactly as far as it is asked to.                         *)
LEMMA GrowSize ==
    ASSUME ControlInv, TableInv, NEW t \in Threads, WantedSize(t), Grow(t)
    PROVE  /\ num_buckets' \in Nat /\ num_buckets < num_buckets'
           /\ Op(t) = "insert" => num_buckets' = 2 * num_buckets
           /\ Op(t) = "resize" =>
                 LET n == call[t].n IN
                 /\ num_buckets < n
                 /\ num_buckets' \in {m \in {num_buckets * 2^i : i \in 0 .. n} : n <= m /\ m < 2 * n}
<1> DEFINE w == seen[t]
           P == PowerOfTwo(w)
           size == num_buckets
<1>1. w \in Nat /\ pc[t] = "grow" /\ Op(t) \in {"insert", "resize"}
  BY DEF Grow, ControlInv, Control, CallsRight, OpsAt
<1>2. P \in Nat /\ P >= w /\ (\E i \in 0 .. w : P = 2^i) /\ (\A i \in 0 .. w : 2^i >= w => P <= 2^i)
  BY <1>1, PowerOfTwoIs
<1>3. PICK a \in 0 .. w : P = 2^a BY <1>2
<1>4. PICK b \in 0 .. size : size = 2^b BY DEF ControlInv, Size
<1>5. size \in Nat /\ size > 0 /\ size < P
  <2>1. size \in Nat /\ size > 0 BY DEF ControlInv, Size
  <2>2. ~(size >= P) BY DEF Grow, AlreadyGrown
  <2> HIDE DEF P, size
  <2> QED BY <1>2, <2>1, <2>2
<1>6. a \in Nat /\ b \in Nat BY <1>1, <1>3, <1>4, <1>5
<1> DEFINE g == 2^(a - b)
<1>8. b < a /\ a - b \in Nat /\ P = size * g
  <2>1. 2^b < 2^a BY <1>3, <1>4, <1>5
  <2> QED BY <1>3, <1>4, <1>6, <2>1, PowerDivides
<1>9. g \in Nat /\ g > 0
  <2> DEFINE d == a - b
  <2>1. d \in Nat BY <1>8
  <2> HIDE DEF d
  <2>2. 2^d \in Nat /\ d < 2^d BY <2>1, PowerIs
  <2> DEFINE e == 2^d
  <2> HIDE DEF e
  <2>3. e \in Nat /\ e > 0 BY <2>1, <2>2 DEF e
  <2> QED BY <2>3 DEF e, d
<1>10. size' = P
  <2>1. PICK n \in NewSize(P) : size' = n BY DEF Grow
  <2>2. Settled = Occupied BY GrowTable DEF Relocated
  <2>3. FitsIn(P) BY <1>8, <1>9, <2>2, Splits
  <2>4. P = P * 2^0 /\ 0 \in 0 .. MaxDoublings
    <3>1. 2^0 = 1 OBVIOUS
    <3> HIDE DEF P
    <3> QED BY <1>2, <3>1, SharedAssumption
  <2> HIDE DEF P
  <2>5. n <= P /\ \E j \in 0 .. MaxDoublings : n = P * 2^j BY <2>1, <2>3, <2>4 DEF NewSize
  <2>6. PICK j \in 0 .. MaxDoublings : n = P * 2^j BY <2>5
  <2>7. j \in Nat BY SharedAssumption
  <2>8. 2^j \in Nat /\ j < 2^j BY <2>7, PowerIs
  <2> DEFINE e == 2^j
  <2> HIDE DEF e
  <2>9. e \in Nat /\ e > 0 /\ n = P * e BY <2>6, <2>7, <2>8 DEF e
  <2>10. P * e >= P BY <1>2, <2>9
  <2> QED BY <1>2, <2>1, <2>5, <2>9, <2>10
<1>11. ASSUME Op(t) = "insert" PROVE P = 2 * size
  <2>1. w <= 2 * size /\ \E i \in 0 .. w : w = 2^i BY <1>1, <1>11 DEF WantedSize
  <2>2. PICK i \in 0 .. w : w = 2^i BY <2>1
  <2>3. P <= w BY <1>1, <1>2, <2>2
  <2>4. P = w BY <1>1, <1>2, <2>3
  <2> DEFINE d == a - b
             h == d - 1
  <2>5. d \in Nat /\ h \in Nat /\ d = h + 1 BY <1>6, <1>8
  <2> HIDE DEF d, h
  <2>6. 2^d = 2 * 2^h /\ 2^h \in Nat /\ h < 2^h BY <2>5, PowerStep, PowerIs
  <2>7. P = size * 2^d BY <1>8 DEF d
  <2> DEFINE e == 2^h
             f == 2^d
  <2> HIDE DEF e, f, P, size
  <2>8. e \in Nat /\ e > 0 /\ f = 2 * e /\ P = size * f BY <2>5, <2>6, <2>7 DEF e, f
  <2>9. size * f = 2 * (size * e) /\ size * e >= size BY <1>5, <2>8
  <2> QED BY <1>1, <1>5, <2>1, <2>4, <2>8, <2>9
<1>12. ASSUME Op(t) = "resize"
       PROVE  LET n == call[t].n
              IN  size < n /\ P \in {m \in {size * 2^i : i \in 0 .. n} : n <= m /\ m < 2 * n}
  <2>1. call[t].n = w BY <1>1, <1>12 DEF WantedSize
  <2> DEFINE h == a - 1
             e == 2^h
  <2>2. h \in Nat /\ a = h + 1 /\ h \in 0 .. w BY <1>1, <1>3, <1>6, <1>8
  <2> HIDE DEF h
  <2>3. P = 2 * e /\ e \in Nat BY <1>3, <2>2, PowerStep, PowerIs
  <2>4. e >= w => P <= e BY <1>2, <2>2
  <2>5. P > 0 BY <1>2, <1>5
  <2> HIDE DEF P, e
  <2>6. e < w BY <1>1, <2>3, <2>4, <2>5
  <2>7. w <= P /\ P < 2 * w BY <1>1, <1>2, <2>3, <2>6
  <2>8. size < w
    <3>1. 2^b <= 2^h
      <4>1. CASE b = h BY <1>6, <4>1, PowerIs
      <4>2. CASE b < h
        <5> SUFFICES ASSUME ~(2^b <= 2^h) PROVE FALSE OBVIOUS
        <5>1. 2^b \in Nat /\ 2^h \in Nat BY <1>6, <2>2, PowerIs
        <5>2. 2^h < 2^b BY <5>1
        <5> QED BY <5>2, <4>2, <1>6, <2>2, PowerDivides
      <4> QED BY <4>1, <4>2, <1>6, <1>8, <2>2
    <3>2. size <= e BY <3>1, <1>4 DEF e
    <3> QED BY <3>2, <2>3, <2>6, <1>1, <1>5
  <2> DEFINE d == a - b
  <2>9. d \in 0 .. w BY <1>1, <1>3, <1>6, <1>8
  <2>10. P = size * 2^d BY <1>8
  <2> HIDE DEF d, size
  <2> QED BY <2>1, <2>7, <2>8, <2>9, <2>10
<1> QED BY <1>2, <1>5, <1>10, <1>11, <1>12

-----------------------------------------------------------------------------
(* A bucket that is as committed: the history has its entries and no more. *)
CommittedIn(b) ==
    /\ \A o \in Settled : o[1] = b =>
          store[KeyAt(o)] = EntryAt(o) /\ EntryAt(o) # NoEntry /\ EntryAt(o).epoch \in Nat /\ EntryAt(o).ttl \in Nat
    /\ \A j \in Keys : Bucket(j) = b /\ store[j] # NoEntry => \E o \in Settled : KeyAt(o) = j /\ o[1] = b

(* A bucket that is not torn is.                                           *)
LEMMA Committed ==
    ASSUME ControlInv, TableInv, StoreRight, NEW b \in BucketIds, ~Torn(b)
    PROVE  CommittedIn(b)
<1>1. EntriesFound /\ \A r : <<b, r>> \notin GivenUp BY EntryIs, TornIs DEF TornHeld
<1>2. ASSUME NEW o \in Settled, o[1] = b
      PROVE  store[KeyAt(o)] = EntryAt(o) /\ EntryAt(o) # NoEntry /\ EntryAt(o).epoch \in Nat /\ EntryAt(o).ttl \in Nat
  <2>1. KeyAt(o) \in Keys /\ ValueAt(o) \in Values BY SettledIn
  <2>2. Bucket(KeyAt(o)) = b BY <1>2 DEF TableInv, Filed
  <2>3. EntryIn(Bucket(KeyAt(o)), KeyAt(o)) = EntryAt(o) BY <1>1, <2>1, <2>2 DEF EntriesFound
  <2>4. store[KeyAt(o)] = EntryAt(o) BY <2>1, <2>2, <2>3 DEF StoreRight
  <2>5. o[1] \in BucketIds /\ o[2] \in SlotIds BY PlacesIn DEF Settled
  <2>6. epochs[o[1]][o[2]] \in [epoch : Nat, ttl : Nat] BY <2>5 DEF ControlInv, Control
  <2>7. EntryAt(o) \in [val : Values, epoch : Nat, ttl : Nat] BY <2>1, <2>6 DEF EntryAt
  <2> QED BY <2>4, <2>7, SharedAssumption
<1>3. ASSUME NEW j \in Keys, Bucket(j) = b, store[j] # NoEntry
      PROVE  \E o \in Settled : KeyAt(o) = j /\ o[1] = b
  <2>1. EntryIn(Bucket(j), j) = store[j] BY <1>3 DEF StoreRight
  <2>2. PICK o \in Settled : KeyAt(o) = j BY <1>1, <1>3, <2>1 DEF EntriesFound
  <2>3. o[1] = b BY <2>2, <1>3 DEF TableInv, Filed
  <2> QED BY <2>2, <2>3
<1> QED BY <1>2, <1>3 DEF CommittedIn

(* The contract speaks of the same history.                                *)
LEMMA RivalsIs ==
    ASSUME NEW k \in Keys
    PROVE  /\ Cache!Rivals(k) = {j \in Keys \ {k} : store[j] # NoEntry /\ Bucket(j) = Bucket(k)}
           /\ Cache!Victims(k) = IF store[k] # NoEntry \/ Cardinality(Cache!Rivals(k)) < SlotsPerBucket
                                 THEN {{}} ELSE {{j} : j \in Cache!Rivals(k)}
<1>1. Cache!Rivals(k) = {j \in Keys \ {k} : store[j] # NoEntry /\ Bucket(j) = Bucket(k)}
  BY DEF Cache!Rivals, Cache!Present, Bucket, Index
<1> DEFINE R == Cache!Rivals(k)
<1>2. Cache!Cardinality(R) = Cardinality(R) BY DEF Cache!Cardinality, Cardinality
<1>3. Cache!Victims(k) = IF store[k] # NoEntry \/ Cardinality(R) < SlotsPerBucket
                         THEN {{}} ELSE {{j} : j \in R}
  BY <1>2 DEF Cache!Victims, Cache!Present
<1> QED BY <1>1, <1>3

(* The rivals of a new key are the keys in the slots of its bucket, one    *)
(* for each occupied slot.                                                 *)
LEMMA RivalsAre ==
    ASSUME ControlInv, TableInv, NEW k \in Keys, NEW b, b = Bucket(k), ~Torn(b), CommittedIn(b),
           \A o \in Settled : KeyAt(o) # k
    PROVE  LET F == FullSlots(meta[b])
           IN  /\ Cache!Rivals(k) = {KeyAt(<<b, s>>) : s \in F}
               /\ Cardinality(Cache!Rivals(k)) = Cardinality(F)
<1> DEFINE F == FullSlots(meta[b])
           f == [s \in F |-> KeyAt(<<b, s>>)]
           R == {KeyAt(<<b, s>>) : s \in F}
<1>1. b \in BucketIds /\ F \subseteq SlotIds BY PlacesIn DEF FullSlots
<1>2. \A s : <<b, s>> \in Settled <=> s \in F
  <2>1. \A s : <<b, s>> \notin GivenUp BY <1>1, TornIs DEF TornHeld
  <2>2. \A s : <<b, s>> \in Occupied <=> s \in F BY <1>1, PlacesIn
  <2> QED BY <2>1, <2>2 DEF Settled
<1> HIDE DEF F
<1>3. \A s \in F : /\ KeyAt(<<b, s>>) \in Keys \ {k} /\ Bucket(KeyAt(<<b, s>>)) = b
                   /\ store[KeyAt(<<b, s>>)] # NoEntry
  <2> TAKE s \in F
  <2>1. PICK o : o = <<b, s>> OBVIOUS
  <2>2. o \in Settled /\ o[1] = b BY <2>1, <1>2
  <2>3. KeyAt(o) \in Keys /\ KeyAt(o) # k /\ Bucket(KeyAt(o)) = b /\ store[KeyAt(o)] # NoEntry
    BY <2>2, SettledIn DEF TableInv, Filed, CommittedIn
  <2> QED BY <2>1, <2>3
<1>4. Cache!Rivals(k) = R
  <2>1. ASSUME NEW j \in Keys \ {k}, store[j] # NoEntry, Bucket(j) = b PROVE j \in R
    <3>1. PICK o \in Settled : KeyAt(o) = j /\ o[1] = b BY <2>1 DEF CommittedIn
    <3>2. o = <<b, o[2]>> BY <3>1, PlacesIn DEF Settled
    <3>3. o[2] \in F BY <3>1, <3>2, <1>2
    <3> QED BY <3>1, <3>2, <3>3
  <2>2. Cache!Rivals(k) = {j \in Keys \ {k} : store[j] # NoEntry /\ Bucket(j) = b} BY RivalsIs
  <2>3. ASSUME NEW j \in R PROVE j \in Keys \ {k} /\ store[j] # NoEntry /\ Bucket(j) = b
    <3>1. PICK s \in F : j = KeyAt(<<b, s>>) OBVIOUS
    <3> QED BY <1>3, <3>1
  <2> HIDE DEF R
  <2> QED BY <2>1, <2>2, <2>3
<1>5. f \in Bijection(F, R)
  <2>1. \A s, r \in F : f[s] = f[r] => s = r
    <3> TAKE s, r \in F
    <3> HAVE f[s] = f[r]
    <3>1. KeyAt(<<b, s>>) = KeyAt(<<b, r>>) OBVIOUS
    <3>2. <<b, s>> = <<b, r>> BY <3>1, <1>2 DEF TableInv, KeysApart
    <3> QED BY <3>2
  <2>2. f \in [F -> R] /\ \A t \in R : \E s \in F : f[s] = t OBVIOUS
  <2> QED BY <2>1, <2>2, Fun_IsBij
<1>6. IsFiniteSet(F) BY <1>1, SlotIdsNat, FS_Subset
<1>7. Cardinality(R) = Cardinality(F)
  <2> HIDE DEF R, f
  <2> QED BY <1>5, <1>6, FS_Bijection DEF ExistsBijection
<1> QED BY <1>4, <1>7 DEF F

-----------------------------------------------------------------------------
(* While an insertion is in the middle of a bucket, the steps of the       *)
(* others leave its bucket and its history alone.                          *)
LEMMA OthersStore ==
    ASSUME ControlInv, TableInv, ControlInv', NEW t \in Threads, Step(t), ~Grow(t),
           NEW u \in Threads \ {t}, pc[u] \in Holding, NEW b, b = Home(u)
    PROVE  /\ Untouched(b) /\ Place(u)' = Place(u) /\ Home(u)' = b
           /\ \A j \in Keys : Bucket(j) = b => store'[j] = store[j]
<1>1. Home(u)' = Home(u) /\ Others(t) BY StepFrame, StepOthers
<1>2. b \in BucketIds BY CallIs DEF Holding
<1>3. InsertMatch(t) \/ Write(t) \/ Commits(t) => b # Home(t)
  <2>1. InsertMatch(t) \/ Write(t) \/ Commits(t) => pc[t] \in Holding
    BY DEF InsertMatch, Write, Commits, Stamp, RemoveFound, Holding, Inside
  <2> QED BY <2>1, OneHolder
<1>4. Untouched(b) BY <1>2, <1>3, StepElsewhere
<1>5. \A j \in Keys : Bucket(j) = b => store'[j] = store[j]
  <2>1. CASE ~Commits(t) BY <2>1, StepEffects
  <2>2. CASE Commits(t)
    <3>1. Commit(t) BY <2>2 DEF Commits, Stamp, RemoveFound
    <3> QED BY <2>2, <3>1, <1>3 DEF Commit
  <2> QED BY <2>1, <2>2
<1> QED BY <1>1, <1>4, <1>5 DEF Place, Others

(* Who may be forgotten depends on the history of the bucket alone.        *)
LEMMA VictimsSame ==
    ASSUME NEW k \in Keys, num_buckets' = num_buckets,
           \A j \in Keys : Bucket(j) = Bucket(k) => store'[j] = store[j]
    PROVE  Cache!Victims(k)' = Cache!Victims(k)
<1>1. \A j : Bucket(j)' = Bucket(j) BY DEF Bucket
<1>2. Cache!Rivals(k)' = Cache!Rivals(k)
  <2>1. Cache!Rivals(k) = {j \in Keys \ {k} : store[j] # NoEntry /\ Bucket(j) = Bucket(k)}
    BY DEF Cache!Rivals, Cache!Present, Bucket, Index
  <2>2. Cache!Rivals(k)' = {j \in Keys \ {k} : store'[j] # NoEntry /\ Bucket(j) = Bucket(k)}
    BY <1>1 DEF Cache!Rivals, Cache!Present, Bucket, Index
  <2> QED BY <2>1, <2>2
<1>3. store'[k] = store[k] OBVIOUS
<1> QED BY <1>2, <1>3 DEF Cache!Victims, Cache!Present

(* The victims of the call that a thread is in.                            *)
LEMMA VictimsOf ==
    ASSUME NEW u, NEW k, call'[u].key = k
    PROVE  Cache!Victims(call[u].key)' = Cache!Victims(k)'
BY DEF Cache!Victims, Cache!Rivals, Cache!Present

(* An insertion in the middle stays as it is while its bucket does.        *)
Undisturbed(u, b) ==
    /\ num_buckets' = num_buckets /\ call'[u] = call[u] /\ pc'[u] = pc[u]
    /\ Place(u)' = Place(u) /\ Home(u)' = b
    /\ \A o : o[1] = b => (o \in Settled' <=> o \in Settled)
    /\ \A o \in Settled : o[1] = b => KeyAt(o)' = KeyAt(o) /\ EntryAt(o)' = EntryAt(o)
    /\ \A j \in Keys : Bucket(j) = b => store'[j] = store[j]

(* What it relies on is about its own bucket only.                         *)
LEMMA PendingKept ==
    ASSUME ControlInv, TableInv, TableInv', NEW u \in Threads, Pending(u), NEW b, b = Home(u),
           pc[u] \in {"write", "stamp"} => Undisturbed(u, b), pc'[u] = pc[u]
    PROVE  Pending(u)'
<1> SUFFICES ASSUME pc[u] \in {"write", "stamp"}
             PROVE  /\ \A o \in Settled' : o[1] = Home(u)' /\ o # Place(u)' => store'[KeyAt(o)'] = EntryAt(o)'
                    /\ \E lost \in Cache!Victims(call[u].key)' : Spares(u, lost)'
  BY DEF Pending
<1>1. num_buckets' = num_buckets /\ call'[u] = call[u] BY DEF Undisturbed
<1>2. PICK k, x : k = call[u].key /\ x = Place(u) OBVIOUS
<1>3. k \in Keys BY <1>2, CallIs DEF Inside
<1>4. /\ Place(u)' = x /\ Home(u)' = b
      /\ \A j \in Keys : Bucket(j) = b => store'[j] = store[j]
  BY <1>2 DEF Undisturbed
<1>5. Bucket(k) = b BY <1>2 DEF Home
<1>6. Cache!Victims(k)' = Cache!Victims(k) BY <1>1, <1>3, <1>4, <1>5, VictimsSame
<1>7. /\ \A o : o[1] = b => (o \in Settled' <=> o \in Settled)
      /\ \A o \in Settled : o[1] = b => KeyAt(o)' = KeyAt(o) /\ EntryAt(o)' = EntryAt(o)
  BY DEF Undisturbed
<1>8. ASSUME NEW o \in Settled', o[1] = b, o # x PROVE store'[KeyAt(o)'] = EntryAt(o)'
  <2>1. o \in Settled /\ KeyAt(o)' = KeyAt(o) /\ EntryAt(o)' = EntryAt(o) BY <1>7, <1>8
  <2>2. KeyAt(o) \in Keys /\ Bucket(KeyAt(o)) = b BY <2>1, <1>8, SettledIn DEF TableInv, Filed
  <2>3. store[KeyAt(o)] = EntryAt(o) BY <1>2, <1>8, <2>1 DEF Pending
  <2> QED BY <1>4, <2>1, <2>2, <2>3
<1>9. PICK lost \in Cache!Victims(k) : Spares(u, lost) BY <1>2 DEF Pending
<1>10. \A j \in Keys : Bucket(j)' = Bucket(j) BY <1>1 DEF Bucket
<1>11. ASSUME NEW j \in Keys \ {k}, Bucket(j) = b
       PROVE  /\ j \in lost => \A o \in Settled' : KeyAt(o)' # j
              /\ j \notin lost /\ store'[j] # NoEntry => \E o \in Settled' : KeyAt(o)' = j
  <2>1. /\ j \in lost => \A o \in Settled : KeyAt(o) # j
        /\ j \notin lost /\ store[j] # NoEntry => \E o \in Settled : KeyAt(o) = j
    BY <1>2, <1>9, <1>11 DEF Spares
  <2>2. ASSUME NEW o \in Settled', KeyAt(o)' = j PROVE o \in Settled /\ KeyAt(o) = j
    <3>1. Bucket(KeyAt(o))' = o[1] BY DEF TableInv, Filed
    <3>2. o[1] = b BY <3>1, <2>2, <1>1, <1>11 DEF Bucket
    <3> QED BY <3>2, <2>2, <1>7
  <2>3. ASSUME NEW o \in Settled, KeyAt(o) = j PROVE o \in Settled' /\ KeyAt(o)' = j
    <3>1. o[1] = b BY <2>3, <1>11 DEF TableInv, Filed
    <3> QED BY <3>1, <2>3, <1>7
  <2>4. store'[j] = store[j] BY <1>4, <1>11
  <2> QED BY <2>1, <2>2, <2>3, <2>4
<1>12. Spares(u, lost)' BY <1>1, <1>2, <1>4, <1>10, <1>11 DEF Spares
<1>13. Cache!Victims(call[u].key)' = Cache!Victims(k) BY <1>1, <1>2, <1>6, VictimsOf
<1> QED BY <1>4, <1>8, <1>9, <1>12, <1>13

(* The steps of the others do not disturb it.                              *)
LEMMA PendingOther ==
    ASSUME ControlInv, TableInv, ControlInv', NEW t \in Threads, Step(t), ~Grow(t),
           NEW u \in Threads \ {t}, Pending(u)
    PROVE  Pending(u)'
<1>1. num_buckets' = num_buckets /\ call' = call /\ pc'[u] = pc[u]
  BY StepFrame, StepOthers DEF Others
<1>2. PICK b : b = Home(u) OBVIOUS
<1>3. ASSUME pc[u] \in {"write", "stamp"} PROVE Undisturbed(u, b)
  <2>1. pc[u] \in Holding BY <1>3 DEF Holding, Inside
  <2>2. /\ Untouched(b) /\ Place(u)' = Place(u) /\ Home(u)' = b
        /\ \A j \in Keys : Bucket(j) = b => store'[j] = store[j]
    BY <1>2, <2>1, OthersStore
  <2>3. \A o \in Settled : o[1] = b => KeyAt(o)' = KeyAt(o) /\ EntryAt(o)' = EntryAt(o)
    BY <2>2 DEF Untouched, EntryAt
  <2> QED BY <1>1, <2>2, <2>3 DEF Undisturbed, Untouched
<1>4. TableInv' BY NextTable DEF Next
<1> QED BY <1>1, <1>2, <1>3, <1>4, PendingKept

(* A thread that holds a bucket and does not write to it finds it as       *)
(* committed.                                                              *)
LEMMA HeldCommitted ==
    ASSUME ControlInv, TableInv, StoreRight, NEW t \in Threads, pc[t] \in Holding \ {"write", "stamp"}
    PROVE  ~Torn(Home(t)) /\ CommittedIn(Home(t))
<1>1. Home(t) \in BucketIds BY CallIs DEF Holding
<1>2. ~Torn(Home(t))
  <2> SUFFICES ASSUME Torn(Home(t)) PROVE FALSE OBVIOUS
  <2>1. PICK u \in Threads : pc[u] \in {"write", "stamp"} /\ Home(u) = Home(t)
    BY <1>1, TornIs DEF TornHeld
  <2>2. pc[u] \in Holding BY <2>1 DEF Holding, Inside
  <2> QED BY <2>1, <2>2, OneHolder
<1> QED BY <1>1, <1>2, Committed

(* The choice of a slot costs the key in it, if any, and the contract      *)
(* agrees.                                                                 *)
LEMMA TargetForgets ==
    ASSUME ControlInv, TableInv, StoreRight, NEW t \in Threads, pc[t] = "match", NEW s \in Target(t)[2],
           NEW k \in Keys, k = call[t].key
    PROVE  LET x == <<Home(t), s>>
           IN  (IF Target(t)[1] = "evict" THEN {KeyAt(x)} ELSE {}) \in Cache!Victims(k)
<1> DEFINE b == Home(t)
           x == <<b, s>>
           h == Target(t)[1]
           F == FullSlots(meta[b])
           R == Cache!Rivals(k)
<1>1. /\ s \in SlotIds /\ h \in {"update", "fresh", "evict"}
      /\ h = "fresh" <=> x \notin Occupied
      /\ h = "update" => KeyAt(x) = k
      /\ h # "update" => \A o \in Settled : KeyAt(o) # k
      /\ h = "evict" => FindFreeSlot(meta[b]) = {}
      /\ x \notin GivenUp
  BY TargetIs
<1>2. ~Torn(b) /\ CommittedIn(b) /\ b \in BucketIds /\ Bucket(k) = b
  <2>1. pc[t] \in Holding \ {"write", "stamp"} BY DEF Holding, Inside
  <2> QED BY <2>1, HeldCommitted, CallIs DEF Holding, Home
<1>3. F \subseteq SlotIds /\ (x \in Occupied <=> s \in F) BY <1>2, PlacesIn DEF FullSlots
<1>4. Cache!Victims(k) = IF store[k] # NoEntry \/ Cardinality(R) < SlotsPerBucket
                         THEN {{}} ELSE {{j} : j \in R}
  BY RivalsIs
<1>5. h # "update" => R = {KeyAt(<<b, r>>) : r \in F} /\ Cardinality(R) = Cardinality(F)
  BY <1>1, <1>2, RivalsAre
<1>6. CASE h = "update"
  <2>1. x \in Settled BY <1>1, <1>6 DEF Settled
  <2>2. store[KeyAt(x)] # NoEntry BY <1>2, <2>1 DEF CommittedIn
  <2> HIDE DEF h, x, R
  <2> QED BY <1>1, <1>4, <1>6, <2>2 DEF h
<1>7. CASE h = "fresh"
  <2>1. F \subseteq SlotIds \ {s} BY <1>1, <1>3, <1>7
  <2>2. IsFiniteSet(SlotIds \ {s}) /\ Cardinality(SlotIds \ {s}) = SlotsPerBucket - 1
    BY <1>1, SlotIdsNat, FS_RemoveElement
  <2> HIDE DEF F, R, h
  <2>3. IsFiniteSet(F) /\ Cardinality(F) <= Cardinality(SlotIds \ {s}) BY <2>1, <2>2, FS_Subset
  <2>4. Cardinality(F) \in Nat BY <2>3, FS_CardinalityType
  <2>5. Cardinality(R) < SlotsPerBucket BY <1>5, <1>7, <2>2, <2>3, <2>4, MetaAssumption
  <2> QED BY <1>4, <1>7, <2>5 DEF h
<1>8. CASE h = "evict"
  <2>1. F = SlotIds
    <3> DEFINE S == SlotIds \ F
    <3>1. S \in SUBSET Nat BY SlotIdsNat
    <3>2. First(S) = {} BY <1>1, <1>8 DEF FindFreeSlot
    <3> HIDE DEF S
    <3>3. S = {} BY <3>1, <3>2, FirstExists
    <3> HIDE DEF F
    <3> QED BY <1>3, <3>3 DEF S
  <2>2. Cardinality(R) = SlotsPerBucket BY <1>5, <1>8, <2>1, SlotIdsNat
  <2>3. KeyAt(x) \in R BY <1>1, <1>5, <1>8, <2>1
  <2>4. store[k] = NoEntry BY <1>1, <1>2, <1>8 DEF CommittedIn
  <2> HIDE DEF F, R, h, x
  <2> QED BY <1>4, <1>8, <2>2, <2>3, <2>4, MetaAssumption DEF h, x
<1> QED BY <1>1, <1>6, <1>7, <1>8

(* An insertion that has chosen its slot.                                  *)
LEMMA MatchPending ==
    ASSUME ControlInv, TableInv, StoreRight, NEW t \in Threads, InsertMatch(t)
    PROVE  Pending(t)'
<1>1. PICK s : s = slot'[t] OBVIOUS
<1>2. PICK b, k, x, h : b = Home(t) /\ k = call[t].key /\ x = <<b, s>> /\ h = Target(t)[1] OBVIOUS
<1>3. /\ Occupied' = Occupied /\ s \in Target(t)[2] /\ pc'[t] = "write" /\ how'[t] = h
      /\ how'[t] = "fresh" => Settled' = Settled /\ Place(t)' \notin Occupied
      /\ how'[t] # "fresh" => Settled' = Settled \ {Place(t)'} /\ Place(t)' \in Settled
      /\ \A o \in Settled' : KeyAt(o)' = KeyAt(o) /\ ValueAt(o)' = ValueAt(o)
  BY <1>1, <1>2, MatchTable
<1>4. UNCHANGED <<num_buckets, call, store, epochs>> /\ pc[t] = "match"
  BY DEF InsertMatch, frame
<1>5. Home(t)' = b /\ Place(t)' = x /\ Bucket(k) = b /\ \A j : Bucket(j)' = Bucket(j)
  BY <1>1, <1>2, <1>4 DEF Home, Bucket, Place
<1>6. pc[t] \in Holding \ {"write", "stamp"} BY <1>4 DEF Holding, Inside
<1>7. CommittedIn(b) /\ k \in Keys BY <1>2, <1>6, HeldCommitted, CallIs DEF Holding
<1>0. PICK lost : lost = IF h = "evict" THEN {KeyAt(x)} ELSE {} OBVIOUS
<1>8. lost \in Cache!Victims(k) BY <1>0, <1>2, <1>3, <1>4, <1>7, TargetForgets
<1>9. Cache!Victims(call[t].key)' = Cache!Victims(k)
  <2>1. Cache!Victims(k)' = Cache!Victims(k) BY <1>4, <1>7, VictimsSame
  <2> QED BY <1>2, <1>4, <2>1, VictimsOf
<1>10. /\ h = "update" => KeyAt(x) = k
       /\ h \in {"update", "fresh", "evict"}
  BY <1>2, <1>3, <1>4, TargetIs
<1>11. ASSUME NEW o \in Settled', o[1] = b PROVE store'[KeyAt(o)'] = EntryAt(o)'
  <2>1. o \in Settled /\ KeyAt(o)' = KeyAt(o) /\ ValueAt(o)' = ValueAt(o) BY <1>3
  <2>2. EntryAt(o)' = EntryAt(o) BY <1>4, <2>1 DEF EntryAt
  <2> QED BY <1>4, <1>7, <1>11, <2>1, <2>2 DEF CommittedIn
<1>12. ASSUME NEW j \in Keys \ {k}, Bucket(j) = b
       PROVE  /\ j \in lost => \A o \in Settled' : KeyAt(o)' # j
              /\ j \notin lost /\ store'[j] # NoEntry => \E o \in Settled' : KeyAt(o)' = j
  <2>1. ASSUME j \in lost, NEW o \in Settled' PROVE KeyAt(o)' # j
    <3>1. h = "evict" /\ j = KeyAt(x) BY <1>0, <2>1
    <3>2. x \in Settled /\ o \in Settled /\ o # x /\ KeyAt(o)' = KeyAt(o) BY <1>3, <1>5, <3>1
    <3> QED BY <3>1, <3>2 DEF TableInv, KeysApart
  <2>2. ASSUME j \notin lost, store[j] # NoEntry PROVE \E o \in Settled' : KeyAt(o)' = j
    <3>1. PICK o \in Settled : KeyAt(o) = j BY <1>7, <1>12, <2>2 DEF CommittedIn
    <3>2. h # "fresh" => o # x BY <1>0, <1>10, <2>2, <3>1
    <3>3. o \in Settled' BY <1>3, <1>5, <3>2
    <3> QED BY <1>3, <3>1, <3>3
  <2> QED BY <1>4, <2>1, <2>2
<1>13. Spares(t, lost)' BY <1>2, <1>4, <1>5, <1>12 DEF Spares
<1> QED BY <1>5, <1>8, <1>9, <1>11, <1>13 DEF Pending

(* An insertion that has written its pair.                                 *)
LEMMA WritePending ==
    ASSUME ControlInv, TableInv, NEW t \in Threads, Write(t), Pending(t)
    PROVE  Pending(t)'
<1>1. PICK b, k, x : b = Home(t) /\ k = call[t].key /\ x = Place(t) OBVIOUS
<1>2. /\ pc[t] = "write" /\ pc'[t] = "stamp" /\ x \notin Settled /\ Settled' = Settled \cup {x}
      /\ \A o \in Settled : KeyAt(o)' = KeyAt(o) /\ ValueAt(o)' = ValueAt(o)
      /\ KeyAt(x)' = k
  <2>1. /\ pc[t] = "write" /\ pc'[t] = "stamp" /\ Place(t) \notin Settled
        /\ Settled' = Settled \cup {Place(t)}
        /\ \A o \in Settled : KeyAt(o)' = KeyAt(o) /\ ValueAt(o)' = ValueAt(o)
        /\ KeyAt(Place(t))' = call[t].key
    BY WriteTable
  <2>2. Place(t)' = x BY <1>1 DEF Write, frame, registers, Place, Home, Bucket
  <2>3. KeyAt(Place(t))' = KeyAt(x)' BY <2>2 DEF KeyAt
  <2> QED BY <1>1, <2>1, <2>3
<1>3. UNCHANGED <<num_buckets, call, store, epochs, slot>> BY DEF Write, frame, registers
<1>4. Home(t)' = b /\ Place(t)' = x /\ Bucket(k) = b /\ \A j : Bucket(j)' = Bucket(j)
  BY <1>1, <1>3 DEF Home, Bucket, Place
<1>5. k \in Keys BY <1>1, <1>2, CallIs DEF Inside
<1>6. PICK lost \in Cache!Victims(k) : Spares(t, lost) BY <1>1, <1>2 DEF Pending
<1>7. Cache!Victims(call[t].key)' = Cache!Victims(k)
  <2>1. Cache!Victims(k)' = Cache!Victims(k) BY <1>3, <1>5, VictimsSame
  <2> QED BY <1>1, <1>3, <2>1, VictimsOf
<1>8. ASSUME NEW o \in Settled', o[1] = b, o # x PROVE store'[KeyAt(o)'] = EntryAt(o)'
  <2>1. o \in Settled /\ KeyAt(o)' = KeyAt(o) /\ ValueAt(o)' = ValueAt(o) BY <1>2, <1>8
  <2>2. EntryAt(o)' = EntryAt(o) BY <1>3, <2>1 DEF EntryAt
  <2> QED BY <1>1, <1>2, <1>3, <1>8, <2>1, <2>2 DEF Pending
<1>9. ASSUME NEW j \in Keys \ {k}, Bucket(j) = b
      PROVE  /\ j \in lost => \A o \in Settled' : KeyAt(o)' # j
             /\ j \notin lost /\ store'[j] # NoEntry => \E o \in Settled' : KeyAt(o)' = j
  <2>1. /\ j \in lost => \A o \in Settled : KeyAt(o) # j
        /\ j \notin lost /\ store[j] # NoEntry => \E o \in Settled : KeyAt(o) = j
    BY <1>1, <1>6, <1>9 DEF Spares
  <2> QED BY <1>2, <1>3, <1>9, <2>1
<1>10. Spares(t, lost)' BY <1>1, <1>3, <1>4, <1>9 DEF Spares
<1> QED BY <1>4, <1>6, <1>7, <1>8, <1>10 DEF Pending

-----------------------------------------------------------------------------
(* The arithmetic of a tick.                                               *)
LEMMA TickBalance ==
    ASSUME NEW e \in Nat, NEW f \in Nat, NEW m \in Nat, NEW n \in Nat, NEW u \in Nat, NEW v \in Nat,
           NEW a \in Nat, NEW b \in Nat, v + a = u + b, e + u <= m, f + b + m <= e + a + n
    PROVE  f + v <= n
OBVIOUS

(* The invariant CallInv, part by part.  Ticks: only the thread that takes *)
(* the step comes to owe one or pays it.                                   *)
LEMMA TicksStep ==
    ASSUME ControlInv, TicksCounted, NEW t \in Threads, Others(t), current_epoch' \in Nat, made' \in Nat,
           current_epoch' + Owes(t)' + made <= current_epoch + Owes(t) + made'
    PROVE  TicksCounted'
<1> DEFINE U == Unticked
           V == Unticked'
<1>1. IsFiniteSet(U)
  <2>1. U \in SUBSET Threads BY DEF Unticked
  <2> QED BY <2>1, SharedAssumption, FS_Subset
<1>2. \A y : y # t => (y \in U <=> y \in V) BY DEF Others, Unticked, Op
<1>3. (IF t \in U THEN 1 ELSE 0) = Owes(t) /\ (IF t \in V THEN 1 ELSE 0) = Owes(t)' BY DEF Unticked, Owes, Op
<1>4. Owes(t) \in Nat /\ Owes(t)' \in Nat BY DEF Owes
<1>5. current_epoch \in Nat /\ made \in Nat BY DEF ControlInv, Control
<1> HIDE DEF U, V
<1> DEFINE u == Cardinality(U)
           v == Cardinality(V)
           a == Owes(t)
           b == Owes(t)'
<1>6. u \in Nat /\ v \in Nat /\ v + a = u + b BY <1>1, <1>2, <1>3, OneMore
<1>7. current_epoch + u <= made BY DEF TicksCounted, U
<1> HIDE DEF u, v, a, b
<1>8. a \in Nat /\ b \in Nat /\ current_epoch' + b + made <= current_epoch + a + made' BY <1>4 DEF a, b
<1>9. current_epoch' + v <= made' BY <1>5, <1>6, <1>7, <1>8, TickBalance
<1> QED BY <1>9 DEF TicksCounted, v, V

(* Stamps.                                                                 *)
LEMMA StampsStep ==
    ASSUME ControlInv, StampsPast, NEW t \in Threads, Step(t), ~Grow(t), current_epoch' \in Nat,
           current_epoch' >= current_epoch
    PROVE  StampsPast'
<1>1. BucketIds' = BucketIds BY StepFrame
<1>2. epochs \in [BucketIds -> [SlotIds -> [epoch : Nat, ttl : Nat]]] /\ current_epoch \in Nat
  BY DEF ControlInv, Control
<1>3. CASE ~Stamp(t)
  <2>1. epochs' = epochs BY <1>3, StepEffects
  <2>2. ASSUME NEW b \in BucketIds, NEW s \in SlotIds PROVE epochs[b][s].epoch <= current_epoch'
    <3>1. epochs[b][s].epoch <= current_epoch BY DEF StampsPast
    <3>2. epochs[b][s].epoch \in Nat BY <1>2
    <3> QED BY <1>2, <3>1, <3>2
  <2> QED BY <1>1, <2>1, <2>2 DEF StampsPast
<1>4. CASE Stamp(t)
  <2>0. PICK b, s, e : b = Home(t) /\ s = slot[t] /\ e = [epoch |-> current_epoch, ttl |-> call[t].n]
    OBVIOUS
  <2>1. epochs' = [epochs EXCEPT ![b][s] = e] /\ e.epoch = current_epoch BY <1>4, <2>0 DEF Stamp
  <2>2. current_epoch' = current_epoch BY <1>4 DEF Stamp, counters
  <2>3. ASSUME NEW c \in BucketIds, NEW r \in SlotIds PROVE epochs'[c][r].epoch <= current_epoch
    <3>1. epochs'[c][r] = epochs[c][r] \/ epochs'[c][r] = e BY <1>2, <2>1
    <3>2. epochs[c][r].epoch <= current_epoch BY DEF StampsPast
    <3> QED BY <1>2, <2>1, <3>1, <3>2
  <2> QED BY <1>1, <2>2, <2>3 DEF StampsPast
<1> QED BY <1>3, <1>4

(* Every step of a call but a resize.                                      *)
LEMMA CallStep ==
    ASSUME ControlInv, TableInv, StoreRight, CallInv, ControlInv', NEW t \in Threads, Step(t), ~Grow(t)
    PROVE  CallInv'
<1>1. RegistersKept(t) /\ Others(t) /\ num_buckets' = num_buckets /\ call' = call
  BY StepRegisters, StepOthers, StepFrame DEF CallInv
<1>2. store' = [k \in Keys |-> store'[k]]
  <2>1. CASE ~Commits(t) BY <2>1, StepEffects DEF CallInv
  <2>2. CASE Commits(t)
    <3>1. Commit(t) BY <2>2 DEF Commits, Stamp, RemoveFound
    <3> DEFINE e(k) == IF Bucket(k) = Home(t) THEN EntryIn(Home(t), k)' ELSE store[k]
    <3>2. store' = [k \in Keys |-> e(k)] BY <3>1 DEF Commit
    <3> HIDE DEF e
    <3> QED BY <3>2
  <2> QED BY <2>1, <2>2
<1>3. current_epoch' \in Nat /\ current_epoch \in Nat /\ made \in Nat BY DEF ControlInv, Control
<1>4. TicksCounted'
  <2>1. Owes(t) \in Nat /\ Owes(t)' \in Nat BY DEF Owes
  <2>2. current_epoch' + Owes(t)' + made <= current_epoch + Owes(t) + made'
    BY <1>1, <1>3, <2>1 DEF RegistersKept
  <2> QED BY <1>1, <1>3, <2>2, TicksStep DEF CallInv, RegistersKept
<1>5. StampsPast' BY <1>1, <1>3, StampsStep DEF CallInv, RegistersKept
<1>6. ASSUME NEW u \in Threads PROVE WantedSize(u)'
  <2>1. CASE u # t BY <1>1, <2>1 DEF CallInv, WantedSize, RegistersKept, Others, Op
  <2>2. CASE u = t
    <3> SUFFICES ASSUME pc'[t] = "grow" PROVE WantedSize(t)' BY <2>2 DEF WantedSize
    <3>1. pc[t] = "check" /\ seen'[t] = 2 * num_buckets BY <1>1 DEF RegistersKept
    <3>2. Op(t) = "insert" BY <3>1 DEF ControlInv, CallsRight, OpsAt
    <3>3. PICK i \in 0 .. num_buckets : num_buckets = 2^i BY DEF ControlInv, Size
    <3>4. num_buckets \in Nat /\ num_buckets > 0 BY DEF ControlInv, Size
    <3> DEFINE j == i + 1
    <3>5. i \in Nat /\ j \in 0 .. (2 * num_buckets) BY <3>3, <3>4
    <3>6. 2^j = 2 * num_buckets BY <3>3, <3>5, PowerStep
    <3> HIDE DEF j
    <3>7. /\ seen'[t] <= 2 * num_buckets /\ \E r \in 0 .. seen'[t] : seen'[t] = 2^r
      BY <3>1, <3>4, <3>5, <3>6
    <3> QED BY <1>1, <3>2, <3>7 DEF WantedSize, Op
  <2> QED BY <2>1, <2>2
<1>7. ASSUME NEW u \in Threads PROVE Unanswered(u)'
  BY <1>1 DEF CallInv, Unanswered, RegistersKept, Others
<1>8. ASSUME NEW u \in Threads PROVE Pending(u)'
  <2>1. CASE u # t BY <2>1, PendingOther DEF CallInv
  <2>2. CASE InsertMatch(t) /\ u = t BY <2>2, MatchPending
  <2>3. CASE Write(t) /\ u = t BY <2>3, WritePending DEF CallInv
  <2>4. CASE ~InsertMatch(t) /\ ~Write(t) /\ u = t
    <3>1. Stamp(t) \/ RemoveFound(t) => pc'[t] \notin {"write", "stamp"}
      BY DEF Stamp, RemoveFound, Goto, ControlInv, Control
    <3>2. pc'[t] \notin {"write", "stamp"} BY <2>4, <3>1, StepEffects DEF Commits
    <3> QED BY <2>4, <3>2 DEF Pending
  <2> QED BY <2>1, <2>2, <2>3, <2>4
<1> QED BY <1>1, <1>2, <1>4, <1>5, <1>6, <1>7, <1>8 DEF CallInv, RegistersKept

(* A resize.                                                               *)
LEMMA CallGrow ==
    ASSUME ControlInv, TableInv, CallInv, ControlInv', NEW t \in Threads, Grow(t)
    PROVE  CallInv'
<1>1. /\ UNCHANGED <<call, made, current_epoch, res, store>> /\ pc[t] = "grow"
      /\ Goto(t, IF Op(t) = "insert" THEN "tick" ELSE "idle")
      /\ seen' = [seen EXCEPT ![t] = 0]
  BY DEF Grow, frame, AfterGrow
<1>2. Others(t) /\ pc'[t] = IF Op(t) = "insert" THEN "tick" ELSE "idle"
  BY <1>1, StepOthers DEF Step, Goto, ControlInv, Control
<1>3. current_epoch' \in Nat /\ current_epoch \in Nat /\ made \in Nat /\ seen \in [Threads -> Nat]
  BY DEF ControlInv, Control
<1>4. TicksCounted'
  <2>1. Owes(t) \in Nat /\ Owes(t)' <= Owes(t) /\ Owes(t)' \in Nat BY <1>1, <1>2 DEF Owes, Op
  <2>2. current_epoch' + Owes(t)' + made <= current_epoch + Owes(t) + made' BY <1>1, <1>3, <2>1
  <2> QED BY <1>1, <1>2, <1>3, <2>2, TicksStep DEF CallInv
<1>5. StampsPast'
  <2>1. PICK n : num_buckets' = n /\ epochs' = Rehashed(n).epochs BY DEF Grow
  <2> DEFINE c(b, s) == IF Moved(n, b, s) = {} THEN [epoch |-> 0, ttl |-> 0]
                        ELSE epochs[The(Moved(n, b, s))[1]][The(Moved(n, b, s))[2]]
             ids == 0 .. (n - 1)
  <2>2. epochs' = [b \in ids |-> [s \in SlotIds |-> c(b, s)]] BY <2>1, RehashedIs
  <2>3. ASSUME NEW b, NEW s PROVE c(b, s).epoch <= current_epoch
    <3>1. CASE Moved(n, b, s) = {} BY <1>3, <3>1
    <3>2. CASE Moved(n, b, s) # {}
      <4> DEFINE p == The(Moved(n, b, s))
      <4>1. p[1] \in BucketIds /\ p[2] \in SlotIds BY <3>2, TheMoved
      <4>2. epochs[p[1]][p[2]].epoch <= current_epoch BY <4>1 DEF CallInv, StampsPast
      <4>3. c(b, s) = epochs[p[1]][p[2]] BY <3>2
      <4> HIDE DEF c, p
      <4> QED BY <4>2, <4>3
    <3> QED BY <3>1, <3>2
  <2>4. BucketIds' = ids BY <2>1 DEF BucketIds
  <2> HIDE DEF c, ids
  <2>5. \A b \in ids : \A s \in SlotIds : epochs'[b][s] = c(b, s) BY <2>2
  <2> QED BY <1>1, <2>3, <2>4, <2>5 DEF StampsPast
<1>6. ASSUME NEW u \in Threads PROVE WantedSize(u)' /\ Unanswered(u)'
  <2>1. num_buckets \in Nat /\ num_buckets' \in Nat /\ num_buckets < num_buckets'
    BY GrowSize DEF CallInv, ControlInv, Size
  <2>2. u # t => pc'[u] = pc[u] /\ seen'[u] = seen[u] BY <1>1, <1>2, <1>3 DEF Others
  <2>3. WantedSize(u) /\ Unanswered(u) BY DEF CallInv
  <2>4. Unanswered(u)' BY <1>1, <1>2, <2>2, <2>3 DEF Unanswered
  <2>5. WantedSize(u)'
    <3>1. CASE u = t BY <1>2, <3>1 DEF WantedSize
    <3>2. CASE u # t
      <4>1. seen[u] \in Nat BY <1>3
      <4>2. seen[u] <= 2 * num_buckets => seen[u] <= 2 * num_buckets' BY <2>1, <4>1
      <4> QED BY <1>1, <2>2, <2>3, <3>2, <4>2 DEF WantedSize, Op
    <3> QED BY <3>1, <3>2
  <2> QED BY <2>4, <2>5
<1>7. ASSUME NEW u \in Threads PROVE Pending(u)'
  <2>1. readers' = {} BY DEF Grow
  <2>2. pc'[u] \notin Inside BY <2>1 DEF ControlInv, Locked
  <2> QED BY <2>2 DEF Pending, Inside
<1> QED BY <1>1, <1>4, <1>5, <1>6, <1>7 DEF CallInv

(* Nothing that an insertion in the middle relies on changes.              *)
LEMMA QuietPending ==
    ASSUME ControlInv, TableInv, TableInv', NEW u \in Threads, Pending(u),
           pc'[u] = pc[u], call'[u] = call[u], slot'[u] = slot[u], Settled' = Settled,
           UNCHANGED <<num_buckets, slots, slab_pool, epochs, store>>
    PROVE  Pending(u)'
<1>1. PICK b : b = Home(u) OBVIOUS
<1>2. Undisturbed(u, b) BY <1>1 DEF Undisturbed, Place, Home, Bucket, KeyAt, ValueAt, EntryAt
<1> QED BY <1>1, <1>2, PendingKept

(* A call begins.                                                          *)
LEMMA CallBegin ==
    ASSUME ControlInv, TableInv, CallInv, NEW t \in Threads, NEW c \in Calls, Begin(t, c)
    PROVE  CallInv'
<1>1. /\ pc[t] = "idle" /\ made' = made + 1 /\ call' = [call EXCEPT ![t] = c]
      /\ seen' = [seen EXCEPT ![t] = IF c.op = "resize" THEN c.n ELSE 0]
      /\ res' = [res EXCEPT ![t] = NoValue]
      /\ UNCHANGED <<num_buckets, meta, slots, slab_pool, epochs, current_epoch, store, slot, how>>
  BY DEF Begin, table, counters
<1>2. Others(t) /\ pc'[t] \in {"check", "tick", "set_ttl", "grow", "enter"}
  BY DEF ControlInv, Control, Begin, Goto, Others
<1>3. pc'[t] = "grow" => c.op = "resize"
  <2>1. c.op \in {"insert", "get", "peek", "remove", "set_ttl", "resize"} BY SharedAssumption
  <2> QED BY <2>1 DEF ControlInv, Control, Begin, Goto
<1>4. /\ call \in [Threads -> Calls \cup {NoCall}] /\ seen \in [Threads -> Nat]
      /\ made \in Nat /\ current_epoch \in Nat /\ res = [u \in Threads |-> res[u]]
  BY DEF ControlInv, Control, CallInv
<1>5. TicksCounted'
  <2>1. Owes(t) = 0 /\ Owes(t)' \in {0, 1} BY <1>1 DEF Owes
  <2>2. current_epoch' + Owes(t)' + made <= current_epoch + Owes(t) + made' BY <1>1, <1>4, <2>1
  <2> QED BY <1>1, <1>2, <1>4, <2>2, TicksStep DEF CallInv
<1>6. StampsPast' BY <1>1 DEF CallInv, StampsPast, BucketIds
<1>7. call'[t] = c /\ seen'[t] = IF c.op = "resize" THEN c.n ELSE 0 BY <1>1, <1>4
<1>8. ASSUME NEW u \in Threads PROVE WantedSize(u)' /\ Unanswered(u)'
  <2>1. CASE u = t
    <3>1. WantedSize(t)' BY <1>3, <1>7 DEF WantedSize, Op
    <3>2. Unanswered(t)' BY <1>1, <1>4 DEF Unanswered
    <3> QED BY <2>1, <3>1, <3>2
  <2>2. CASE u # t
    <3>1. seen'[u] = seen[u] /\ res'[u] = res[u] /\ pc'[u] = pc[u] /\ call'[u] = call[u]
      BY <1>1, <1>2, <1>4, <2>2 DEF Others
    <3> QED BY <1>1, <3>1 DEF CallInv, WantedSize, Unanswered, Op
  <2> QED BY <2>1, <2>2
<1>9. ASSUME NEW u \in Threads PROVE Pending(u)'
  <2>1. CASE u = t BY <1>2, <2>1 DEF Pending
  <2>2. CASE u # t
    <3>1. TableInv' /\ Settled' = Settled BY <1>1, <1>2, BeginTable, SameTable
    <3> QED BY <1>1, <1>2, <2>2, <3>1, QuietPending DEF CallInv, Others
  <2> QED BY <2>1, <2>2
<1>10. res' = [u \in Threads |-> res'[u]] BY <1>1, <1>4
<1>11. store' = [k \in Keys |-> store'[k]] BY <1>1 DEF CallInv
<1> QED BY <1>5, <1>6, <1>8, <1>9, <1>10, <1>11 DEF CallInv

(* At first nobody is in a call.                                           *)
LEMMA CallInit == Init => CallInv
<1> SUFFICES ASSUME Init PROVE CallInv OBVIOUS
<1>1. \A t \in Threads : pc[t] = "idle" /\ WantedSize(t) /\ Unanswered(t) /\ Pending(t)
  BY DEF Init, WantedSize, Unanswered, Pending
<1>2. TicksCounted
  <2>1. Unticked = {} BY <1>1 DEF Unticked
  <2> QED BY <2>1, FS_EmptySet DEF Init, TicksCounted
<1>3. StampsPast BY DEF Init, StampsPast
<1>4. store = [k \in Keys |-> store[k]] /\ res = [t \in Threads |-> res[t]] BY DEF Init
<1> QED BY <1>1, <1>2, <1>3, <1>4 DEF CallInv

(* Between the steps of a call nothing that it relies on changes.          *)
THEOREM SharedCalls == Spec => []CallInv
<1>1. ControlInv /\ TableInv /\ StoreRight /\ ControlInv' /\ TableInv' /\ CallInv /\ [Next]_vars => CallInv'
  <2> SUFFICES ASSUME ControlInv, TableInv, StoreRight, ControlInv', TableInv', CallInv, [Next]_vars
               PROVE  CallInv'
    OBVIOUS
  <2>1. CASE UNCHANGED vars
    <3>1. UNCHANGED <<num_buckets, meta, slots, slab_pool, epochs, current_epoch, made, call, pc, slot,
                      how, seen, res, store>>
      BY <2>1 DEF vars, table, counters, frame
    <3>2. Settled' = Settled
      BY <3>1 DEF Settled, Occupied, GivenUp, BucketIds, Home, Bucket
    <3>3. \A u \in Threads : Pending(u)' BY <3>1, <3>2, QuietPending DEF CallInv
    <3>4. TicksCounted' /\ StampsPast' BY <3>1 DEF CallInv, TicksCounted, Unticked, Op, StampsPast, BucketIds
    <3>5. \A u \in Threads : WantedSize(u)' /\ Unanswered(u)'
      BY <3>1 DEF CallInv, WantedSize, Unanswered, Op
    <3> QED BY <3>1, <3>3, <3>4, <3>5 DEF CallInv
  <2> QED BY <2>1, CallStep, CallGrow, CallBegin DEF Next, Finished
<1> QED BY <1>1, CallInit, SharedControl, SharedTable, SharedStore, PTL DEF Spec
-----------------------------------------------------------------------------
(* The steps of the contract, in terms of what it sees of the threads.     *)
Alone(t) == \A u \in Threads \ {t} : Seen(u)' = Seen(u)

Answered(t, r) == Alone(t) /\ Seen(t)' = [req |-> call[t], stage |-> "done", sample |-> 0, res |-> r]

(* Updates of what the contract sees.                                      *)
Ended(R, r)   == [R EXCEPT !.stage = "done", !.res = r, !.sample = 0]
Sampled(R, z) == [R EXCEPT !.stage = "sampled", !.sample = z]

(* Field by field.                                                         *)
LEMMA RecordUpdates ==
    ASSUME NEW R, NEW r, R = [req |-> R.req, stage |-> R.stage, sample |-> R.sample, res |-> R.res]
    PROVE  /\ Ended(R, r) = [req |-> R.req, stage |-> "done", sample |-> 0, res |-> r]
           /\ Sampled(R, r) = [req |-> R.req, stage |-> "sampled", sample |-> r, res |-> R.res]
<1>1. PICK c, s, x, y : c = R.req /\ s = R.stage /\ x = R.sample /\ y = R.res OBVIOUS
<1>a. R = [req |-> c, stage |-> s, sample |-> x, res |-> y] BY <1>1
<1>2. Ended(R, r) = [req |-> c, stage |-> "done", sample |-> 0, res |-> r]
  <2>1. PICK Q : Q = [R EXCEPT !.stage = "done"] OBVIOUS
  <2>2. PICK P : P = [Q EXCEPT !.res = r] OBVIOUS
  <2>3. PICK O : O = [P EXCEPT !.sample = 0] OBVIOUS
  <2>4. Q = [req |-> c, stage |-> "done", sample |-> x, res |-> y] BY <1>a, <2>1
  <2>5. P = [req |-> c, stage |-> "done", sample |-> x, res |-> r] BY <2>2, <2>4
  <2>6. O = [req |-> c, stage |-> "done", sample |-> 0, res |-> r] BY <2>3, <2>5
  <2>7. O = Ended(R, r) BY <2>1, <2>2, <2>3, Zenon DEF Ended
  <2> QED BY <2>6, <2>7, Zenon
<1>3. Sampled(R, r) = [req |-> c, stage |-> "sampled", sample |-> r, res |-> y]
  <2>1. PICK Q : Q = [R EXCEPT !.stage = "sampled"] OBVIOUS
  <2>2. PICK P : P = [Q EXCEPT !.sample = r] OBVIOUS
  <2>3. Q = [req |-> c, stage |-> "sampled", sample |-> x, res |-> y] BY <1>a, <2>1
  <2>4. P = [req |-> c, stage |-> "sampled", sample |-> r, res |-> y] BY <2>2, <2>3
  <2>5. P = Sampled(R, r) BY <2>1, <2>2, Zenon DEF Sampled
  <2> QED BY <2>4, <2>5, Zenon
<1> QED BY <1>1, <1>2, <1>3

(* A call gets its answer.                                                 *)
LEMMA AnswersIs ==
    ASSUME NEW t \in Threads, NEW r, Answered(t, r)
    PROVE  Cache!Answers(t, r)
<1> DEFINE A == [u \in Threads |-> Seen(u)]
           B == Ended(Seen(t), r)
<1>1. Cache!Answers(t, r) <=> A' = [A EXCEPT ![t].stage = "done", ![t].res = r, ![t].sample = 0]
  BY DEF Cache!Answers, Seen
<1>2. B = [req |-> call[t], stage |-> "done", sample |-> 0, res |-> r]
  <2>1. Seen(t) = [req |-> Seen(t).req, stage |-> Seen(t).stage, sample |-> Seen(t).sample, res |-> Seen(t).res]
          /\ Seen(t).req = call[t]
    BY DEF Seen
  <2> QED BY <2>1, RecordUpdates
<1>3. [A EXCEPT ![t].stage = "done", ![t].res = r, ![t].sample = 0] = [u \in Threads |-> IF u = t THEN B ELSE Seen(u)]
  BY DEF Ended
<1>4. A' = [u \in Threads |-> Seen(u)'] OBVIOUS
<1> HIDE DEF B
<1>5. \A u \in Threads : Seen(u)' = IF u = t THEN B ELSE Seen(u) BY <1>2 DEF Answered, Alone
<1> QED BY <1>1, <1>3, <1>4, <1>5

(* Nothing that the contract can see of the threads changes.               *)
LEMMA SeesNothing ==
    ASSUME \A u \in Threads : Seen(u)' = Seen(u),
           UNCHANGED <<store, current_epoch, default_ttl, num_buckets>>
    PROVE  UNCHANGED Cache!vars
<1> DEFINE A == [u \in Threads |-> Seen(u)]
<1>1. A' = A OBVIOUS
<1>2. Cache!vars = <<store, current_epoch, default_ttl, num_buckets, A>> BY DEF Cache!vars, Seen
<1>3. Cache!vars' = <<store, current_epoch, default_ttl, num_buckets, A>>' BY DEF Cache!vars, Seen
<1> HIDE DEF A
<1> QED BY <1>1, <1>2, <1>3

(* A call begins, and its epoch advances.                                  *)
LEMMA InvokeIs ==
    ASSUME NEW t \in Threads, NEW c, Alone(t), Stage(t) = "done",
           Seen(t)' = [req |-> c, stage |-> "called", sample |-> 0, res |-> NoValue],
           UNCHANGED <<store, current_epoch, default_ttl, num_buckets>>
    PROVE  Cache!Invoke(t, c)
<1> DEFINE A == [u \in Threads |-> Seen(u)]
           B == [req |-> c, stage |-> "called", sample |-> 0, res |-> NoValue]
<1>1. Cache!Invoke(t, c) <=> /\ Seen(t).stage = "done" /\ A' = [A EXCEPT ![t] = B]
                             /\ UNCHANGED <<store, current_epoch, default_ttl, num_buckets>>
  BY DEF Cache!Invoke, Seen
<1>2. Seen(t).stage = "done" BY DEF Seen
<1> HIDE DEF B
<1>3. A' = [u \in Threads |-> Seen(u)'] OBVIOUS
<1>4. \A u \in Threads : Seen(u)' = IF u = t THEN B ELSE Seen(u) BY DEF Alone, B
<1>5. [A EXCEPT ![t] = B] = [u \in Threads |-> IF u = t THEN B ELSE Seen(u)] OBVIOUS
<1> QED BY <1>1, <1>2, <1>3, <1>4, <1>5

(* An insertion advances the epoch.                                        *)
LEMMA TickIs ==
    ASSUME NEW t \in Threads, Alone(t), Op(t) = "insert", Stage(t) = "called",
           Seen(t)' = [Seen(t) EXCEPT !.stage = "ticked"], current_epoch' = current_epoch + 1,
           UNCHANGED <<store, default_ttl, num_buckets>>
    PROVE  Cache!Tick(t)
<1> DEFINE A == [u \in Threads |-> Seen(u)]
<1>1. Cache!Becomes(t, "ticked") <=> A' = [A EXCEPT ![t].stage = "ticked"] BY DEF Cache!Becomes, Seen
<1>2. Cache!Doing(t, "insert", "called") BY DEF Cache!Doing, Op
<1>3. A' = [u \in Threads |-> Seen(u)'] OBVIOUS
<1>4. [A EXCEPT ![t].stage = "ticked"]
        = [u \in Threads |-> IF u = t THEN [Seen(t) EXCEPT !.stage = "ticked"] ELSE Seen(u)]
  OBVIOUS
<1>5. \A u \in Threads : Seen(u)' = IF u = t THEN [Seen(t) EXCEPT !.stage = "ticked"] ELSE Seen(u)
  BY DEF Alone
<1>6. Cache!Becomes(t, "ticked") BY <1>1, <1>3, <1>4, <1>5
<1> QED BY <1>2, <1>6 DEF Cache!Tick

(* A lookup notes a lifetime.                                              *)
LEMMA SampleIs ==
    ASSUME NEW t \in Threads, Alone(t), Op(t) \in {"get", "peek"}, Stage(t) = "called",
           NEW k, k = call[t].key, store[k] # NoEntry,
           Seen(t)' = Sampled(Seen(t), IF store[k].ttl = 0 THEN default_ttl ELSE store[k].ttl),
           UNCHANGED <<store, current_epoch, default_ttl, num_buckets>>
    PROVE  Cache!Sample(t)
<1> DEFINE A == [u \in Threads |-> Seen(u)]
           x == IF store[k].ttl = 0 THEN default_ttl ELSE store[k].ttl
           B == Sampled(Seen(t), x)
<1>1. Cache!Doing(t, "get", "called") \/ Cache!Doing(t, "peek", "called") BY DEF Cache!Doing, Op
<1>2. Cache!Present(Seen(t).req.key) BY DEF Cache!Present, Seen
<1>3. A[t].req.key = k BY DEF Seen
<1>4. [A EXCEPT ![t].stage = "sampled", ![t].sample = x] = [u \in Threads |-> IF u = t THEN B ELSE Seen(u)]
  BY DEF Sampled
<1>5. A' = [u \in Threads |-> Seen(u)'] OBVIOUS
<1>6. \A u \in Threads : Seen(u)' = IF u = t THEN B ELSE Seen(u) BY DEF Alone
<1>7. A' = [A EXCEPT ![t].stage = "sampled", ![t].sample = x] BY <1>4, <1>5, <1>6
<1>8. Cache!Sample(t) <=>
         /\ Cache!Doing(t, "get", "called") \/ Cache!Doing(t, "peek", "called")
         /\ Cache!Present(A[t].req.key)
         /\ LET e == store[A[t].req.key]
            IN  A' = [A EXCEPT ![t].stage = "sampled", ![t].sample = IF e.ttl = 0 THEN default_ttl ELSE e.ttl]
         /\ UNCHANGED <<store, current_epoch, default_ttl, num_buckets>>
  BY DEF Cache!Sample, Seen
<1>9. Cache!Present(A[t].req.key) BY <1>3 DEF Cache!Present
<1> HIDE DEF A
<1> QED BY <1>1, <1>3, <1>7, <1>8, <1>9

(* The other steps that answer a call.                                     *)
LEMMA AnswerSteps ==
    ASSUME NEW t \in Threads, UNCHANGED <<current_epoch, num_buckets>>
    PROVE  /\ Op(t) \in {"get", "peek"} /\ Stage(t) = "called" /\ Answered(t, NoValue)
                 /\ UNCHANGED <<store, default_ttl>> /\ store[call[t].key] = NoEntry => Cache!Miss(t)
           /\ Op(t) = "set_ttl" /\ Stage(t) = "called" /\ Answered(t, NoValue)
                 /\ store' = store /\ default_ttl' = call[t].n => Cache!SetTtl(t)
<1>1. Answered(t, NoValue) => Cache!Answers(t, NoValue) BY AnswersIs
<1>2. ASSUME Op(t) \in {"get", "peek"}, Stage(t) = "called", Answered(t, NoValue),
             UNCHANGED <<store, default_ttl>>, store[call[t].key] = NoEntry
      PROVE  Cache!Miss(t)
  BY <1>1, <1>2 DEF Cache!Miss, Cache!Doing, Cache!Present, Op
<1>3. ASSUME Op(t) = "set_ttl", Stage(t) = "called", Answered(t, NoValue),
             store' = store, default_ttl' = call[t].n
      PROVE  Cache!SetTtl(t)
  BY <1>1, <1>3 DEF Cache!SetTtl, Cache!Doing, Op
<1> QED BY <1>2, <1>3

(* A lookup decides.                                                       *)
LEMMA LookupIs ==
    ASSUME NEW t \in Threads, Stage(t) = "sampled", pc[t] = "age", NEW k, k = call[t].key,
           UNCHANGED <<store, current_epoch, default_ttl, num_buckets>>,
           NEW r, Answered(t, r),
           r = IF seen[t] \notin {0, Never} /\ current_epoch > store[k].epoch + seen[t]
               THEN NoValue ELSE Decoded(store[k].val)
    PROVE  Cache!Lookup(t)
<1> DEFINE A == [u \in Threads |-> Seen(u)]
           F(e, life) == IF life \notin {0, Never} /\ current_epoch > e.epoch + life THEN NoValue ELSE Decoded(e.val)
           E(x) == A' = [A EXCEPT ![t].stage = "done", ![t].res = x, ![t].sample = 0]
<1>1. E(r)
  <2>1. Cache!Answers(t, r) BY AnswersIs
  <2> QED BY <2>1 DEF Cache!Answers, Seen
<1>2. A[t].stage = "sampled" /\ A[t].req.key = k /\ A[t].sample = seen[t] BY DEF Seen
<1>3. Cache!Lookup(t) <=> /\ A[t].stage = "sampled" /\ E(F(store[A[t].req.key], A[t].sample))
                          /\ UNCHANGED <<store, current_epoch, default_ttl, num_buckets>>
  BY DEF Cache!Lookup, Cache!Answers, Cache!Decoded, Decoded, Seen
<1>4. F(store[k], seen[t]) = r OBVIOUS
<1>5. F(store[A[t].req.key], A[t].sample) = r
  <2> HIDE DEF F, A
  <2> QED BY <1>2, <1>4
<1> HIDE DEF E, A, F
<1> QED BY <1>1, <1>2, <1>3, <1>5

(* A removal.                                                              *)
LEMMA RemoveIs ==
    ASSUME NEW t \in Threads, Op(t) = "remove", Stage(t) = "called", NEW k, k = call[t].key,
           UNCHANGED <<current_epoch, default_ttl, num_buckets>>, NEW r, Answered(t, r),
           r = (store[k] # NoEntry), store' = [store EXCEPT ![k] = NoEntry]
    PROVE  Cache!Remove(t)
<1> DEFINE A == [u \in Threads |-> Seen(u)]
           E(x) == A' = [A EXCEPT ![t].stage = "done", ![t].res = x, ![t].sample = 0]
<1>1. E(r)
  <2>1. Cache!Answers(t, r) BY AnswersIs
  <2> QED BY <2>1 DEF Cache!Answers, Seen
<1>2. Cache!Doing(t, "remove", "called") BY DEF Cache!Doing, Op
<1>3. Cache!Remove(t) <=> /\ Cache!Doing(t, "remove", "called")
                          /\ store' = [store EXCEPT ![A[t].req.key] = NoEntry]
                          /\ E(store[A[t].req.key] # NoEntry)
                          /\ UNCHANGED <<current_epoch, default_ttl, num_buckets>>
  BY DEF Cache!Remove, Cache!Present, Cache!Answers, Seen
<1>4. A[t].req.key = k BY DEF Seen
<1>5. E(store[k] # NoEntry) BY <1>1
<1> HIDE DEF A, E
<1>6. E(store[A[t].req.key] # NoEntry) BY <1>4, <1>5
<1> QED BY <1>2, <1>3, <1>4, <1>6

(* An insertion takes effect.                                              *)
LEMMA PutIs ==
    ASSUME NEW t \in Threads, Op(t) = "insert", Stage(t) = "ticked", NEW k, NEW c, c = call[t], k = c.key,
           UNCHANGED <<current_epoch, default_ttl, num_buckets>>, Answered(t, NoValue),
           NEW lost \in Cache!Victims(k),
           store' = [j \in Keys |-> IF j = k THEN [val |-> c.val, epoch |-> current_epoch, ttl |-> c.n]
                                    ELSE IF j \in lost THEN NoEntry ELSE store[j]]
    PROVE  Cache!Put(t)
<1>1. Cache!Answers(t, NoValue) BY AnswersIs
<1>2. Cache!Doing(t, "insert", "ticked") BY DEF Cache!Doing, Op
<1> DEFINE A == [u \in Threads |-> Seen(u)]
           F(d, l) == store' = [j \in Keys |-> IF j = d.key THEN [val |-> d.val, epoch |-> current_epoch, ttl |-> d.n]
                                               ELSE IF j \in l THEN NoEntry ELSE store[j]]
<1>3. Cache!Put(t) <=> /\ Cache!Doing(t, "insert", "ticked")
                       /\ \E l \in Cache!Victims(A[t].req.key) : F(A[t].req, l)
                       /\ Cache!Answers(t, NoValue)
                       /\ UNCHANGED <<current_epoch, default_ttl, num_buckets>>
  BY DEF Cache!Put, Seen
<1>4. A[t].req = c BY DEF Seen
<1>5. F(c, lost) OBVIOUS
<1> HIDE DEF A, F
<1> QED BY <1>1, <1>2, <1>3, <1>4, <1>5

(* The table grows for the caller of resize, or for an insertion.          *)
LEMMA ResizeIs ==
    ASSUME NEW t \in Threads, Stage(t) = "called", UNCHANGED <<store, current_epoch, default_ttl>>
    PROVE  /\ Op(t) = "resize" /\ Answered(t, NoValue)
                 /\ (IF num_buckets >= call[t].n THEN num_buckets' = num_buckets
                     ELSE num_buckets' \in {m \in {num_buckets * 2^i : i \in 0 .. call[t].n} :
                                               call[t].n <= m /\ m < 2 * call[t].n})
              => Cache!Resize(t)
           /\ Op(t) = "insert" /\ num_buckets' = 2 * num_buckets /\ (\A u \in Threads : Seen(u)' = Seen(u))
              => Cache!Double(t)
<1> DEFINE A == [u \in Threads |-> Seen(u)]
<1>1. ASSUME Op(t) = "resize", Answered(t, NoValue),
             IF num_buckets >= call[t].n THEN num_buckets' = num_buckets
             ELSE num_buckets' \in {m \in {num_buckets * 2^i : i \in 0 .. call[t].n} :
                                       call[t].n <= m /\ m < 2 * call[t].n}
      PROVE  Cache!Resize(t)
  <2>1. Cache!Answers(t, NoValue) BY <1>1, AnswersIs
  <2>2. Cache!Doing(t, "resize", "called") BY <1>1 DEF Cache!Doing, Op
  <2> DEFINE S(n) == IF num_buckets >= n THEN UNCHANGED num_buckets
                     ELSE num_buckets' \in {m \in {num_buckets * 2^i : i \in 0 .. n} : n <= m /\ m < 2 * n}
  <2>3. Cache!Resize(t) <=> /\ Cache!Doing(t, "resize", "called") /\ S(A[t].req.n) /\ Cache!Answers(t, NoValue)
                            /\ UNCHANGED <<store, current_epoch, default_ttl>>
    BY DEF Cache!Resize, Seen
  <2>4. A[t].req.n = call[t].n BY DEF Seen
  <2>5. S(call[t].n) BY <1>1
  <2> HIDE DEF A, S
  <2> QED BY <2>1, <2>2, <2>3, <2>4, <2>5
<1>2. ASSUME Op(t) = "insert", num_buckets' = 2 * num_buckets, \A u \in Threads : Seen(u)' = Seen(u)
      PROVE  Cache!Double(t)
  <2>1. A' = A BY <1>2
  <2>2. Cache!Doing(t, "insert", "called") BY <1>2 DEF Cache!Doing, Op
  <2>3. Cache!Double(t) <=> /\ Cache!Doing(t, "insert", "called") /\ num_buckets' = 2 * num_buckets
                            /\ UNCHANGED <<store, current_epoch, default_ttl>> /\ A' = A
    BY DEF Cache!Double, Seen
  <2> HIDE DEF A
  <2> QED BY <1>2, <2>1, <2>2, <2>3
<1> QED BY <1>1, <1>2

-----------------------------------------------------------------------------
(* The value that a thread reads is the one in its place.                  *)
LEMMA ValueIs ==
    ASSUME NEW u, NEW x
    PROVE  /\ x = Place(u) => Value(u) = ValueAt(x)
           /\ x = Place(u)' => Value(u)' = ValueAt(x)'
BY DEF Value, Place, ValueAt

(* A step of one thread changes nothing that the contract sees of others.  *)
LEMMA StepAlone ==
    ASSUME ControlInv, TableInv, ControlInv', CallInv, NEW t \in Threads, Step(t)
    PROVE  Alone(t)
<1> SUFFICES ASSUME NEW u \in Threads \ {t} PROVE Seen(u)' = Seen(u) BY DEF Alone
<1>1. /\ pc'[u] = pc[u] /\ call'[u] = call[u] /\ seen'[u] = seen[u] /\ res'[u] = res[u]
  <2>1. CASE Grow(t)
    <3>1. seen' = [seen EXCEPT ![t] = 0] /\ res' = res /\ seen \in [Threads -> Nat]
      BY <2>1 DEF Grow, AfterGrow, ControlInv, Control
    <3> QED BY <3>1, StepOthers DEF Others
  <2>2. CASE ~Grow(t) BY <2>2, StepOthers, StepRegisters DEF Others, RegistersKept, CallInv
  <2> QED BY <2>1, <2>2
<1>2. ASSUME pc[u] \in {"push", "copy"} PROVE Value(u)' = Value(u)
  <2>1. pc[u] \in Holding /\ pc[u] # "write" BY <1>2 DEF Holding, Inside
  <2>2. ~Grow(t)
    <3>1. pc[u] \in Inside BY <2>1 DEF Holding
    <3> QED BY <3>1 DEF Grow, ControlInv, Locked
  <2>3. PICK b, x : b = Home(u) /\ x = Place(u) OBVIOUS
  <2>4. Untouched(b) /\ Place(u)' = x BY <2>1, <2>2, <2>3, OthersStore
  <2>5. x \in Settled /\ x[1] = b
    <3>1. HasFound(u) BY <1>2 DEF TableInv, ThreadRight
    <3>2. \A s : <<Home(u), s>> \notin GivenUp BY <2>1, HeldSettled
    <3> QED BY <2>3, <3>1, <3>2 DEF HasFound, Settled, Place
  <2>6. ValueAt(x)' = ValueAt(x) BY <2>4, <2>5 DEF Untouched
  <2> QED BY <2>3, <2>4, <2>6, ValueIs
<1>3. Stage(u)' = Stage(u) BY <1>1 DEF Stage, Op
<1> QED BY <1>1, <1>2, <1>3 DEF Seen, Decoded

(* Steps that no caller can tell from nothing.                             *)
Hidden(t) == \/ Enter(t) \/ Acquire(t) \/ CheckLoad(t) \/ DrainTake(t) \/ DrainEnd(t) \/ Apply(t)
             \/ InsertMatch(t) \/ Write(t) \/ InsertEnd(t) \/ GetPush(t) \/ GetCopy(t) \/ RemoveEnd(t)

(* They leave the view of the caller as it is.                             *)
LEMMA HiddenSeen ==
    ASSUME ControlInv, TableInv, NEW t \in Threads, Hidden(t), CallInv
    PROVE  Seen(t)' = Seen(t) /\ UNCHANGED <<store, current_epoch, default_ttl, num_buckets>>
<1>1. UNCHANGED <<store, current_epoch, default_ttl, num_buckets, call>>
  BY DEF Hidden, Enter, Acquire, CheckLoad, DrainTake, DrainEnd, Apply, InsertMatch, Write, InsertEnd,
         GetPush, GetCopy, RemoveEnd, counters, frame, table
<1>2. pc \in [Threads -> Labels] /\ (pc[t] # "idle" => Op(t) \in OpsAt(pc[t])) /\ res = [u \in Threads |-> res[u]]
  BY DEF ControlInv, Control, CallsRight, CallInv
<1>3. CASE GetPush(t)
  <2>1. pc[t] = "push" /\ pc'[t] = "copy" /\ UNCHANGED <<slots, slab_pool, slot, res>>
    BY <1>2, <1>3 DEF GetPush, Goto, table, registers
  <2>2. Value(t)' = Value(t) BY <1>1, <2>1 DEF Value, ValueAt, Home, Bucket
  <2>3. Stage(t)' = Stage(t) BY <1>1, <2>1 DEF Stage, Op
  <2> QED BY <1>1, <2>1, <2>2, <2>3 DEF Seen, Decoded
<1>4. CASE GetCopy(t)
  <2>1. pc[t] = "copy" /\ pc'[t] = "idle" /\ res'[t] = Decoded(Value(t))
    <3>1. res' = [res EXCEPT ![t] = Decoded(Value(t))] /\ pc' = [pc EXCEPT ![t] = "idle"] /\ pc[t] = "copy"
      BY <1>4 DEF GetCopy, Leave, Goto
    <3> QED BY <1>2, <3>1
  <2>2. Stage(t)' = Stage(t) BY <1>1, <2>1 DEF Stage, Op
  <2> QED BY <1>1, <2>1, <2>2 DEF Seen
<1>5. CASE ~GetPush(t) /\ ~GetCopy(t)
  <2> DEFINE Quiet == /\ pc[t] \notin {"age", "push", "copy"} /\ pc'[t] \notin {"age", "push", "copy"}
                      /\ res' = res /\ Stage(t)' = Stage(t)
  <2> SUFFICES Quiet BY <1>1 DEF Seen
  <2> USE <1>1, <1>2 DEF Goto, Leave, registers, Stage, Op, OpsAt
  <2>1. CASE Enter(t) BY <2>1 DEF Enter
  <2>2. CASE Acquire(t) BY <2>2 DEF Acquire
  <2>3. CASE CheckLoad(t) BY <2>3 DEF CheckLoad
  <2>4. CASE DrainTake(t) BY <2>4 DEF DrainTake
  <2>5. CASE DrainEnd(t) BY <2>5 DEF DrainEnd
  <2>6. CASE Apply(t) BY <2>6 DEF Apply
  <2>7. CASE InsertMatch(t) BY <2>7 DEF InsertMatch
  <2>8. CASE Write(t) BY <2>8 DEF Write
  <2>9. CASE InsertEnd(t) BY <2>9 DEF InsertEnd
  <2>10. CASE RemoveEnd(t) BY <2>10 DEF RemoveEnd
  <2> QED BY <1>5, <2>1, <2>2, <2>3, <2>4, <2>5, <2>6, <2>7, <2>8, <2>9, <2>10 DEF Hidden
<1> QED BY <1>1, <1>3, <1>4, <1>5

-----------------------------------------------------------------------------
(* A call begins.                                                          *)
LEMMA BeginInvokes ==
    ASSUME ControlInv, CallInv, NEW t \in Threads, NEW c \in Calls, Begin(t, c)
    PROVE  Cache!Invoke(t, c)
<1>1. /\ pc \in [Threads -> Labels] /\ call \in [Threads -> Calls \cup {NoCall}]
      /\ seen \in [Threads -> Nat] /\ res = [u \in Threads |-> res[u]]
  BY DEF ControlInv, Control, CallInv
<1>2. /\ pc[t] = "idle" /\ call' = [call EXCEPT ![t] = c]
      /\ seen' = [seen EXCEPT ![t] = IF c.op = "resize" THEN c.n ELSE 0]
      /\ res' = [res EXCEPT ![t] = NoValue]
      /\ UNCHANGED <<store, current_epoch, default_ttl, num_buckets, slots, slab_pool, slot>>
  BY DEF Begin, table, counters
<1>3. PICK l : /\ pc' = [pc EXCEPT ![t] = l]
               /\ l = CASE c.op = "insert"  -> IF AutoResize THEN "check" ELSE "tick"
                        [] c.op = "set_ttl" -> "set_ttl"
                        [] c.op = "resize"  -> "grow"
                        [] OTHER -> "enter"
  BY DEF Begin, Goto
<1>4. Alone(t)
  <2> SUFFICES ASSUME NEW u \in Threads \ {t} PROVE Seen(u)' = Seen(u) BY DEF Alone
  <2>1. pc'[u] = pc[u] /\ call'[u] = call[u] /\ seen'[u] = seen[u] /\ res'[u] = res[u]
    BY <1>1, <1>2, <1>3
  <2>2. Value(u)' = Value(u) BY <1>2, <2>1 DEF Value, ValueAt, Home, Bucket
  <2>3. Stage(u)' = Stage(u) BY <2>1 DEF Stage, Op
  <2> QED BY <2>1, <2>2, <2>3 DEF Seen, Decoded
<1>5. pc'[t] = l /\ call'[t] = c /\ res'[t] = NoValue BY <1>1, <1>2, <1>3
<1>6. l \in {"check", "tick", "set_ttl", "grow"} \/ (l = "enter" /\ c.op # "insert") BY <1>3
<1>7. Stage(t)' = "called" BY <1>5, <1>6 DEF Stage, Op
<1>8. Seen(t)' = [req |-> c, stage |-> "called", sample |-> 0, res |-> NoValue]
  BY <1>5, <1>6, <1>7 DEF Seen
<1>9. Stage(t) = "done" BY <1>2 DEF Stage
<1> QED BY <1>2, <1>4, <1>8, <1>9, InvokeIs

(* An insertion advances the epoch.                                        *)
LEMMA TickTicks ==
    ASSUME ControlInv, NEW t \in Threads, Tick(t), Alone(t)
    PROVE  Cache!Tick(t)
<1>1. /\ pc[t] = "tick" /\ pc'[t] = "enter" /\ current_epoch' = current_epoch + 1
      /\ UNCHANGED <<call, res, seen, store, default_ttl, num_buckets>>
  BY DEF ControlInv, Control, Tick, Goto, table, frame, registers
<1>2. Op(t) = "insert" BY <1>1 DEF ControlInv, CallsRight, OpsAt
<1>3. Stage(t) = "called" /\ Stage(t)' = "ticked" BY <1>1, <1>2 DEF Stage, Op
<1>4. Seen(t) = [req |-> call[t], stage |-> "called", sample |-> 0, res |-> res[t]] BY <1>1, <1>3 DEF Seen
<1>5. Seen(t)' = [req |-> call[t], stage |-> "ticked", sample |-> 0, res |-> res[t]] BY <1>1, <1>3 DEF Seen
<1>6. Seen(t)' = [Seen(t) EXCEPT !.stage = "ticked"] BY <1>4, <1>5
<1> QED BY <1>1, <1>2, <1>3, <1>6, TickIs

(* A caller that holds its bucket knows what is committed for its key.     *)
LEMMA HeldEntry ==
    ASSUME ControlInv, TableInv, StoreRight, NEW t \in Threads, pc[t] \in Holding \ {"write", "stamp"},
           NEW k, k = call[t].key
    PROVE  /\ k \in Keys
           /\ Found(t) = {} => store[k] = NoEntry
           /\ \A x \in Settled : KeyAt(x) = k => store[k] = EntryAt(x) /\ store[k] # NoEntry
           /\ \A s \in Found(t) : <<Home(t), s>> \in Settled /\ KeyAt(<<Home(t), s>>) = k
<1>1. ~Torn(Home(t)) /\ CommittedIn(Home(t)) BY HeldCommitted
<1>2. k \in Keys /\ Home(t) = Bucket(k) /\ \A s : <<Bucket(k), s>> \notin GivenUp BY HeldSettled DEF Home
<1>3. ASSUME Found(t) = {} PROVE store[k] = NoEntry
  <2>1. EntryIn(Bucket(k), k) = NoEntry BY <1>2, <1>3 DEF EntryIn, Found
  <2> QED BY <1>1, <1>2, <2>1 DEF StoreRight
<1>4. ASSUME NEW x \in Settled, KeyAt(x) = k PROVE store[k] = EntryAt(x) /\ store[k] # NoEntry
  <2>1. x[1] = Home(t) BY <1>2, <1>4 DEF TableInv, Filed
  <2> QED BY <1>1, <1>4, <2>1 DEF CommittedIn
<1>5. ASSUME NEW s \in Found(t) PROVE <<Home(t), s>> \in Settled /\ KeyAt(<<Home(t), s>>) = k
  BY <1>2, SearchIs DEF Found
<1> QED BY <1>2, <1>3, <1>4, <1>5

(* A lookup finds nothing.                                                 *)
LEMMA MissMisses ==
    ASSUME ControlInv, TableInv, StoreRight, CallInv, NEW t \in Threads, LookupMiss(t), Alone(t)
    PROVE  Cache!Miss(t)
<1>1. /\ pc[t] = "match" /\ pc'[t] = "idle" /\ Op(t) \in {"get", "peek"} /\ Found(t) = {}
      /\ UNCHANGED <<call, res, store, current_epoch, default_ttl, num_buckets>>
  BY DEF ControlInv, Control, LookupMiss, Leave, Goto, table, counters, frame
<1>2. Stage(t) = "called" /\ Stage(t)' = "done" /\ res[t] = NoValue
  BY <1>1 DEF Stage, Op, CallInv, Unanswered
<1>3. Answered(t, NoValue) BY <1>1, <1>2 DEF Answered, Seen
<1>4. store[call[t].key] = NoEntry BY <1>1, HeldEntry DEF Holding, Inside
<1> QED BY <1>1, <1>2, <1>3, <1>4, AnswerSteps

(* A lookup finds an entry.                                                *)
LEMMA FoundSamples ==
    ASSUME ControlInv, TableInv, StoreRight, NEW t \in Threads, LookupFound(t), Alone(t)
    PROVE  Cache!Sample(t)
<1>1. /\ pc[t] = "match" /\ pc'[t] = "age" /\ Op(t) \in {"get", "peek"}
      /\ UNCHANGED <<call, res, store, current_epoch, default_ttl, num_buckets>>
  BY DEF ControlInv, Control, LookupFound, Goto, table, counters, frame
<1>2. PICK s \in Found(t) : LET own == epochs[Home(t)][s].ttl IN
                            seen' = [seen EXCEPT ![t] = IF own = 0 THEN default_ttl ELSE own]
  BY DEF LookupFound
<1>3. PICK k, b, x : k = call[t].key /\ b = Home(t) /\ x = <<b, s>> OBVIOUS
<1>4. x \in Settled /\ KeyAt(x) = k BY <1>1, <1>2, <1>3, HeldEntry DEF Holding, Inside
<1>5. store[k] = EntryAt(x) /\ store[k] # NoEntry BY <1>1, <1>3, <1>4, HeldEntry DEF Holding, Inside
<1>6. store[k].ttl = epochs[b][s].ttl BY <1>3, <1>5 DEF EntryAt
<1> DEFINE z == IF store[k].ttl = 0 THEN default_ttl ELSE store[k].ttl
<1>7. seen'[t] = z BY <1>2, <1>3, <1>6 DEF ControlInv, Control
<1>8. Stage(t) = "called" /\ Stage(t)' = "sampled" BY <1>1 DEF Stage, Op
<1>9. Seen(t)' = Sampled(Seen(t), z)
  <2>1. Seen(t) = [req |-> call[t], stage |-> "called", sample |-> 0, res |-> res[t]] BY <1>1, <1>8 DEF Seen
  <2>2. Seen(t)' = [req |-> call[t], stage |-> "sampled", sample |-> seen'[t], res |-> res[t]] BY <1>1, <1>8 DEF Seen
  <2> HIDE DEF z
  <2>3. Sampled(Seen(t), z) = [req |-> call[t], stage |-> "sampled", sample |-> z, res |-> res[t]]
    <3>1. PICK R : R = Seen(t) OBVIOUS
    <3>2. R.req = call[t] /\ R.res = res[t] /\ R = [req |-> R.req, stage |-> R.stage, sample |-> R.sample, res |-> R.res]
      BY <2>1, <3>1
    <3> QED BY <3>1, <3>2, RecordUpdates
  <2> QED BY <1>7, <2>2, <2>3
<1> QED BY <1>1, <1>3, <1>5, <1>8, <1>9, SampleIs

(* While epochs have not wrapped their wrapping difference is the age.     *)
LEMMA AgeIs ==
    ASSUME NEW now \in Nat, NEW e \in Nat, NEW m \in Nat, NEW life \in Nat, e <= now, now < m
    PROVE  (now + m - e) % m > life <=> now > e + life
<1> DEFINE p == now + m - e
           r == now - e
<1>1. p \in Nat /\ m > 0 /\ r \in 0 .. (m - 1) /\ p = m * 1 + r OBVIOUS
<1>2. r > life <=> now > e + life OBVIOUS
<1>3. p % m = r
  <2> HIDE DEF p, r
  <2> QED BY <1>1, RemainderIs
<1> HIDE DEF r
<1> QED BY <1>2, <1>3

(* A lookup that is about to decide: what it has found, and whether that   *)
(* has expired.                                                            *)
LEMMA DecisionIs ==
    ASSUME ControlInv, TableInv, StoreRight, CallInv, NEW t \in Threads, pc[t] = "age", NEW k, k = call[t].key
    PROVE  /\ store[k].val = Value(t)
           /\ Aged(t) <=> seen[t] \notin {0, Never} /\ current_epoch > store[k].epoch + seen[t]
<1>1. PICK b, s, x : b = Home(t) /\ s = slot[t] /\ x = Place(t) OBVIOUS
<1>2. x = <<b, s>> /\ x \in Settled /\ KeyAt(x) = k
  <2>1. HasFound(t) BY DEF TableInv, ThreadRight
  <2>2. \A r : <<Home(t), r>> \notin GivenUp BY HeldSettled DEF Holding, Inside
  <2> QED BY <1>1, <2>1, <2>2 DEF HasFound, Settled, Place
<1>3. store[k] = EntryAt(x) BY <1>2, HeldEntry DEF Holding, Inside
<1>4. store[k].val = ValueAt(x) /\ store[k].epoch = epochs[b][s].epoch BY <1>2, <1>3 DEF EntryAt
<1>5. b \in BucketIds /\ s \in SlotIds BY <1>1, CallIs DEF Inside, ControlInv, Control
<1> DEFINE e == epochs[b][s].epoch
<1>6. e \in Nat /\ e <= current_epoch BY <1>5 DEF ControlInv, Control, CallInv, StampsPast
<1>7. current_epoch \in Nat /\ seen[t] \in Nat /\ Modulus \in Nat /\ current_epoch < Modulus
  <2>1. current_epoch \in Nat /\ seen[t] \in Nat /\ made \in 0 .. MaxCalls BY DEF ControlInv, Control
  <2>2. Modulus \in Nat /\ MaxCalls \in Nat /\ MaxCalls < Modulus BY SharedAssumption
  <2>3. Cardinality(Unticked) \in Nat
    <3>1. IsFiniteSet(Unticked) BY FS_Subset, SharedAssumption DEF Unticked
    <3> QED BY <3>1, FS_CardinalityType
  <2>4. current_epoch + Cardinality(Unticked) <= made BY DEF CallInv, TicksCounted
  <2> QED BY <2>1, <2>2, <2>3, <2>4
<1> HIDE DEF e
<1>8. (current_epoch + Modulus - e) % Modulus > seen[t] <=> current_epoch > e + seen[t] BY <1>6, <1>7, AgeIs
<1>9. Aged(t) <=> seen[t] \notin {0, Never} /\ (current_epoch + Modulus - e) % Modulus > seen[t]
  BY <1>1 DEF Aged, Expired, e
<1>10. Value(t) = ValueAt(x) BY <1>1, ValueIs
<1> QED BY <1>4, <1>8, <1>9, <1>10 DEF e

(* A lookup decides.                                                       *)
LEMMA LookupDecides ==
    ASSUME ControlInv, TableInv, StoreRight, CallInv, NEW t \in Threads,
           LookupExpired(t) \/ PeekLive(t) \/ GetLive(t), Alone(t)
    PROVE  Cache!Lookup(t)
<1>1. /\ pc[t] = "age" /\ UNCHANGED <<call, store, current_epoch, default_ttl, num_buckets>>
  BY DEF LookupExpired, PeekLive, GetLive, table, counters, frame
<1>2. pc \in [Threads -> Labels] /\ res = [u \in Threads |-> res[u]] /\ res[t] = NoValue
  BY <1>1 DEF ControlInv, Control, CallInv, Unanswered
<1>3. PICK k : k = call[t].key OBVIOUS
<1>4. /\ store[k].val = Value(t)
      /\ Aged(t) <=> seen[t] \notin {0, Never} /\ current_epoch > store[k].epoch + seen[t]
  BY <1>1, <1>3, DecisionIs
<1>5. Stage(t) = "sampled" BY <1>1 DEF Stage
<1>6. PICK r : r = IF Aged(t) THEN NoValue ELSE Decoded(Value(t)) OBVIOUS
<1>7. Answered(t, r)
  <2>1. CASE LookupExpired(t)
    <3>1. Aged(t) /\ pc'[t] = "idle" /\ res' = res BY <1>2, <2>1 DEF LookupExpired, Leave, Goto
    <3>2. Stage(t)' = "done" BY <3>1 DEF Stage
    <3> QED BY <1>1, <1>2, <1>6, <3>1, <3>2 DEF Answered, Seen
  <2>2. CASE PeekLive(t)
    <3>1. ~Aged(t) /\ pc'[t] = "idle" /\ res' = [res EXCEPT ![t] = Decoded(Value(t))] BY <1>2, <2>2 DEF PeekLive, Leave, Goto
    <3>2. Stage(t)' = "done" /\ res'[t] = r BY <1>2, <1>6, <3>1 DEF Stage
    <3> QED BY <1>1, <3>1, <3>2 DEF Answered, Seen
  <2>3. CASE GetLive(t)
    <3>1. ~Aged(t) /\ pc'[t] = "push" /\ UNCHANGED <<slots, slab_pool, slot>>
      BY <1>2, <2>3 DEF GetLive, Goto, table, registers
    <3>2. Stage(t)' = "done" BY <3>1 DEF Stage
    <3>3. Value(t)' = Value(t) BY <1>1, <3>1 DEF Value, ValueAt, Home, Bucket
    <3> QED BY <1>1, <1>6, <3>1, <3>2, <3>3 DEF Answered, Seen, Decoded
  <2> QED BY <2>1, <2>2, <2>3
<1>8. r = IF seen[t] \notin {0, Never} /\ current_epoch > store[k].epoch + seen[t]
          THEN NoValue ELSE Decoded(store[k].val)
  BY <1>4, <1>6
<1> QED BY <1>1, <1>3, <1>5, <1>7, <1>8, LookupIs

(* The default TTL is set.                                                 *)
LEMMA SetTtlSets ==
    ASSUME ControlInv, CallInv, NEW t \in Threads, SetTtl(t), Alone(t)
    PROVE  Cache!SetTtl(t)
<1>1. /\ pc[t] = "set_ttl" /\ pc'[t] = "idle" /\ default_ttl' = call[t].n
      /\ UNCHANGED <<call, res, store, current_epoch, num_buckets>>
  BY DEF ControlInv, Control, SetTtl, Goto, table, frame, registers
<1>2. Op(t) = "set_ttl" /\ res[t] = NoValue BY <1>1 DEF ControlInv, CallsRight, OpsAt, CallInv, Unanswered
<1>3. Stage(t) = "called" /\ Stage(t)' = "done" BY <1>1 DEF Stage
<1>4. Answered(t, NoValue) BY <1>1, <1>2, <1>3 DEF Answered, Seen
<1> QED BY <1>1, <1>2, <1>3, <1>4, AnswerSteps

(* What a commit adds to the history: the entries of one bucket.           *)
LEMMA CommitsAre ==
    ASSUME ControlInv, ControlInv', TableInv', NEW t \in Threads, Commits(t), NEW b, b = Home(t)
    PROVE  /\ store' = [j \in Keys |-> store'[j]]
           /\ \A j \in Keys : Bucket(j) # b => store'[j] = store[j]
           /\ \A j \in Keys : Bucket(j) = b => \A o \in Settled' : KeyAt(o)' = j => store'[j] = EntryAt(o)'
           /\ \A j \in Keys : Bucket(j) = b /\ (\A o \in Settled' : KeyAt(o)' # j) => store'[j] = NoEntry
<1>1. /\ pc[t] \in Holding /\ pc[t] # "write" /\ pc'[t] # "write" /\ UNCHANGED <<num_buckets, call>> /\ Commit(t)
  BY DEF Commits, Stamp, RemoveFound, Goto, frame, ControlInv, Control, Holding, Inside
<1>2. Step(t) BY DEF Commits, Step, Insert, Remove
<1>3. GivenUp' = GivenUp BY <1>1, <1>2, StepOthers, GivenUpStep
<1>4. \A s : <<b, s>> \notin GivenUp BY <1>1, HeldSettled
<1> DEFINE e(j) == IF Bucket(j) = Home(t) THEN EntryIn(Home(t), j)' ELSE store[j]
<1>5. store' = [j \in Keys |-> e(j)] BY <1>1 DEF Commit
<1>6. \A j \in Keys : store'[j] = e(j)
  <2> HIDE DEF e
  <2> QED BY <1>5
<1>7. store' = [j \in Keys |-> store'[j]]
  <2> HIDE DEF e
  <2> QED BY <1>5, <1>6
<1>8. Home(t)' = b /\ \A j : Bucket(j)' = Bucket(j) BY <1>1 DEF Home, Bucket
<1>9. EntriesFound'
  <2>1. (ControlInv /\ TableInv => EntriesFound)' BY EntryIs, PTL
  <2> QED BY <2>1
<1>10. ASSUME NEW j \in Keys, Bucket(j) = b PROVE store'[j] = EntryIn(Bucket(j), j)'
  <2>1. store'[j] = EntryIn(Home(t), j)' BY <1>6, <1>10
  <2>2. EntryIn(Home(t), j)' = EntryIn(Bucket(j), j)' BY <1>8, <1>10 DEF EntryIn
  <2> QED BY <2>1, <2>2
<1>11. ASSUME NEW j \in Keys, Bucket(j) = b
       PROVE  /\ \A o \in Settled' : KeyAt(o)' = j => EntryIn(Bucket(j), j)' = EntryAt(o)'
              /\ (\A o \in Settled' : KeyAt(o)' # j) => EntryIn(Bucket(j), j)' = NoEntry
  BY <1>3, <1>4, <1>8, <1>9, <1>11 DEF EntriesFound
<1> QED BY <1>6, <1>7, <1>10, <1>11

(* An insertion takes effect when it stamps its entry.                     *)
LEMMA StampPuts ==
    ASSUME ControlInv, TableInv, CallInv, ControlInv', TableInv', NEW t \in Threads, Stamp(t), Alone(t)
    PROVE  Cache!Put(t)
<1>1. /\ pc[t] = "stamp" /\ pc'[t] = "settle"
      /\ UNCHANGED <<call, res, num_buckets, meta, slots, slab_pool, slot, current_epoch, default_ttl>>
  BY DEF ControlInv, Control, Stamp, Goto, counters, frame, registers
<1>2. PICK b, s, x, c, k : b = Home(t) /\ s = slot[t] /\ x = Place(t) /\ c = call[t] /\ k = c.key OBVIOUS
<1>3. x = <<b, s>> /\ x[1] = b /\ k \in Keys /\ b \in BucketIds /\ s \in SlotIds /\ Bucket(k) = b
  BY <1>1, <1>2, CallIs DEF Place, Inside, Home, ControlInv, Control
<1>4. x \in Settled /\ KeyAt(x) = k /\ ValueAt(x) = c.val
  <2>1. HasWritten(t) BY <1>1 DEF TableInv, ThreadRight
  <2>2. \A r : <<Home(t), r>> \notin GivenUp BY <1>1, HeldSettled DEF Holding, Inside
  <2> QED BY <1>2, <1>3, <2>1, <2>2 DEF HasWritten, Settled
<1>5. Settled' = Settled /\ \A o : KeyAt(o)' = KeyAt(o) /\ ValueAt(o)' = ValueAt(o)
  <2>1. Step(t) BY DEF Step, Insert
  <2> QED BY <1>1, <2>1, StepOthers, SameTable
<1>6. Commits(t) BY DEF Commits
<1>7. epochs' = [epochs EXCEPT ![b][s] = [epoch |-> current_epoch, ttl |-> c.n]] BY <1>2 DEF Stamp
<1>8. EntryAt(x)' = [val |-> c.val, epoch |-> current_epoch, ttl |-> c.n]
  <2>1. epochs'[x[1]][x[2]] = [epoch |-> current_epoch, ttl |-> c.n] BY <1>3, <1>7 DEF ControlInv, Control
  <2> QED BY <1>4, <1>5, <2>1 DEF EntryAt
<1>9. ASSUME NEW o \in Settled, o # x PROVE EntryAt(o)' = EntryAt(o)
  <2>1. o[1] \in BucketIds /\ o[2] \in SlotIds /\ o = <<o[1], o[2]>> BY PlacesIn DEF Settled
  <2>2. o[1] # b \/ o[2] # s BY <1>3, <1>9, <2>1
  <2>3. epochs'[o[1]][o[2]] = epochs[o[1]][o[2]] BY <1>3, <1>7, <2>1, <2>2 DEF ControlInv, Control
  <2> QED BY <1>5, <2>3 DEF EntryAt
<1>10. PICK lost \in Cache!Victims(k) : Spares(t, lost) BY <1>1, <1>2 DEF CallInv, Pending
<1>11. \A o \in Settled : o[1] = b /\ o # x => store[KeyAt(o)] = EntryAt(o) BY <1>1, <1>2 DEF CallInv, Pending
<1>12. \A j \in lost : j # k /\ Bucket(j) = b
  <2> DEFINE R == Cache!Rivals(k)
             S == {{j} : j \in R}
  <2>1. R = {j \in Keys \ {k} : store[j] # NoEntry /\ Bucket(j) = Bucket(k)} BY <1>3, RivalsIs
  <2>2. Cache!Victims(k) = {{}} \/ Cache!Victims(k) = S BY <1>3, RivalsIs
  <2> HIDE DEF R
  <2>3. lost \subseteq R BY <1>10, <2>2
  <2> QED BY <1>3, <2>1, <2>3
<1> DEFINE F(j) == IF j = k THEN [val |-> c.val, epoch |-> current_epoch, ttl |-> c.n]
                   ELSE IF j \in lost THEN NoEntry ELSE store[j]
<1>13. ASSUME NEW j \in Keys PROVE store'[j] = F(j)
  <2>1. CASE Bucket(j) # b BY <1>2, <1>3, <1>6, <1>12, <2>1, CommitsAre
  <2>2. CASE j = k
    <3>1. store'[k] = EntryAt(x)' BY <1>2, <1>3, <1>4, <1>5, <1>6, CommitsAre
    <3> QED BY <1>8, <2>2, <3>1
  <2>3. CASE Bucket(j) = b /\ j # k /\ j \in lost
    <3>1. \A o \in Settled : KeyAt(o) # j BY <1>2, <1>10, <2>3 DEF Spares
    <3>2. store'[j] = NoEntry BY <1>2, <1>5, <1>6, <2>3, <3>1, CommitsAre
    <3> QED BY <2>3, <3>2
  <2>4. CASE Bucket(j) = b /\ j # k /\ j \notin lost
    <3>1. CASE \E o \in Settled : KeyAt(o) = j
      <4>1. PICK o \in Settled : KeyAt(o) = j BY <3>1
      <4>2. o # x /\ o[1] = b BY <1>4, <2>4, <4>1 DEF TableInv, Filed
      <4>3. store[j] = EntryAt(o) BY <1>11, <4>1, <4>2
      <4>4. store'[j] = EntryAt(o)' BY <1>2, <1>5, <1>6, <2>4, <4>1, CommitsAre
      <4> QED BY <1>9, <2>4, <4>2, <4>3, <4>4
    <3>2. CASE \A o \in Settled : KeyAt(o) # j
      <4>1. store[j] = NoEntry BY <1>2, <1>10, <2>4, <3>2 DEF Spares
      <4>2. store'[j] = NoEntry BY <1>2, <1>5, <1>6, <2>4, <3>2, CommitsAre
      <4> QED BY <2>4, <4>1, <4>2
    <3> QED BY <3>1, <3>2
  <2> QED BY <2>1, <2>2, <2>3, <2>4
<1>14. store' = [j \in Keys |-> F(j)]
  <2>1. store' = [j \in Keys |-> store'[j]] BY <1>2, <1>6, CommitsAre
  <2> HIDE DEF F
  <2> QED BY <1>13, <2>1
<1>15. Op(t) = "insert" /\ res[t] = NoValue BY <1>1 DEF ControlInv, CallsRight, OpsAt, CallInv, Unanswered
<1>16. Stage(t) = "ticked" /\ Stage(t)' = "done" BY <1>1, <1>15 DEF Stage, Op
<1>17. Answered(t, NoValue) BY <1>1, <1>15, <1>16 DEF Answered, Seen
<1> QED BY <1>1, <1>2, <1>10, <1>14, <1>15, <1>16, <1>17, PutIs

(* A removal takes effect when it leaves a tombstone, or finds nothing.    *)
LEMMA RemoveRemoves ==
    ASSUME ControlInv, TableInv, StoreRight, CallInv, ControlInv', TableInv', NEW t \in Threads,
           RemoveFound(t) \/ RemoveMissing(t), Alone(t)
    PROVE  Cache!Remove(t)
<1>1. /\ pc[t] = "match" /\ pc'[t] \in {"idle", "uncount"} /\ Op(t) = "remove"
      /\ UNCHANGED <<call, num_buckets, current_epoch, default_ttl>>
  BY DEF ControlInv, Control, RemoveFound, RemoveMissing, Leave, Goto, table, counters, frame
<1>2. Stage(t) = "called" /\ Stage(t)' = "done" BY <1>1 DEF Stage, Op
<1>3. res = [u \in Threads |-> res[u]] /\ store = [j \in Keys |-> store[j]] BY DEF CallInv
<1>4. PICK b, k : b = Home(t) /\ k = call[t].key OBVIOUS
<1>5. k \in Keys /\ Bucket(k) = b /\ b \in BucketIds BY <1>1, <1>4, CallIs DEF Inside, Home
<1>6. CASE RemoveMissing(t)
  <2>1. Found(t) = {} /\ store' = store /\ res' = [res EXCEPT ![t] = FALSE] BY <1>6 DEF RemoveMissing
  <2>2. store[k] = NoEntry BY <1>1, <1>4, <2>1, HeldEntry DEF Holding, Inside
  <2>3. store' = [store EXCEPT ![k] = NoEntry] BY <1>3, <1>5, <2>1, <2>2
  <2>4. res'[t] = FALSE BY <1>3, <2>1
  <2>5. Answered(t, FALSE) BY <1>1, <1>2, <2>4 DEF Answered, Seen
  <2>6. FALSE = (store[k] # NoEntry) BY <2>2
  <2> QED BY <1>1, <1>2, <1>4, <2>3, <2>5, <2>6, RemoveIs
<1>7. CASE RemoveFound(t)
  <2>1. PICK x : /\ x \in Settled /\ KeyAt(x) = k /\ Settled' = Settled \ {x}
                 /\ \A o \in Settled' : KeyAt(o)' = KeyAt(o) /\ ValueAt(o)' = ValueAt(o)
    BY <1>4, <1>7, RemoveTable
  <2>2. Commits(t) /\ epochs' = epochs /\ res' = [res EXCEPT ![t] = TRUE] BY <1>7 DEF Commits, RemoveFound
  <2>3. store[k] # NoEntry BY <1>1, <1>4, <2>1, HeldEntry DEF Holding, Inside
  <2>4. ~Torn(b) /\ CommittedIn(b) BY <1>1, <1>4, HeldCommitted DEF Holding, Inside
  <2>5. ASSUME NEW j \in Keys PROVE store'[j] = IF j = k THEN NoEntry ELSE store[j]
    <3>1. CASE Bucket(j) # b BY <1>4, <1>5, <2>2, <3>1, CommitsAre
    <3>2. CASE j = k
      <4>1. \A o \in Settled' : KeyAt(o)' # k BY <2>1 DEF TableInv, KeysApart
      <4> QED BY <1>4, <1>5, <2>2, <3>2, <4>1, CommitsAre
    <3>3. CASE Bucket(j) = b /\ j # k
      <4>1. CASE \E o \in Settled : KeyAt(o) = j
        <5>1. PICK o \in Settled : KeyAt(o) = j BY <4>1
        <5>2. o \in Settled' /\ KeyAt(o)' = j /\ o[1] = b BY <2>1, <3>3, <5>1 DEF TableInv, Filed
        <5>3. EntryAt(o)' = EntryAt(o) BY <2>1, <2>2, <5>2 DEF EntryAt
        <5>4. store[j] = EntryAt(o) BY <2>4, <5>1, <5>2 DEF CommittedIn
        <5>5. store'[j] = EntryAt(o)' BY <1>4, <2>2, <3>3, <5>2, CommitsAre
        <5> QED BY <3>3, <5>3, <5>4, <5>5
      <4>2. CASE \A o \in Settled : KeyAt(o) # j
        <5>1. \A o \in Settled' : KeyAt(o)' # j BY <2>1, <4>2
        <5>2. store'[j] = NoEntry BY <1>4, <2>2, <3>3, <5>1, CommitsAre
        <5>3. store[j] = NoEntry BY <2>4, <3>3, <4>2 DEF CommittedIn
        <5> QED BY <3>3, <5>2, <5>3
      <4> QED BY <4>1, <4>2
    <3> QED BY <3>1, <3>2, <3>3
  <2>6. store' = [store EXCEPT ![k] = NoEntry]
    <3>1. store' = [j \in Keys |-> store'[j]] BY <1>4, <2>2, CommitsAre
    <3> QED BY <1>3, <1>5, <2>5, <3>1
  <2>7. res'[t] = TRUE BY <1>3, <2>2
  <2>8. Answered(t, TRUE) BY <1>1, <1>2, <2>7 DEF Answered, Seen
  <2>9. TRUE = (store[k] # NoEntry) BY <2>3
  <2> QED BY <1>1, <1>2, <1>4, <2>6, <2>8, <2>9, RemoveIs
<1> QED BY <1>6, <1>7

(* A resize, done or found done, and for whom.                             *)
LEMMA GrowGrows ==
    ASSUME ControlInv, TableInv, CallInv, NEW t \in Threads, Grow(t) \/ GrowSkip(t), Alone(t)
    PROVE  Cache!Resize(t) \/ Cache!Double(t) \/ UNCHANGED Cache!vars
<1>1. /\ pc[t] = "grow" /\ pc' = [pc EXCEPT ![t] = IF Op(t) = "insert" THEN "tick" ELSE "idle"]
      /\ UNCHANGED <<call, res, store, current_epoch, default_ttl>>
  BY DEF Grow, GrowSkip, AfterGrow, Goto, counters, frame
<1>2. pc'[t] = (IF Op(t) = "insert" THEN "tick" ELSE "idle") /\ Op(t) \in {"insert", "resize"}
  BY <1>1 DEF ControlInv, Control, CallsRight, OpsAt
<1>3. Stage(t) = "called" /\ WantedSize(t) /\ res[t] = NoValue BY <1>1 DEF Stage, CallInv, Unanswered
<1>4. CASE Op(t) = "insert"
  <2>1. Stage(t)' = "called" BY <1>2, <1>4 DEF Stage
  <2>2. Seen(t)' = Seen(t) BY <1>1, <1>2, <1>3, <1>4, <2>1 DEF Seen
  <2>3. \A u \in Threads : Seen(u)' = Seen(u) BY <2>2 DEF Alone
  <2>4. CASE Grow(t)
    <3>1. num_buckets' = 2 * num_buckets BY <1>3, <1>4, <2>4, GrowSize
    <3> QED BY <1>1, <1>3, <1>4, <2>3, <3>1, ResizeIs
  <2>5. CASE GrowSkip(t)
    <3>1. num_buckets' = num_buckets BY <2>5 DEF GrowSkip, table
    <3> QED BY <1>1, <2>3, <3>1, SeesNothing
  <2> QED BY <2>4, <2>5
<1>5. CASE Op(t) = "resize"
  <2>1. Stage(t)' = "done" BY <1>2, <1>5 DEF Stage
  <2>2. Answered(t, NoValue) BY <1>1, <1>2, <1>3, <1>5, <2>1 DEF Answered, Seen
  <2> DEFINE n == call[t].n
             S == {m \in {num_buckets * 2^i : i \in 0 .. n} : n <= m /\ m < 2 * n}
  <2>3. n \in Nat /\ num_buckets \in Nat BY <1>1, CallIs DEF ControlInv, Size
  <2>4. IF num_buckets >= n THEN num_buckets' = num_buckets ELSE num_buckets' \in S
    <3>1. CASE Grow(t)
      <4>1. num_buckets < n /\ num_buckets' \in S BY <1>3, <1>5, <3>1, GrowSize
      <4> HIDE DEF n, S
      <4> QED BY <2>3, <4>1
    <3>2. CASE GrowSkip(t)
      <4>1. num_buckets' = num_buckets /\ num_buckets >= PowerOfTwo(n)
        BY <1>1, <1>3, <1>5, <3>2 DEF GrowSkip, table, AlreadyGrown, WantedSize
      <4>2. PowerOfTwo(n) \in Nat /\ PowerOfTwo(n) >= n BY <2>3, PowerOfTwoIs
      <4> HIDE DEF n, S
      <4>3. num_buckets >= n BY <2>3, <4>1, <4>2
      <4> QED BY <4>1, <4>3
    <3> QED BY <3>1, <3>2
  <2> QED BY <1>1, <1>3, <1>5, <2>2, <2>4, ResizeIs
<1> QED BY <1>2, <1>4, <1>5

(* Every step is a step of the contract or changes nothing it speaks of.   *)
LEMMA NextContract ==
    ControlInv /\ TableInv /\ StoreRight /\ CallInv /\ ControlInv' /\ TableInv' /\ [Next]_vars
        => [Cache!Next]_(Cache!vars)
<1> SUFFICES ASSUME ControlInv, TableInv, StoreRight, CallInv, ControlInv', TableInv', [Next]_vars
             PROVE  Cache!Next \/ UNCHANGED Cache!vars
  OBVIOUS
<1>1. CASE UNCHANGED vars
  <2>1. UNCHANGED <<num_buckets, slots, slab_pool, current_epoch, default_ttl, call, pc, slot, seen, res, store>>
    BY <1>1 DEF vars, table, counters, frame
  <2>2. \A u \in Threads : Seen(u)' = Seen(u)
    BY <2>1 DEF Seen, Stage, Op, Value, Decoded, ValueAt, Home, Bucket
  <2> QED BY <2>1, <2>2, SeesNothing
<1>2. ASSUME NEW t \in Threads, NEW c \in Calls, Begin(t, c) PROVE Cache!Next
  <2>1. Cache!Invoke(t, c) BY <1>2, BeginInvokes
  <2> QED BY <2>1 DEF Cache!Next
<1>3. ASSUME NEW t \in Threads, Step(t) PROVE Cache!Next \/ UNCHANGED Cache!vars
  <2>1. Alone(t) BY <1>3, StepAlone
  <2>2. CASE Hidden(t)
    <3>1. Seen(t)' = Seen(t) /\ UNCHANGED <<store, current_epoch, default_ttl, num_buckets>> BY <2>2, HiddenSeen
    <3>2. \A u \in Threads : Seen(u)' = Seen(u) BY <2>1, <3>1 DEF Alone
    <3> QED BY <3>1, <3>2, SeesNothing
  <2>3. CASE Tick(t) BY <2>1, <2>3, TickTicks DEF Cache!Next
  <2>4. CASE Stamp(t) BY <2>1, <2>4, StampPuts DEF Cache!Next
  <2>5. CASE LookupMiss(t) BY <2>1, <2>5, MissMisses DEF Cache!Next
  <2>6. CASE LookupFound(t) BY <2>1, <2>6, FoundSamples DEF Cache!Next
  <2>7. CASE LookupExpired(t) \/ PeekLive(t) \/ GetLive(t) BY <2>1, <2>7, LookupDecides DEF Cache!Next
  <2>8. CASE RemoveFound(t) \/ RemoveMissing(t) BY <2>1, <2>8, RemoveRemoves DEF Cache!Next
  <2>9. CASE SetTtl(t) BY <2>1, <2>9, SetTtlSets DEF Cache!Next
  <2>10. CASE Grow(t) \/ GrowSkip(t) BY <2>1, <2>10, GrowGrows DEF Cache!Next
  <2> QED BY <1>3, <2>2, <2>3, <2>4, <2>5, <2>6, <2>7, <2>8, <2>9, <2>10
          DEF Step, Insert, Lookup, Remove, Hidden
<1> QED BY <1>1, <1>2, <1>3 DEF Next, Finished

(* At first the contract's map is empty and nobody is in a call.           *)
LEMMA InitContract == Init => Cache!Init
<1> SUFFICES ASSUME Init PROVE Cache!Init OBVIOUS
<1>1. /\ store = [k \in Keys |-> NoEntry] /\ current_epoch = 0 /\ default_ttl = 0 /\ num_buckets = StartBuckets
  BY DEF Init
<1> DEFINE I == [req |-> NoCall, stage |-> "done", sample |-> 0, res |-> NoValue]
           A == [u \in Threads |-> Seen(u)]
<1>2. ASSUME NEW u \in Threads PROVE Seen(u) = I
  <2>1. pc[u] = "idle" /\ call[u] = NoCall /\ res[u] = NoValue BY DEF Init
  <2>2. Stage(u) = "done" BY <2>1 DEF Stage
  <2> QED BY <2>1, <2>2 DEF Seen
<1>3. A = [u \in Threads |-> I]
  <2> HIDE DEF I
  <2> QED BY <1>2
<1>4. Cache!Init <=> /\ store = [k \in Keys |-> NoEntry] /\ current_epoch = 0 /\ default_ttl = 0
                     /\ num_buckets = StartBuckets /\ A = [u \in Threads |-> I]
  BY DEF Cache!Init, Cache!Idle, NoCall, Seen
<1> QED BY <1>1, <1>3, <1>4

(* The concurrent map keeps its contract for any number of threads, keys,  *)
(* buckets and calls: every call takes effect at one instant while it      *)
(* runs.  get and peek return what was last committed for that very key,   *)
(* or nothing, and nothing only if the key was absent or had outlived its  *)
(* lifetime; an insertion costs at most one key, of the same full bucket;  *)
(* a removal says whether there was an entry; resize loses nothing, never  *)
(* shrinks the table and never needs to grow it further than asked.        *)
THEOREM SharedImplementsCache == Spec => ImplementsSharedCache
<1>1. Init => Cache!Init BY InitContract
<1>2. ControlInv /\ TableInv /\ StoreRight /\ CallInv /\ ControlInv' /\ TableInv' /\ [Next]_vars
        => [Cache!Next]_(Cache!vars)
  BY NextContract
<1> QED BY <1>1, <1>2, SharedControl, SharedTable, SharedStore, SharedCalls, PTL
        DEF Spec, ImplementsSharedCache, Cache!Spec
=============================================================================
