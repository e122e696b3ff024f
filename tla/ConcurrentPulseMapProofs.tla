---------------------- MODULE ConcurrentPulseMapProofs ----------------------
(***************************************************************************)
(* Proofs about ConcurrentPulseMap for every set of threads, keys, values  *)
(* and calls, every hash function and every size of the table, its buckets *)
(* and the access buffer.                                                  *)
(***************************************************************************)
EXTENDS ConcurrentPulseMap, MapLemmas

-----------------------------------------------------------------------------
(* The control state: which call a thread is in, what it holds there, and  *)
(* which places the queued hits name.                                      *)
Inside  == {"drain", "apply", "lock", "match", "write", "stamp", "settle",
            "age", "push", "copy", "uncount"}
Holding == Inside \ {"drain", "apply", "lock"}

Size == num_buckets \in Nat /\ num_buckets > 0 /\ \E i \in 0 .. num_buckets : num_buckets = 2^i

Control ==
    /\ pc \in [Threads -> Labels]
    /\ slot \in [Threads -> SlotIds]
    /\ how \in [Threads -> {"none", "update", "fresh", "evict"}]
    /\ seen \in [Threads -> Nat] /\ left \in [Threads -> Nat]
    /\ call \in [Threads -> Calls \cup {NoCall}]
    /\ made \in 0 .. MaxCalls
    /\ current_epoch \in Nat /\ default_ttl \in Nat /\ eviction_count \in Nat
    /\ epochs \in [BucketIds -> [SlotIds -> [epoch : Nat, ttl : Nat]]]

OpsAt(l) ==
    CASE l \in {"check", "tick", "drain", "apply", "write", "stamp", "settle"} -> {"insert"}
      [] l \in {"enter", "lock", "match"} -> {"insert", "get", "peek", "remove"}
      [] l = "age" -> {"get", "peek"}
      [] l \in {"push", "copy"} -> {"get"}
      [] l = "uncount" -> {"remove"}
      [] l = "set_ttl" -> {"set_ttl"}
      [] l = "grow" -> {"insert", "resize"}
      [] OTHER -> {}

CallsRight == \A t \in Threads : pc[t] # "idle" => call[t] \in Calls /\ Op(t) \in OpsAt(pc[t])

Locked ==
    /\ locks \in [BucketIds -> Threads \cup {NoThread}]
    /\ slab_holder \in Threads \cup {NoThread}
    /\ readers = {t \in Threads : pc[t] \in Inside}
    /\ \A b \in BucketIds, t \in Threads : locks[b] = t <=> pc[t] \in Holding /\ Home(t) = b

Places == BucketIds \X SlotIds \X {num_buckets}

Hinted ==
    /\ buffer \in Seq(Places)
    /\ hand \in [Threads -> {<<>>} \cup {<<e>> : e \in Places}]
    /\ \A t \in Threads : hand[t] # <<>> => pc[t] = "apply"
    /\ \A t \in Threads : pc[t] = "apply" => left[t] > 0

ControlInv == Size /\ Control /\ CallsRight /\ Locked /\ Hinted
-----------------------------------------------------------------------------
(* The arguments of a call in progress.                                    *)
LEMMA CallIs ==
    ASSUME ControlInv, NEW t \in Threads
    PROVE  /\ pc[t] # "idle" => call[t] \in Calls /\ call[t].n \in Nat
           /\ pc[t] \in Inside \cup {"enter"} => call[t].key \in Keys /\ Home(t) \in BucketIds
           /\ pc[t] \in Inside /\ Op(t) = "insert" => call[t].val \in Values
<1>1. ASSUME pc[t] # "idle" PROVE call[t] \in Calls /\ call[t].n \in Nat /\ Op(t) \in OpsAt(pc[t])
  BY <1>1, SharedAssumption DEF ControlInv, CallsRight
<1>2. ASSUME pc[t] \in Inside \cup {"enter"} PROVE Op(t) \in {"insert", "get", "peek", "remove"}
  BY <1>1, <1>2 DEF Inside, OpsAt
<1>3. ASSUME pc[t] \in Inside \cup {"enter"} PROVE call[t].key \in Keys
  BY <1>1, <1>2, <1>3, SharedAssumption DEF Inside, Op
<1>4. ASSUME pc[t] \in Inside \cup {"enter"} PROVE Home(t) \in BucketIds
  <2>1. Hash[call[t].key] \in Nat BY <1>3, <1>4, SharedAssumption
  <2>2. num_buckets \in Nat /\ num_buckets > 0 BY DEF ControlInv, Size
  <2> QED BY <2>1, <2>2, DivMod DEF Home, Bucket, Index, BucketIds
<1>5. ASSUME pc[t] \in Inside, Op(t) = "insert" PROVE call[t].val \in Values
  BY <1>1, <1>5, SharedAssumption DEF Inside, Op
<1> QED BY <1>1, <1>3, <1>4, <1>5

(* Locks: a step that neither takes nor drops one.                         *)
LEMMA LockedKept ==
    ASSUME ControlInv, NEW t \in Threads, NEW l, pc' = [pc EXCEPT ![t] = l],
           l \in Inside <=> pc[t] \in Inside, l \in Holding <=> pc[t] \in Holding,
           UNCHANGED <<num_buckets, locks, readers>>,
           slab_holder' \in Threads \cup {NoThread},
           \A u \in Threads : pc'[u] \in Holding => call'[u] = call[u]
    PROVE  Locked'
<1>1. pc \in [Threads -> Labels] /\ Locked BY DEF ControlInv, Control
<1>2. \A u \in Threads : (pc'[u] \in Inside <=> pc[u] \in Inside)
                         /\ (pc'[u] \in Holding <=> pc[u] \in Holding)
  BY <1>1
<1>3. \A u \in Threads : pc'[u] \in Holding => Home(u)' = Home(u) BY DEF Home, Bucket
<1>4. BucketIds' = BucketIds BY DEF BucketIds
<1>5. readers' = {u \in Threads : pc'[u] \in Inside} BY <1>1, <1>2 DEF Locked
<1>6. \A b \in BucketIds', u \in Threads : locks'[b] = u <=> pc'[u] \in Holding /\ Home(u)' = b
  BY <1>1, <1>2, <1>3, <1>4 DEF Locked
<1>7. locks' \in [BucketIds' -> Threads \cup {NoThread}] BY <1>1, <1>4 DEF Locked
<1> QED BY <1>5, <1>6, <1>7 DEF Locked

(* A call returns and its guards are dropped.                              *)
LEMMA LockedLeft ==
    ASSUME ControlInv, NEW t \in Threads, pc[t] \in Holding, Leave(t), UNCHANGED <<num_buckets, call>>
    PROVE  Locked'
<1>1. pc \in [Threads -> Labels] /\ Locked BY DEF ControlInv, Control
<1>2. Home(t) \in BucketIds BY CallIs DEF Holding
<1>3. /\ pc' = [pc EXCEPT ![t] = "idle"] /\ locks' = [locks EXCEPT ![Home(t)] = NoThread]
      /\ readers' = readers \ {t} /\ slab_holder' \in Threads \cup {NoThread}
  BY <1>1 DEF Leave, Goto, Locked
<1>4. BucketIds' = BucketIds /\ \A u : Home(u)' = Home(u) BY DEF BucketIds, Home, Bucket
<1>5. pc'[t] = "idle" /\ \A u \in Threads \ {t} : pc'[u] = pc[u] BY <1>1, <1>3
<1>6. "idle" \notin Inside /\ "idle" \notin Holding BY DEF Inside, Holding
<1>7. readers' = {u \in Threads : pc'[u] \in Inside} BY <1>1, <1>3, <1>5, <1>6 DEF Locked
<1>8. locks' \in [BucketIds' -> Threads \cup {NoThread}] BY <1>1, <1>3, <1>4 DEF Locked
<1>9. ASSUME NEW b \in BucketIds, NEW u \in Threads
      PROVE  locks'[b] = u <=> pc'[u] \in Holding /\ Home(u) = b
  <2>1. locks[b] = u <=> pc[u] \in Holding /\ Home(u) = b BY <1>1 DEF Locked
  <2>2. locks[b] = t <=> Home(t) = b BY <1>1 DEF Locked
  <2>3. u # NoThread BY SharedAssumption
  <2>4. locks'[b] = IF b = Home(t) THEN NoThread ELSE locks[b] BY <1>1, <1>3 DEF Locked
  <2>5. CASE u = t BY <2>2, <2>3, <2>4, <2>5, <1>5, <1>6
  <2>6. CASE u # t
    <3>1. pc'[u] = pc[u] BY <2>6, <1>5
    <3>2. b = Home(t) => locks[b] = t BY <2>2
    <3> QED BY <2>1, <2>3, <2>4, <2>6, <3>1, <3>2
  <2> QED BY <2>5, <2>6
<1> QED BY <1>3, <1>4, <1>7, <1>8, <1>9 DEF Locked

(* A bucket's spinlock is taken.                                           *)
LEMMA LockedAcquired ==
    ASSUME ControlInv, NEW t \in Threads, Acquire(t)
    PROVE  Locked'
<1>1. pc \in [Threads -> Labels] /\ Locked BY DEF ControlInv, Control
<1>2. /\ pc[t] = "lock" /\ pc' = [pc EXCEPT ![t] = "match"] /\ locks[Home(t)] = NoThread
      /\ locks' = [locks EXCEPT ![Home(t)] = t] /\ readers' = readers
      /\ slab_holder' = slab_holder /\ num_buckets' = num_buckets /\ call' = call
  BY DEF Acquire, Goto, table, frame
<1>3. Home(t) \in BucketIds BY <1>2, CallIs DEF Inside
<1>4. BucketIds' = BucketIds /\ \A u : Home(u)' = Home(u) BY <1>2 DEF BucketIds, Home, Bucket
<1>5. pc'[t] = "match" /\ \A u \in Threads \ {t} : pc'[u] = pc[u] BY <1>1, <1>2
<1>6. /\ "match" \in Inside /\ "match" \in Holding /\ "lock" \in Inside /\ "lock" \notin Holding
  BY DEF Inside, Holding
<1>7. readers' = {u \in Threads : pc'[u] \in Inside} BY <1>1, <1>2, <1>5, <1>6 DEF Locked
<1>8. locks' \in [BucketIds' -> Threads \cup {NoThread}] BY <1>1, <1>2, <1>4 DEF Locked
<1>9. ASSUME NEW b \in BucketIds, NEW u \in Threads
      PROVE  locks'[b] = u <=> pc'[u] \in Holding /\ Home(u) = b
  <2>1. locks[b] = u <=> pc[u] \in Holding /\ Home(u) = b BY <1>1 DEF Locked
  <2>2. locks'[b] = IF b = Home(t) THEN t ELSE locks[b] BY <1>1, <1>2 DEF Locked
  <2>3. u # NoThread BY SharedAssumption
  <2>4. CASE u = t BY <2>1, <2>2, <2>4, <1>2, <1>5, <1>6
  <2>5. CASE u # t
    <3>1. pc'[u] = pc[u] BY <2>5, <1>5
    <3>2. b = Home(t) => locks[b] # u BY <2>3, <1>2
    <3> QED BY <2>1, <2>2, <2>5, <3>1, <3>2
  <2> QED BY <2>4, <2>5
<1> QED BY <1>1, <1>2, <1>4, <1>7, <1>8, <1>9 DEF Locked

(* The table is entered for reading.                                       *)
LEMMA LockedEntered ==
    ASSUME ControlInv, NEW t \in Threads, Enter(t)
    PROVE  Locked'
<1>1. pc \in [Threads -> Labels] /\ Locked BY DEF ControlInv, Control
<1>2. PICK l \in {"drain", "lock"} :
         /\ pc[t] = "enter" /\ pc' = [pc EXCEPT ![t] = l] /\ readers' = readers \cup {t}
         /\ UNCHANGED <<num_buckets, call, locks, slab_holder>>
  BY DEF Enter, Goto, table, frame
<1>3. BucketIds' = BucketIds /\ \A u : Home(u)' = Home(u) BY <1>2 DEF BucketIds, Home, Bucket
<1>4. /\ l \in Inside /\ l \notin Holding /\ "enter" \notin Inside /\ "enter" \notin Holding
  BY DEF Inside, Holding
<1>5. pc'[t] = l /\ \A u \in Threads \ {t} : pc'[u] = pc[u] BY <1>1, <1>2
<1>6. readers' = {u \in Threads : pc'[u] \in Inside} BY <1>1, <1>2, <1>4, <1>5 DEF Locked
<1>7. \A u \in Threads : pc'[u] \in Holding <=> pc[u] \in Holding BY <1>2, <1>4, <1>5
<1> QED BY <1>1, <1>2, <1>3, <1>6, <1>7 DEF Locked

(* Every step but a resize.                                                *)
LEMMA LockedStep ==
    ASSUME ControlInv, NEW t \in Threads, Step(t), ~Grow(t)
    PROVE  Locked'
<1>0. slab_holder \in Threads \cup {NoThread} BY DEF ControlInv, Locked
<1> USE DEF Goto, frame, guards, table, AfterGrow, Inside, Holding, TargetGuard
<1>1. CASE Enter(t) BY <1>1, LockedEntered DEF Enter
<1>2. CASE Acquire(t) BY <1>2, LockedAcquired DEF Acquire
<1>3. CASE CheckLoad(t) BY <1>3, <1>0, LockedKept DEF CheckLoad
<1>4. CASE Tick(t) BY <1>4, <1>0, LockedKept DEF Tick
<1>5. CASE DrainTake(t) BY <1>5, <1>0, LockedKept DEF DrainTake
<1>6. CASE DrainEnd(t) BY <1>6, <1>0, LockedKept DEF DrainEnd
<1>7. CASE Apply(t) BY <1>7, <1>0, LockedKept DEF Apply
<1>8. CASE InsertMatch(t) BY <1>8, <1>0, LockedKept DEF InsertMatch
<1>9. CASE Write(t) BY <1>9, <1>0, LockedKept DEF Write
<1>10. CASE Stamp(t) BY <1>10, <1>0, LockedKept DEF Stamp
<1>11. CASE InsertEnd(t) BY <1>11, LockedLeft DEF InsertEnd
<1>12. CASE LookupMiss(t) BY <1>12, LockedLeft DEF LookupMiss
<1>13. CASE LookupFound(t) BY <1>13, <1>0, LockedKept DEF LookupFound
<1>14. CASE LookupExpired(t) BY <1>14, LockedLeft DEF LookupExpired
<1>15. CASE PeekLive(t) BY <1>15, LockedLeft DEF PeekLive
<1>16. CASE GetLive(t) BY <1>16, <1>0, LockedKept DEF GetLive
<1>17. CASE GetPush(t) BY <1>17, <1>0, LockedKept DEF GetPush
<1>18. CASE GetCopy(t) BY <1>18, LockedLeft DEF GetCopy
<1>19. CASE RemoveFound(t) BY <1>19, <1>0, LockedKept DEF RemoveFound
<1>20. CASE RemoveEnd(t) BY <1>20, LockedLeft DEF RemoveEnd
<1>21. CASE RemoveMissing(t) BY <1>21, LockedLeft DEF RemoveMissing
<1>22. CASE SetTtl(t) BY <1>22, <1>0, LockedKept DEF SetTtl
<1>23. CASE GrowSkip(t) BY <1>23, <1>0, LockedKept DEF GrowSkip
<1> QED BY <1>1, <1>2, <1>3, <1>4, <1>5, <1>6, <1>7, <1>8, <1>9, <1>10, <1>11, <1>12, <1>13,
           <1>14, <1>15, <1>16, <1>17, <1>18, <1>19, <1>20, <1>21, <1>22, <1>23
        DEF Step, Insert, Lookup, Remove

(* Threads are where their calls can take them.                            *)
LEMMA CallsRightStep ==
    ASSUME ControlInv, NEW t \in Threads, Step(t)
    PROVE  CallsRight'
<1> USE DEF ControlInv, Control, CallsRight, Goto, Op, Leave, OpsAt, frame, AfterGrow
<1>1. CASE Enter(t) BY <1>1 DEF Enter
<1>2. CASE Acquire(t) BY <1>2 DEF Acquire
<1>3. CASE CheckLoad(t) BY <1>3 DEF CheckLoad
<1>4. CASE Tick(t) BY <1>4 DEF Tick
<1>5. CASE DrainTake(t) BY <1>5 DEF DrainTake
<1>6. CASE DrainEnd(t) BY <1>6 DEF DrainEnd
<1>7. CASE Apply(t) BY <1>7 DEF Apply
<1>8. CASE InsertMatch(t) BY <1>8 DEF InsertMatch
<1>9. CASE Write(t) BY <1>9 DEF Write
<1>10. CASE Stamp(t) BY <1>10 DEF Stamp
<1>11. CASE InsertEnd(t) BY <1>11 DEF InsertEnd
<1>12. CASE LookupMiss(t) BY <1>12 DEF LookupMiss
<1>13. CASE LookupFound(t) BY <1>13 DEF LookupFound
<1>14. CASE LookupExpired(t) BY <1>14 DEF LookupExpired
<1>15. CASE PeekLive(t) BY <1>15 DEF PeekLive
<1>16. CASE GetLive(t) BY <1>16 DEF GetLive
<1>17. CASE GetPush(t) BY <1>17 DEF GetPush
<1>18. CASE GetCopy(t) BY <1>18 DEF GetCopy
<1>19. CASE RemoveFound(t) BY <1>19 DEF RemoveFound
<1>20. CASE RemoveEnd(t) BY <1>20 DEF RemoveEnd
<1>21. CASE RemoveMissing(t) BY <1>21 DEF RemoveMissing
<1>22. CASE SetTtl(t) BY <1>22 DEF SetTtl
<1>23. CASE GrowSkip(t) BY <1>23 DEF GrowSkip
<1>24. CASE Grow(t) BY <1>24 DEF Grow
<1> QED BY <1>1, <1>2, <1>3, <1>4, <1>5, <1>6, <1>7, <1>8, <1>9, <1>10, <1>11, <1>12, <1>13,
           <1>14, <1>15, <1>16, <1>17, <1>18, <1>19, <1>20, <1>21, <1>22, <1>23, <1>24
        DEF Step, Insert, Lookup, Remove

(* Slots that a search or a choice yields are slots of a bucket.           *)
LEMMA ChoicesIn ==
    ASSUME NEW t \in Threads
    PROVE  /\ Found(t) \subseteq SlotIds
           /\ Target(t)[2] \subseteq SlotIds /\ Target(t)[1] \in {"update", "fresh", "evict"}
<1>1. Found(t) \subseteq SlotIds
  BY DEF Found, SlotOf, First, MatchMask, FullSlots
<1>2. FindFreeSlot(meta[Home(t)]) \subseteq SlotIds BY DEF FindFreeSlot, First
<1>3. FindEvictTarget(meta[Home(t)]) \subseteq SlotIds BY DEF FindEvictTarget, First, FullSlots
<1>4. Target(t) \in {<<"update", Found(t)>>, <<"fresh", FindFreeSlot(meta[Home(t)])>>,
                     <<"evict", FindEvictTarget(meta[Home(t)])>>}
  BY DEF Target
<1> QED BY <1>1, <1>2, <1>3, <1>4

(* Only a resize changes the layout; a call does not change its arguments. *)
LEMMA StepFrame ==
    ASSUME NEW t \in Threads, Step(t), ~Grow(t)
    PROVE  /\ num_buckets' = num_buckets /\ call' = call
           /\ BucketIds' = BucketIds /\ \A u : Home(u)' = Home(u)
<1>1. num_buckets' = num_buckets /\ call' = call
  BY DEF Step, Insert, Lookup, Remove, Enter, Acquire, CheckLoad, Tick, DrainTake, DrainEnd,
         Apply, InsertMatch, Write, Stamp, InsertEnd, LookupMiss, LookupFound, LookupExpired,
         PeekLive, GetLive, GetPush, GetCopy, RemoveFound, RemoveEnd, RemoveMissing, SetTtl,
         GrowSkip, table, frame
<1> QED BY <1>1 DEF BucketIds, Home, Bucket

(* Registers keep their types.                                             *)
LEMMA ControlStep ==
    ASSUME ControlInv, NEW t \in Threads, Step(t), ~Grow(t)
    PROVE  Control'
<1>a. ControlInv /\ Size BY DEF ControlInv
<1>b. BucketIds' = BucketIds BY StepFrame
<1>0. DrainBatch \in Nat /\ 0 \in SlotIds BY SharedAssumption, MetaAssumption DEF SlotIds
<1> USE <1>0, <1>b
<1> USE DEF ControlInv, Control, table, Goto, Leave, frame, counters, registers, AfterGrow, Labels
<1>1. CASE Enter(t) BY <1>1 DEF Enter
<1>2. CASE Acquire(t) BY <1>2 DEF Acquire
<1>3. CASE CheckLoad(t)
  <2>1. 2 * num_buckets \in Nat BY <1>a DEF Size
  <2> DEFINE w == 2 * num_buckets
  <2>2. seen' = [seen EXCEPT ![t] = w] \/ seen' = seen BY <1>3 DEF CheckLoad
  <2>3. w \in Nat BY <2>1
  <2> HIDE DEF w
  <2>4. seen' \in [Threads -> Nat] BY <2>2, <2>3
  <2> QED BY <1>3, <2>4 DEF CheckLoad
<1>4. CASE Tick(t) BY <1>4 DEF Tick
<1>5. CASE DrainTake(t) BY <1>5 DEF DrainTake
<1>6. CASE DrainEnd(t) BY <1>6 DEF DrainEnd
<1>7. CASE Apply(t)
  <2>1. left[t] \in Nat /\ left[t] > 0 BY <1>7 DEF Apply, Hinted
  <2> QED BY <1>7, <2>1 DEF Apply
<1>8. CASE InsertMatch(t) BY <1>8, ChoicesIn DEF InsertMatch
<1>9. CASE Write(t) BY <1>9 DEF Write
<1>10. CASE Stamp(t)
  <2>1. Home(t) \in BucketIds /\ call[t].n \in Nat BY <1>10, <1>a, CallIs DEF Stamp, Inside
  <2> QED BY <1>10, <2>1 DEF Stamp
<1>11. CASE InsertEnd(t) BY <1>11 DEF InsertEnd
<1>12. CASE LookupMiss(t) BY <1>12 DEF LookupMiss
<1>13. CASE LookupFound(t)
  <2>1. Home(t) \in BucketIds BY <1>13, <1>a, CallIs DEF LookupFound, Inside
  <2>2. \A s \in Found(t) : s \in SlotIds /\ epochs[Home(t)][s].ttl \in Nat BY <2>1, ChoicesIn
  <2> QED BY <1>13, <2>2 DEF LookupFound
<1>14. CASE LookupExpired(t) BY <1>14 DEF LookupExpired
<1>15. CASE PeekLive(t) BY <1>15 DEF PeekLive
<1>16. CASE GetLive(t) BY <1>16 DEF GetLive
<1>17. CASE GetPush(t) BY <1>17 DEF GetPush
<1>18. CASE GetCopy(t) BY <1>18 DEF GetCopy
<1>19. CASE RemoveFound(t) BY <1>19 DEF RemoveFound
<1>20. CASE RemoveEnd(t) BY <1>20 DEF RemoveEnd
<1>21. CASE RemoveMissing(t) BY <1>21 DEF RemoveMissing
<1>22. CASE SetTtl(t)
  <2>1. call[t].n \in Nat BY <1>22, <1>a, CallIs DEF SetTtl
  <2> QED BY <1>22, <2>1 DEF SetTtl
<1>23. CASE GrowSkip(t) BY <1>23 DEF GrowSkip
<1> QED BY <1>1, <1>2, <1>3, <1>4, <1>5, <1>6, <1>7, <1>8, <1>9, <1>10, <1>11, <1>12, <1>13,
           <1>14, <1>15, <1>16, <1>17, <1>18, <1>19, <1>20, <1>21, <1>22, <1>23
        DEF Step, Insert, Lookup, Remove

(* Hits in the queue and in hand name places of the present layout.        *)
LEMMA HintedStep ==
    ASSUME ControlInv, NEW t \in Threads, Step(t), ~Grow(t)
    PROVE  Hinted'
<1>a. ControlInv BY DEF ControlInv
<1>0. Places' = Places BY StepFrame DEF Places
<1> USE DEF ControlInv, Control, Hinted, Goto, Leave, frame, hints, registers, AfterGrow
<1>1. CASE Enter(t) BY <1>1, <1>0 DEF Enter
<1>2. CASE Acquire(t) BY <1>2, <1>0 DEF Acquire
<1>3. CASE CheckLoad(t) BY <1>3, <1>0 DEF CheckLoad
<1>4. CASE Tick(t) BY <1>4, <1>0 DEF Tick
<1>5. CASE DrainTake(t)
  <2>1. /\ buffer # <<>> /\ buffer' = Tail(buffer) /\ hand' = [hand EXCEPT ![t] = <<Head(buffer)>>]
        /\ pc' = [pc EXCEPT ![t] = "apply"] /\ left' = left /\ left[t] > 0
    BY <1>5 DEF DrainTake, Hints!Take
  <2>2. buffer' \in Seq(Places) /\ Head(buffer) \in Places BY <2>1
  <2> QED BY <2>1, <2>2, <1>0
<1>6. CASE DrainEnd(t) BY <1>6, <1>0 DEF DrainEnd
<1>7. CASE Apply(t)
  <2>1. /\ buffer' = buffer /\ hand' = [hand EXCEPT ![t] = <<>>]
        /\ pc' = [pc EXCEPT ![t] = "drain"] /\ left' = [left EXCEPT ![t] = left[t] - 1]
    BY <1>7 DEF Apply, Hints!Deliver
  <2> QED BY <2>1, <1>0
<1>8. CASE InsertMatch(t) BY <1>8, <1>0 DEF InsertMatch
<1>9. CASE Write(t) BY <1>9, <1>0 DEF Write
<1>10. CASE Stamp(t) BY <1>10, <1>0 DEF Stamp
<1>11. CASE InsertEnd(t) BY <1>11, <1>0 DEF InsertEnd
<1>12. CASE LookupMiss(t) BY <1>12, <1>0 DEF LookupMiss
<1>13. CASE LookupFound(t) BY <1>13, <1>0 DEF LookupFound
<1>14. CASE LookupExpired(t) BY <1>14, <1>0 DEF LookupExpired
<1>15. CASE PeekLive(t) BY <1>15, <1>0 DEF PeekLive
<1>16. CASE GetLive(t) BY <1>16, <1>0 DEF GetLive
<1>17. CASE GetPush(t)
  <2>1. pc[t] = "push" /\ pc' = [pc EXCEPT ![t] = "copy"] /\ left' = left BY <1>17 DEF GetPush
  <2> DEFINE e == <<Home(t), slot[t], num_buckets>>
  <2>2. hand' = hand /\ (buffer' = buffer \/ buffer' = Append(buffer, e))
    BY <1>17 DEF GetPush, Hints!Accept
  <2>3. Home(t) \in BucketIds BY <1>a, <2>1, CallIs DEF Inside
  <2>4. e \in Places BY <2>3 DEF Places
  <2> HIDE DEF e
  <2>5. Append(buffer, e) \in Seq(Places)
    <3> DEFINE q == buffer
    <3>1. q \in Seq(Places) OBVIOUS
    <3> HIDE DEF q
    <3>2. Append(q, e) \in Seq(Places) BY <2>4, <3>1
    <3> QED BY <3>2 DEF q
  <2>6. buffer' \in Seq(Places) BY <2>2, <2>5
  <2> QED BY <2>1, <2>2, <2>6, <1>0
<1>18. CASE GetCopy(t) BY <1>18, <1>0 DEF GetCopy
<1>19. CASE RemoveFound(t) BY <1>19, <1>0 DEF RemoveFound
<1>20. CASE RemoveEnd(t) BY <1>20, <1>0 DEF RemoveEnd
<1>21. CASE RemoveMissing(t) BY <1>21, <1>0 DEF RemoveMissing
<1>22. CASE SetTtl(t) BY <1>22, <1>0 DEF SetTtl
<1>23. CASE GrowSkip(t) BY <1>23, <1>0 DEF GrowSkip
<1> QED BY <1>1, <1>2, <1>3, <1>4, <1>5, <1>6, <1>7, <1>8, <1>9, <1>10, <1>11, <1>12, <1>13,
           <1>14, <1>15, <1>16, <1>17, <1>18, <1>19, <1>20, <1>21, <1>22, <1>23
        DEF Step, Insert, Lookup, Remove

-----------------------------------------------------------------------------
(* Sizes.  next_power_of_two yields the least power of two that suffices.  *)
LEMMA PowerOfTwoIs ==
    ASSUME NEW n \in Nat
    PROVE  /\ PowerOfTwo(n) \in Nat /\ PowerOfTwo(n) >= n
           /\ \E i \in 0 .. n : PowerOfTwo(n) = 2^i
           /\ \A i \in 0 .. n : 2^i >= n => PowerOfTwo(n) <= 2^i
<1> DEFINE S == {2^i : i \in 0 .. n}
           T == {p \in S : p >= n}
           Good(p) == p >= n /\ \A i \in 0 .. n : 2^i >= n => p <= 2^i
<1>1. \A i \in 0 .. n : 2^i \in Nat BY PowerIs
<1>2. S \subseteq Nat /\ T \in SUBSET Nat BY <1>1
<1>3. 2^n \in T
  <2>1. n < 2^n /\ 2^n \in Nat BY PowerIs
  <2>2. 2^n \in S OBVIOUS
  <2>3. 2^n >= n BY <2>1
  <2> HIDE DEF S
  <2> QED BY <2>2, <2>3
<1>4. PICK p \in T : \A r \in T : p <= r
  <2> HIDE DEF T
  <2>1. T # {} BY <1>3
  <2> QED BY <2>1, <1>2, Least
<1>5. \A i \in 0 .. n : 2^i >= n => 2^i \in T OBVIOUS
<1>6. p \in S /\ Good(p) BY <1>4, <1>5
<1> HIDE DEF S, T
<1>7. PowerOfTwo(n) = CHOOSE q \in S : Good(q) BY DEF PowerOfTwo, S
<1> HIDE DEF Good
<1>8. PowerOfTwo(n) \in S /\ Good(PowerOfTwo(n)) BY <1>6, <1>7
<1> QED BY <1>2, <1>8 DEF S, Good

(* The new size of a resize is a power of two at which nothing overflows.  *)
LEMMA NewSizeIs ==
    ASSUME NEW w \in Nat, NEW n \in NewSize(PowerOfTwo(w))
    PROVE  /\ n \in Nat /\ n > 0 /\ \E i \in 0 .. n : n = 2^i
           /\ FitsIn(n)
<1> DEFINE P == PowerOfTwo(w)
<1>1. PICK j \in 0 .. MaxDoublings : n = P * 2^j BY DEF NewSize
<1>2. FitsIn(n) BY DEF NewSize
<1>3. PICK i \in 0 .. w : P = 2^i BY PowerOfTwoIs
<1>4. i \in Nat /\ j \in Nat /\ i + j \in Nat BY SharedAssumption
<1>5. n = 2^(i + j) BY <1>1, <1>3, <1>4, PowerTimes
<1> DEFINE e == i + j
<1>6. e \in Nat /\ n = 2^e BY <1>4, <1>5
<1> HIDE DEF e
<1>7. n \in Nat /\ e < n BY <1>6, PowerIs
<1> QED BY <1>2, <1>6, <1>7

(* The fields of the table that resize builds.                             *)
Spilled == {p \in Occupied : ~Fits(KeyAt(p), ValueAt(p))}

NewSlot(p) == IF Fits(KeyAt(p), ValueAt(p)) THEN InlineSlot(KeyAt(p), ValueAt(p))
              ELSE SlabSlot(KeyAt(p), Rank(p, Spilled) + 1)

NewWord(n, b) ==
    [state |-> [s \in SlotIds |-> IF Moved(n, b, s) = {} THEN "Empty" ELSE "Full"],
     h2 |-> [s \in SlotIds |-> IF Moved(n, b, s) = {} THEN 0 ELSE H2[KeyAt(The(Moved(n, b, s)))]],
     freq |-> [s \in SlotIds |-> 0],
     recency |-> [s \in SlotIds |-> IF Moved(n, b, s) = {} THEN 0 ELSE 1]]

NewEntry(i) == LET p == The({q \in Spilled : Rank(q, Spilled) = i - 1})
               IN  [key |-> KeyAt(p), val |-> ValueAt(p)]

(* What Rehashed puts where.                                               *)
LEMMA RehashedIs ==
    ASSUME NEW n
    PROVE  LET new == Rehashed(n)
               ids == 0 .. (n - 1)
           IN  /\ new.meta = [b \in ids |-> NewWord(n, b)]
               /\ new.slots = [b \in ids |-> [s \in SlotIds |->
                     IF Moved(n, b, s) = {} THEN EmptySlot ELSE NewSlot(The(Moved(n, b, s)))]]
               /\ new.epochs = [b \in ids |-> [s \in SlotIds |->
                     IF Moved(n, b, s) = {} THEN [epoch |-> 0, ttl |-> 0]
                     ELSE epochs[The(Moved(n, b, s))[1]][The(Moved(n, b, s))[2]]]]
               /\ new.pool = [entries |-> [i \in 1 .. Cardinality(Spilled) |-> NewEntry(i)],
                              free |-> <<>>]
BY DEF Rehashed, NewWord, NewSlot, NewEntry, Spilled

(* An entry that moves to a place comes from an occupied one.              *)
LEMMA TheMoved ==
    ASSUME NEW n, NEW b, NEW s, Moved(n, b, s) # {}
    PROVE  /\ The(Moved(n, b, s)) \in Moved(n, b, s)
           /\ The(Moved(n, b, s)) \in Occupied
           /\ The(Moved(n, b, s))[1] \in BucketIds /\ The(Moved(n, b, s))[2] \in SlotIds
<1> DEFINE M == Moved(n, b, s)
           p == The(M)
<1>1. p \in M BY DEF The
<1>2. p \in Occupied BY <1>1 DEF Moved, MovesTo
<1> HIDE DEF p
<1>3. p[1] \in BucketIds /\ p[2] \in SlotIds BY <1>2 DEF Occupied
<1> QED BY <1>1, <1>2, <1>3 DEF p

(* A resize keeps the control state right: it runs when nobody is inside.  *)
LEMMA GrowControl ==
    ASSUME ControlInv, NEW t \in Threads, Grow(t)
    PROVE  ControlInv'
<1>1. PICK n \in NewSize(PowerOfTwo(seen[t])) :
         /\ num_buckets' = n /\ epochs' = Rehashed(n).epochs
         /\ locks' = [b \in 0 .. (n - 1) |-> NoThread]
  BY DEF Grow
<1>2. /\ pc[t] = "grow" /\ readers = {} /\ buffer' = <<>> /\ AfterGrow(t)
      /\ UNCHANGED <<eviction_count, current_epoch, default_ttl, readers, slab_holder,
                     hand, call, made, slot, how, left>>
  BY DEF Grow, Cleared, frame
<1>3. Size'
  <2>1. seen[t] \in Nat BY DEF ControlInv, Control
  <2> QED BY <2>1, <1>1, NewSizeIs DEF Size
<1>4. epochs' \in [BucketIds' -> [SlotIds -> [epoch : Nat, ttl : Nat]]]
  <2>1. BucketIds' = 0 .. (n - 1) BY <1>1 DEF BucketIds
  <2>2. epochs' = [b \in 0 .. (n - 1) |-> [s \in SlotIds |->
                     IF Moved(n, b, s) = {} THEN [epoch |-> 0, ttl |-> 0]
                     ELSE epochs[The(Moved(n, b, s))[1]][The(Moved(n, b, s))[2]]]]
    BY <1>1, RehashedIs
  <2>3. ASSUME NEW b \in 0 .. (n - 1), NEW s \in SlotIds
        PROVE  epochs'[b][s] \in [epoch : Nat, ttl : Nat]
    <3>1. CASE Moved(n, b, s) = {} BY <2>2, <3>1
    <3>2. CASE Moved(n, b, s) # {}
      <4>1. epochs[The(Moved(n, b, s))[1]][The(Moved(n, b, s))[2]] \in [epoch : Nat, ttl : Nat]
        BY <3>2, TheMoved DEF ControlInv, Control
      <4> QED BY <2>2, <3>2, <4>1
    <3> QED BY <3>1, <3>2
  <2> QED BY <2>1, <2>2, <2>3
<1>5. /\ pc' \in [Threads -> Labels] /\ seen' \in [Threads -> Nat]
      /\ pc'[t] \in {"tick", "idle"} /\ \A u \in Threads \ {t} : pc'[u] = pc[u]
  BY <1>2 DEF ControlInv, Control, AfterGrow, Goto, Labels
<1>6. Control' BY <1>2, <1>4, <1>5 DEF ControlInv, Control
<1>7. CallsRight' BY CallsRightStep DEF Step
<1>8. \A u \in Threads : pc[u] \notin Inside BY <1>2 DEF ControlInv, Locked
<1>9. \A u \in Threads : pc'[u] \notin Inside BY <1>5, <1>8 DEF Inside
<1>10. Locked'
  <2>1. locks' \in [BucketIds' -> Threads \cup {NoThread}] BY <1>1 DEF BucketIds
  <2>2. \A b \in BucketIds', u \in Threads : locks'[b] # u
    BY <1>1, SharedAssumption DEF BucketIds
  <2>3. slab_holder' \in Threads \cup {NoThread} BY <1>2 DEF ControlInv, Locked
  <2> QED BY <2>1, <2>2, <2>3, <1>2, <1>9 DEF Locked, Holding
<1>11. Hinted'
  <2>1. \A u \in Threads : hand'[u] = <<>> BY <1>2, <1>8 DEF ControlInv, Hinted, Inside
  <2>2. buffer' \in Seq(Places') BY <1>2
  <2>3. hand' \in [Threads -> {<<>>} \cup {<<e>> : e \in Places'}]
    BY <2>1, <1>2 DEF ControlInv, Hinted
  <2> QED BY <2>1, <2>2, <2>3, <1>9 DEF Hinted, Inside
<1> QED BY <1>3, <1>6, <1>7, <1>10, <1>11 DEF ControlInv

(* A call begins.                                                          *)
LEMMA BeginControl ==
    ASSUME ControlInv, NEW t \in Threads, NEW c \in Calls, Begin(t, c)
    PROVE  ControlInv'
<1>1. PICK l \in Labels :
         /\ pc' = [pc EXCEPT ![t] = l] /\ c.op \in OpsAt(l)
         /\ l \in {"check", "tick", "set_ttl", "grow", "enter"}
  <2>0. c.op \in {"insert", "get", "peek", "remove", "set_ttl", "resize"} BY SharedAssumption
  <2> USE DEF Goto, Labels, OpsAt
  <2>1. CASE c.op = "insert"
    <3>1. pc' = [pc EXCEPT ![t] = IF AutoResize THEN "check" ELSE "tick"] BY <2>1 DEF Begin
    <3> QED BY <2>1, <3>1
  <2>2. CASE c.op = "set_ttl"
    <3>1. pc' = [pc EXCEPT ![t] = "set_ttl"] BY <2>2 DEF Begin
    <3> QED BY <2>2, <3>1
  <2>3. CASE c.op = "resize"
    <3>1. pc' = [pc EXCEPT ![t] = "grow"] BY <2>3 DEF Begin
    <3> QED BY <2>3, <3>1
  <2>4. CASE c.op \in {"get", "peek", "remove"}
    <3>1. pc' = [pc EXCEPT ![t] = "enter"] BY <2>4 DEF Begin
    <3> QED BY <2>4, <3>1
  <2> QED BY <2>0, <2>1, <2>2, <2>3, <2>4
<1>2. /\ pc[t] = "idle" /\ made < MaxCalls /\ made' = made + 1
      /\ call' = [call EXCEPT ![t] = c]
      /\ seen' = [seen EXCEPT ![t] = IF c.op = "resize" THEN c.n ELSE 0]
      /\ UNCHANGED <<num_buckets, epochs, current_epoch, default_ttl, eviction_count,
                     locks, readers, slab_holder, buffer, hand, slot, how, left>>
  BY DEF Begin, table, counters, guards, hints
<1>3. c.n \in Nat /\ MaxCalls \in Nat BY SharedAssumption
<1>4. Size' BY <1>2 DEF ControlInv, Size
<1>5. BucketIds' = BucketIds /\ Places' = Places BY <1>2 DEF BucketIds, Places
<1>6. Control' BY <1>1, <1>2, <1>3, <1>5 DEF ControlInv, Control
<1>7. CallsRight' BY <1>1, <1>2 DEF ControlInv, Control, CallsRight, Op
<1>8. Locked'
  <2>1. l \notin Inside /\ l \notin Holding /\ "idle" \notin Inside /\ "idle" \notin Holding
    BY <1>1 DEF Inside, Holding
  <2>2. \A u \in Threads : pc'[u] \in Holding => call'[u] = call[u]
    BY <2>1, <1>1, <1>2 DEF ControlInv, Control
  <2>3. slab_holder' \in Threads \cup {NoThread} BY <1>2 DEF ControlInv, Locked
  <2> QED BY <2>1, <2>2, <2>3, <1>1, <1>2, LockedKept
<1>9. Hinted' BY <1>1, <1>2, <1>5 DEF ControlInv, Control, Hinted
<1> QED BY <1>4, <1>6, <1>7, <1>8, <1>9 DEF ControlInv

(* The initial state.                                                      *)
LEMMA InitControl == Init => ControlInv
<1> SUFFICES ASSUME Init PROVE ControlInv OBVIOUS
<1> USE DEF Init
<1>1. Size
  <2>1. PICK i \in 0 .. StartBuckets : StartBuckets = 2^i BY SharedAssumption
  <2>2. i \in Nat BY <2>1
  <2>3. StartBuckets \in Nat /\ i < StartBuckets BY <2>1, <2>2, PowerIs
  <2> QED BY <2>1, <2>3 DEF Size
<1>2. 0 \in SlotIds /\ 0 \in 0 .. MaxCalls BY MetaAssumption, SharedAssumption DEF SlotIds
<1>3. Control BY <1>2 DEF Control, Labels
<1>4. CallsRight BY DEF CallsRight
<1>5. Locked BY SharedAssumption DEF Locked, Inside, Holding
<1>6. Hinted BY DEF Hints!Init, Hinted
<1> QED BY <1>1, <1>3, <1>4, <1>5, <1>6 DEF ControlInv

(* Every step.                                                             *)
LEMMA NextControl == ControlInv /\ [Next]_vars => ControlInv'
<1> SUFFICES ASSUME ControlInv, [Next]_vars PROVE ControlInv' OBVIOUS
<1>1. ASSUME NEW t \in Threads, Step(t), ~Grow(t) PROVE ControlInv'
  <2>1. Size' BY <1>1, StepFrame DEF ControlInv, Size
  <2> QED BY <1>1, <2>1, ControlStep, CallsRightStep, LockedStep, HintedStep DEF ControlInv
<1>2. ASSUME NEW t \in Threads, Grow(t) PROVE ControlInv' BY <1>2, GrowControl
<1>3. ASSUME NEW t \in Threads, NEW c \in Calls, Begin(t, c) PROVE ControlInv'
  BY <1>3, BeginControl
<1>4. CASE UNCHANGED vars
  BY <1>4 DEF ControlInv, Size, Control, CallsRight, Locked, Hinted, Places, BucketIds, Home,
              Bucket, Op, vars, table, counters, guards, hints, frame
<1> QED BY <1>1, <1>2, <1>3, <1>4 DEF Next, Finished

(* The control state of every thread is right in every reachable state.    *)
THEOREM SharedControl == Spec => []ControlInv
<1>1. Init => ControlInv BY InitControl
<1>2. ControlInv /\ [Next]_vars => ControlInv' BY NextControl
<1> QED BY <1>1, <1>2, PTL DEF Spec

(* Hits of an older layout are never applied to a newer one: a resize runs *)
(* only when no insertion is inside the table with a hit in hand, and it   *)
(* empties the queue before anyone can record hits in the new layout       *)
(* (sync.rs, resize).                                                      *)
THEOREM SharedHintsCurrent == Spec => []HintsCurrent
<1>1. ControlInv => HintsCurrent
  <2> SUFFICES ASSUME ControlInv PROVE HintsCurrent OBVIOUS
  <2>1. \A e \in Places : e[3] = num_buckets BY DEF Places
  <2>2. ASSUME NEW i \in DOMAIN buffer PROVE buffer[i][3] = num_buckets
    <3>1. buffer[i] \in Places BY DEF ControlInv, Hinted
    <3> QED BY <2>1, <3>1
  <2>3. ASSUME NEW t \in Threads, hand[t] # <<>> PROVE hand[t][1][3] = num_buckets
    <3>1. PICK e \in Places : hand[t] = <<e>> BY <2>3 DEF ControlInv, Hinted
    <3> QED BY <2>1, <3>1
  <2> QED BY <2>2, <2>3 DEF HintsCurrent
<1> QED BY <1>1, SharedControl, PTL
-----------------------------------------------------------------------------
(* What the table holds while calls are under way: slab entries are owned  *)
(* linearly, every key has one place, len() accounts for the calls in      *)
(* flight, and no call changes an entry of a bucket it does not hold.      *)

(* The inductive invariant.  A settled place is occupied and not given up  *)
(* by an insertion that is about to overwrite it: what it holds counts.    *)
Place(t) == <<Home(t), slot[t]>>
Settled  == Occupied \ GivenUp

TableTypes ==
    /\ meta \in [BucketIds -> MetaWords(Nat)]
    /\ slots \in [BucketIds -> [SlotIds -> SlotTypes]]
    /\ slab_pool \in Pools

(* Every key is in its own bucket with its own fingerprints, and only once. *)
Filed(o) == /\ RightSlot(At(slots, o), slab_pool)
            /\ Bucket(KeyAt(o)) = o[1]
            /\ meta[o[1]].h2[o[2]] = H2[KeyAt(o)]

KeysApart == \A o, q \in Settled : KeyAt(o) = KeyAt(q) => o = q

(* What a thread relies on between two of its steps under a bucket's lock. *)
ReadyToWrite(t) ==
    /\ how[t] # "none"
    /\ how[t] = "fresh" <=> Place(t) \notin Occupied
    /\ how[t] = "update" => meta[Home(t)].h2[slot[t]] = H2[call[t].key]
    /\ how[t] = "evict" => FindEvictTarget(meta[Home(t)]) = {slot[t]}
    /\ \A o \in Settled : KeyAt(o) # call[t].key

HasWritten(t) == Place(t) \in Occupied /\ KeyAt(Place(t)) = call[t].key
                    /\ ValueAt(Place(t)) = call[t].val

HasFound(t) == Place(t) \in Occupied /\ KeyAt(Place(t)) = call[t].key

ThreadRight(t) ==
    /\ pc[t] = "write" => ReadyToWrite(t)
    /\ pc[t] \in {"stamp", "settle"} => HasWritten(t)
    /\ pc[t] \in {"age", "push", "copy"} => HasFound(t)

TableInv ==
    /\ TableTypes
    /\ Owned(slots, Settled, slab_pool)
    /\ \A o \in Settled : Filed(o)
    /\ KeysApart
    /\ \A t \in Threads : ThreadRight(t)

ChangesTable(t) == Apply(t) \/ InsertMatch(t) \/ Write(t) \/ RemoveFound(t) \/ Grow(t)

Others(t) == \A u \in Threads \ {t} : /\ pc'[u] = pc[u] /\ how'[u] = how[u]
                                       /\ slot'[u] = slot[u] /\ call'[u] = call[u]
-----------------------------------------------------------------------------
(* Two threads that hold a bucket hold different ones.                     *)
LEMMA OneHolder ==
    ASSUME ControlInv, NEW t \in Threads, NEW u \in Threads,
           pc[t] \in Holding, pc[u] \in Holding, Home(t) = Home(u)
    PROVE  t = u
<1>1. Home(t) \in BucketIds BY CallIs DEF Holding
<1> QED BY <1>1 DEF ControlInv, Locked

(* The places given up, and why the one of a bucket is its holder's.       *)
LEMMA GivenUpIs ==
    /\ \A o : o \in GivenUp <=> \E u \in Threads : pc[u] = "write" /\ how[u] # "fresh" /\ o = Place(u)
    /\ ControlInv => \A t \in Threads : pc[t] \in Holding =>
          \A s : <<Home(t), s>> \in GivenUp <=> pc[t] = "write" /\ how[t] # "fresh" /\ s = slot[t]
<1>1. \A o : o \in GivenUp <=> \E u \in Threads : pc[u] = "write" /\ how[u] # "fresh" /\ o = Place(u)
  BY DEF GivenUp, Place
<1>2. ASSUME ControlInv, NEW t \in Threads, pc[t] \in Holding, NEW s
      PROVE  <<Home(t), s>> \in GivenUp <=> pc[t] = "write" /\ how[t] # "fresh" /\ s = slot[t]
  <2>1. ASSUME <<Home(t), s>> \in GivenUp PROVE pc[t] = "write" /\ how[t] # "fresh" /\ s = slot[t]
    <3>1. PICK u \in Threads : pc[u] = "write" /\ how[u] # "fresh" /\ <<Home(t), s>> = Place(u)
      BY <1>1, <2>1
    <3>2. Home(t) = Home(u) /\ s = slot[u] BY <3>1 DEF Place
    <3>3. "write" \in Holding BY DEF Holding, Inside
    <3>4. t = u BY <1>2, <3>1, <3>2, <3>3, OneHolder
    <3> QED BY <3>1, <3>2, <3>4
  <2>2. ASSUME pc[t] = "write", how[t] # "fresh", s = slot[t] PROVE <<Home(t), s>> \in GivenUp
    BY <1>1, <2>2 DEF Place
  <2> QED BY <2>1, <2>2
<1> QED BY <1>1, <1>2

(* A place that is in the table, and the bucket of every key.              *)
LEMMA PlacesIn ==
    ASSUME ControlInv
    PROVE  /\ \A o \in Occupied : o[1] \in BucketIds /\ o[2] \in SlotIds /\ o = <<o[1], o[2]>>
                                   /\ o[2] \in FullSlots(meta[o[1]])
           /\ \A b \in BucketIds : \A s : <<b, s>> \in Occupied <=> s \in FullSlots(meta[b])
           /\ \A k \in Keys : Bucket(k) \in BucketIds /\ H2[k] \in Nat
           /\ IsFiniteSet(Occupied)
<1>1. \A o \in Occupied : o[1] \in BucketIds /\ o[2] \in SlotIds /\ o = <<o[1], o[2]>>
                                   /\ o[2] \in FullSlots(meta[o[1]])
  BY DEF Occupied
<1>2. \A b \in BucketIds : \A s : <<b, s>> \in Occupied <=> s \in FullSlots(meta[b])
  BY DEF Occupied, FullSlots
<1>3. num_buckets \in Nat /\ num_buckets > 0 BY DEF ControlInv, Size
<1>4. ASSUME NEW k \in Keys PROVE Bucket(k) \in BucketIds /\ H2[k] \in Nat
  <2>1. Hash[k] \in Nat /\ H2[k] \in Nat BY SharedAssumption
  <2> QED BY <2>1, <1>3, DivMod DEF Bucket, Index, BucketIds
<1>5. IsFiniteSet(Occupied)
  <2>1. IsFiniteSet(BucketIds) BY <1>3, FS_Interval DEF BucketIds
  <2>2. IsFiniteSet(BucketIds \X SlotIds) BY <2>1, SlotIdsNat, FS_Product
  <2> QED BY <2>2, FS_Subset DEF Occupied
<1> QED BY <1>1, <1>2, <1>4, <1>5

(* Keys and values of settled places are keys and values.                  *)
LEMMA SettledIn ==
    ASSUME TableInv, NEW o \in Settled
    PROVE  KeyAt(o) \in Keys /\ ValueAt(o) \in Values
<1>1. RightSlot(At(slots, o), slab_pool) /\ slab_pool \in Pools /\ Owned(slots, Settled, slab_pool)
  BY DEF TableInv, TableTypes, Filed
<1>2. SlotKey(At(slots, o), slab_pool) \in Keys /\ SlotValue(At(slots, o), slab_pool) \in Values
  BY <1>1, ContentsIn
<1> QED BY <1>2 DEF KeyAt, ValueAt, At

(* Searching a bucket in which nothing is given up: SlotOf finds the one   *)
(* place that holds the key, or nothing when no place does.                *)
LEMMA SearchIs ==
    ASSUME ControlInv, TableInv, NEW k \in Keys, \A s : <<Bucket(k), s>> \notin GivenUp
    PROVE  /\ \A s \in SlotOf(Bucket(k), k) :
                 /\ SlotOf(Bucket(k), k) = {s}
                 /\ <<Bucket(k), s>> \in Settled /\ KeyAt(<<Bucket(k), s>>) = k
           /\ \A o \in Settled : KeyAt(o) = k => o[1] = Bucket(k) /\ SlotOf(Bucket(k), k) = {o[2]}
<1> DEFINE b == Bucket(k)
           S == {s \in MatchMask(meta[b], H2[k]) : MatchesKey(slots[b][s], k, slab_pool)}
<1>1. b \in BucketIds BY PlacesIn
<1>2. S \subseteq SlotIds /\ S \in SUBSET Nat BY SlotIdsNat DEF MatchMask, FullSlots
<1>3. ASSUME NEW s \in S PROVE <<b, s>> \in Settled /\ KeyAt(<<b, s>>) = k
  <2>1. <<b, s>> \in Settled BY <1>1, <1>2, <1>3, PlacesIn DEF Settled, MatchMask
  <2>2. RightSlot(slots[b][s], slab_pool) BY <2>1 DEF TableInv, Filed, At
  <2>3. MatchesKey(slots[b][s], k, slab_pool) BY <1>3
  <2>4. SlotKey(slots[b][s], slab_pool) = k BY <2>2, <2>3, MatchesIs
  <2> QED BY <2>1, <2>4 DEF KeyAt
<1>4. ASSUME NEW o \in Settled, KeyAt(o) = k PROVE o[1] = b /\ o[2] \in S /\ o = <<b, o[2]>>
  <2>1. o[2] \in FullSlots(meta[o[1]]) /\ o = <<o[1], o[2]>> BY PlacesIn DEF Settled
  <2>2. o[1] = b /\ meta[o[1]].h2[o[2]] = H2[k] /\ RightSlot(At(slots, o), slab_pool)
    BY <1>4 DEF TableInv, Filed
  <2>3. MatchesKey(At(slots, o), k, slab_pool) BY <2>2, <1>4, MatchesIs DEF KeyAt, At
  <2>4. o[2] \in S BY <2>1, <2>2, <2>3 DEF MatchMask, At
  <2> QED BY <2>1, <2>2, <2>4
<1>5. \A s, r \in S : s = r
  <2> TAKE s, r \in S
  <2>1. <<b, s>> = <<b, r>> BY <1>3 DEF TableInv, KeysApart
  <2> QED BY <2>1
<1>6. SlotOf(b, k) = First(S) BY DEF SlotOf
<1> HIDE DEF S
<1>7. \A s \in First(S) : s \in S /\ First(S) = {s} BY <1>2, FirstMember
<1>8. ASSUME NEW s \in S PROVE First(S) = {s}
  <2>1. \E r \in S : First(S) = {r} BY <1>2, FirstExists
  <2> QED BY <2>1, <1>5
<1> HIDE DEF b
<1>9. \A s \in SlotOf(b, k) : SlotOf(b, k) = {s} /\ <<b, s>> \in Settled /\ KeyAt(<<b, s>>) = k
  BY <1>3, <1>6, <1>7
<1>10. \A o \in Settled : KeyAt(o) = k => o[1] = b /\ SlotOf(b, k) = {o[2]}
  BY <1>4, <1>6, <1>8
<1> QED BY <1>9, <1>10 DEF b
-----------------------------------------------------------------------------
(* A step leaves the registers of the other threads alone.                 *)
LEMMA StepOthers ==
    ASSUME ControlInv, NEW t \in Threads, Step(t)
    PROVE  Others(t)
<1> USE DEF ControlInv, Control, Others, Goto, Leave, frame, registers, AfterGrow
<1>1. CASE Enter(t) BY <1>1 DEF Enter
<1>2. CASE Acquire(t) BY <1>2 DEF Acquire
<1>3. CASE CheckLoad(t) BY <1>3 DEF CheckLoad
<1>4. CASE Tick(t) BY <1>4 DEF Tick
<1>5. CASE DrainTake(t) BY <1>5 DEF DrainTake
<1>6. CASE DrainEnd(t) BY <1>6 DEF DrainEnd
<1>7. CASE Apply(t) BY <1>7 DEF Apply
<1>8. CASE InsertMatch(t) BY <1>8 DEF InsertMatch
<1>9. CASE Write(t) BY <1>9 DEF Write
<1>10. CASE Stamp(t) BY <1>10 DEF Stamp
<1>11. CASE InsertEnd(t) BY <1>11 DEF InsertEnd
<1>12. CASE LookupMiss(t) BY <1>12 DEF LookupMiss
<1>13. CASE LookupFound(t) BY <1>13 DEF LookupFound
<1>14. CASE LookupExpired(t) BY <1>14 DEF LookupExpired
<1>15. CASE PeekLive(t) BY <1>15 DEF PeekLive
<1>16. CASE GetLive(t) BY <1>16 DEF GetLive
<1>17. CASE GetPush(t) BY <1>17 DEF GetPush
<1>18. CASE GetCopy(t) BY <1>18 DEF GetCopy
<1>19. CASE RemoveFound(t) BY <1>19 DEF RemoveFound
<1>20. CASE RemoveEnd(t) BY <1>20 DEF RemoveEnd
<1>21. CASE RemoveMissing(t) BY <1>21 DEF RemoveMissing
<1>22. CASE SetTtl(t) BY <1>22 DEF SetTtl
<1>23. CASE GrowSkip(t) BY <1>23 DEF GrowSkip
<1>24. CASE Grow(t) BY <1>24 DEF Grow
<1> QED BY <1>1, <1>2, <1>3, <1>4, <1>5, <1>6, <1>7, <1>8, <1>9, <1>10, <1>11, <1>12, <1>13,
           <1>14, <1>15, <1>16, <1>17, <1>18, <1>19, <1>20, <1>21, <1>22, <1>23, <1>24
        DEF Step, Insert, Lookup, Remove

(* Which steps leave the table alone.                                      *)
LEMMA QuietIs ==
    ASSUME ControlInv, NEW t \in Threads, Step(t), ~ChangesTable(t)
    PROVE  /\ UNCHANGED <<num_buckets, meta, slots, slab_pool>>
           /\ pc[t] # "write" /\ pc'[t] # "write"
<1> USE DEF ControlInv, Control, Goto, Leave, table, AfterGrow
<1>1. CASE Enter(t) BY <1>1 DEF Enter
<1>2. CASE Acquire(t) BY <1>2 DEF Acquire
<1>3. CASE CheckLoad(t) BY <1>3 DEF CheckLoad
<1>4. CASE Tick(t) BY <1>4 DEF Tick
<1>5. CASE DrainTake(t) BY <1>5 DEF DrainTake
<1>6. CASE DrainEnd(t) BY <1>6 DEF DrainEnd
<1>7. CASE Stamp(t) BY <1>7 DEF Stamp
<1>8. CASE InsertEnd(t) BY <1>8 DEF InsertEnd
<1>9. CASE LookupMiss(t) BY <1>9 DEF LookupMiss
<1>10. CASE LookupFound(t) BY <1>10 DEF LookupFound
<1>11. CASE LookupExpired(t) BY <1>11 DEF LookupExpired
<1>12. CASE PeekLive(t) BY <1>12 DEF PeekLive
<1>13. CASE GetLive(t) BY <1>13 DEF GetLive
<1>14. CASE GetPush(t) BY <1>14 DEF GetPush
<1>15. CASE GetCopy(t) BY <1>15 DEF GetCopy
<1>16. CASE RemoveEnd(t) BY <1>16 DEF RemoveEnd
<1>17. CASE RemoveMissing(t) BY <1>17 DEF RemoveMissing
<1>18. CASE SetTtl(t) BY <1>18 DEF SetTtl
<1>19. CASE GrowSkip(t) BY <1>19 DEF GrowSkip
<1> QED BY <1>1, <1>2, <1>3, <1>4, <1>5, <1>6, <1>7, <1>8, <1>9, <1>10, <1>11, <1>12, <1>13,
           <1>14, <1>15, <1>16, <1>17, <1>18, <1>19
        DEF ChangesTable, Step, Insert, Lookup, Remove

(* How a step changes the set of places given up.                          *)
LEMMA GivenUpStep ==
    ASSUME ControlInv, NEW t \in Threads, Others(t), num_buckets' = num_buckets
    PROVE  /\ pc[t] # "write" /\ pc'[t] # "write" => GivenUp' = GivenUp
           /\ pc[t] # "write" /\ pc'[t] = "write" =>
                 GivenUp' = IF how'[t] = "fresh" THEN GivenUp ELSE GivenUp \cup {Place(t)'}
           /\ pc[t] = "write" /\ pc'[t] # "write" => GivenUp' = GivenUp \ {Place(t)}
<1>1. \A u \in Threads \ {t} : Place(u)' = Place(u) BY DEF Place, Home, Bucket, Others
<1>2. \A o : o \in GivenUp <=> \E u \in Threads : pc[u] = "write" /\ how[u] # "fresh" /\ o = Place(u)
  BY GivenUpIs
<1>3. \A o : o \in GivenUp' <=> \E u \in Threads : pc'[u] = "write" /\ how'[u] # "fresh" /\ o = Place(u)'
  BY DEF GivenUp, Place
<1>4. \A u \in Threads \ {t} : pc'[u] = pc[u] /\ how'[u] = how[u] BY DEF Others
<1>5. CASE pc[t] # "write" /\ pc'[t] # "write"
  <2>1. \A o : o \in GivenUp <=> o \in GivenUp' BY <1>1, <1>2, <1>3, <1>4, <1>5
  <2> QED BY <1>5, <2>1
<1>6. CASE pc[t] # "write" /\ pc'[t] = "write"
  <2>1. \A o : o \in GivenUp' <=> o \in GivenUp \/ (how'[t] # "fresh" /\ o = Place(t)')
    BY <1>1, <1>2, <1>3, <1>4, <1>6
  <2> QED BY <1>6, <2>1
<1>7. CASE pc[t] = "write" /\ pc'[t] # "write"
  <2>1. ASSUME NEW u \in Threads \ {t}, pc[u] = "write" PROVE Place(u) # Place(t)
    <3>1. "write" \in Holding BY DEF Holding, Inside
    <3>2. Home(u) # Home(t) BY <1>7, <2>1, <3>1, OneHolder
    <3> QED BY <3>2 DEF Place
  <2>2. \A o : o \in GivenUp' <=> o \in GivenUp /\ o # Place(t)
    BY <1>1, <1>2, <1>3, <1>4, <1>7, <2>1
  <2> QED BY <1>7, <2>2
<1> QED BY <1>5, <1>6, <1>7

(* A place whose slot and slab entry stay holds what it held.              *)
LEMMA KeptAt ==
    ASSUME TableInv, NEW o \in Settled, At(slots, o)' = At(slots, o),
           \A i \in Live(slots, Settled) : slab_pool'.entries[i] = slab_pool.entries[i]
    PROVE  /\ KeyAt(o)' = KeyAt(o) /\ ValueAt(o)' = ValueAt(o)
           /\ RightSlot(At(slots, o), slab_pool)'
<1>1. RightSlot(At(slots, o), slab_pool) BY DEF TableInv, Filed
<1> DEFINE q == slab_pool'
           c == At(slots, o)
<1>2. /\ SlotKey(c, q) = SlotKey(c, slab_pool) /\ SlotValue(c, q) = SlotValue(c, slab_pool)
      /\ RightSlot(c, q)
  BY <1>1, ContentsStay
<1>3. KeyAt(o)' = SlotKey(c, q) /\ ValueAt(o)' = SlotValue(c, q) BY DEF KeyAt, ValueAt, At
<1>4. KeyAt(o) = SlotKey(c, slab_pool) /\ ValueAt(o) = SlotValue(c, slab_pool)
  BY DEF KeyAt, ValueAt, At
<1> QED BY <1>2, <1>3, <1>4

(* A step of thread t that concerns bucket b only, which nobody else holds, *)
(* leaves the other threads with what they rely on.                        *)
StepIn(t, b) ==
    /\ Others(t) /\ num_buckets' = num_buckets
    /\ \A u \in Threads \ {t} : pc[u] \in Holding => Home(u) # b
    /\ \A c \in BucketIds \ {b} : meta'[c] = meta[c]
    /\ \A o \in Settled \cap Settled' : KeyAt(o)' = KeyAt(o) /\ ValueAt(o)' = ValueAt(o)
    /\ \A o \in Settled \ Settled' : o[1] = b
    /\ \A o \in Settled' \ Settled : Bucket(KeyAt(o)') = b

(* The others' part of the invariant.                                      *)
LEMMA OthersRight ==
    ASSUME ControlInv, TableInv, NEW t \in Threads, NEW b, StepIn(t, b),
           NEW u \in Threads, u # t
    PROVE  ThreadRight(u)'
<1>1. /\ pc'[u] = pc[u] /\ how'[u] = how[u] /\ slot'[u] = slot[u] /\ call'[u] = call[u]
  BY DEF StepIn, Others
<1>2. Home(u)' = Home(u) /\ Place(u)' = Place(u) /\ BucketIds' = BucketIds
  BY <1>1 DEF StepIn, Home, Bucket, Place, BucketIds
<1>3. CASE pc[u] \notin Holding
  <2>1. pc[u] \notin {"write", "stamp", "settle", "age", "push", "copy"} BY <1>3 DEF Holding, Inside
  <2> QED BY <2>1, <1>1 DEF ThreadRight
<1>4. CASE pc[u] \in Holding
  <2>1. Home(u) # b /\ Home(u) \in BucketIds BY <1>4, CallIs DEF StepIn, Holding
  <2>2. meta'[Home(u)] = meta[Home(u)] BY <2>1 DEF StepIn
  <2>3. Place(u) \in Occupied' <=> Place(u) \in Occupied
    BY <2>1, <2>2, <1>2 DEF Occupied, Place
  <2>4. ThreadRight(u) BY DEF TableInv
  <2>5. ASSUME pc[u] = "write" PROVE ReadyToWrite(u)'
    <3>1. ReadyToWrite(u) BY <2>4, <2>5 DEF ThreadRight
    <3>2. Bucket(call[u].key) = Home(u) BY DEF Home
    <3>3. ASSUME NEW o \in Settled' PROVE KeyAt(o)' # call[u].key
      <4>1. CASE o \in Settled
        <5>1. KeyAt(o)' = KeyAt(o) BY <3>3, <4>1 DEF StepIn
        <5> QED BY <5>1, <4>1, <3>1 DEF ReadyToWrite
      <4>2. CASE o \notin Settled
        <5>1. Bucket(KeyAt(o)') = b BY <3>3, <4>2 DEF StepIn
        <5> QED BY <5>1, <3>2, <2>1
      <4> QED BY <4>1, <4>2
    <3>4. \A o \in Settled' : KeyAt(o)' # call'[u].key BY <3>3, <1>1
    <3> QED BY <3>1, <3>4, <1>1, <1>2, <2>2, <2>3 DEF ReadyToWrite
  <2>6. ASSUME pc[u] # "write", Place(u) \in Occupied
        PROVE  KeyAt(Place(u))' = KeyAt(Place(u)) /\ ValueAt(Place(u))' = ValueAt(Place(u))
    <3>1. Place(u) \in Settled BY <1>4, <2>6, GivenUpIs DEF Settled, Place
    <3>2. Place(u)[1] # b BY <2>1 DEF Place
    <3>3. Place(u) \in Settled' BY <3>1, <3>2 DEF StepIn
    <3> DEFINE x == Place(u)
    <3>4. x \in Settled \cap Settled' /\ x' = x BY <3>1, <3>3, <1>2
    <3> HIDE DEF x
    <3>5. KeyAt(x)' = KeyAt(x) /\ ValueAt(x)' = ValueAt(x) BY <3>4 DEF StepIn, KeyAt, ValueAt
    <3> QED BY <3>5 DEF x
  <2>7. ASSUME pc[u] \in {"stamp", "settle"} PROVE HasWritten(u)'
    BY <2>3, <2>4, <2>6, <2>7, <1>1, <1>2 DEF ThreadRight, HasWritten
  <2>8. ASSUME pc[u] \in {"age", "push", "copy"} PROVE HasFound(u)'
    BY <2>3, <2>4, <2>6, <2>8, <1>1, <1>2 DEF ThreadRight, HasFound
  <2> QED BY <2>5, <2>7, <2>8, <1>1 DEF ThreadRight
<1> QED BY <1>3, <1>4

-----------------------------------------------------------------------------
(* Steps that leave the table alone.                                       *)
LEMMA SameTable ==
    ASSUME ControlInv, TableInv, NEW t \in Threads, Others(t),
           UNCHANGED <<num_buckets, meta, slots, slab_pool>>, pc[t] # "write", pc'[t] # "write"
    PROVE  /\ Occupied' = Occupied /\ GivenUp' = GivenUp /\ Settled' = Settled
           /\ \A o : KeyAt(o)' = KeyAt(o) /\ ValueAt(o)' = ValueAt(o)
           /\ ThreadRight(t)' => TableInv'
<1>1. BucketIds' = BucketIds /\ Occupied' = Occupied BY DEF BucketIds, Occupied
<1>2. GivenUp' = GivenUp BY GivenUpStep
<1>3. Settled' = Settled BY <1>1, <1>2 DEF Settled
<1>4. \A o : KeyAt(o)' = KeyAt(o) /\ ValueAt(o)' = ValueAt(o) BY DEF KeyAt, ValueAt
<1>5. ASSUME NEW u \in Threads, u # t PROVE ThreadRight(u)'
  <2>1. \A v \in Threads : pc[v] \in Holding => Home(v) # num_buckets
    <3> TAKE v \in Threads
    <3> HAVE pc[v] \in Holding
    <3>1. Home(v) \in 0 .. (num_buckets - 1) BY CallIs DEF Holding, BucketIds
    <3>2. num_buckets \in Nat BY DEF ControlInv, Size
    <3> QED BY <3>1, <3>2
  <2>2. StepIn(t, num_buckets) BY <2>1, <1>3, <1>4 DEF StepIn
  <2> QED BY <2>2, <1>5, OthersRight
<1>6. TableTypes' BY <1>1 DEF TableInv, TableTypes
<1>7. Owned(slots, Settled, slab_pool)' BY <1>3 DEF TableInv, Owned, Refs, Live, At
<1>8. KeysApart' BY <1>3, <1>4 DEF TableInv, KeysApart
<1>9. ASSUME NEW o \in Settled' PROVE Filed(o)'
  <2>1. Filed(o) BY <1>3 DEF TableInv
  <2>2. Bucket(KeyAt(o))' = Bucket(KeyAt(o)) BY <1>4 DEF Bucket
  <2> QED BY <2>1, <2>2, <1>4 DEF Filed, At
<1> QED BY <1>1, <1>2, <1>3, <1>4, <1>5, <1>6, <1>7, <1>8, <1>9 DEF TableInv

(* What the thread itself relies on afterwards.                            *)
LEMMA QuietRight ==
    ASSUME ControlInv, TableInv, NEW t \in Threads, Step(t), ~ChangesTable(t)
    PROVE  ThreadRight(t)' /\ TableInv'
<1>a. ControlInv /\ TableInv OBVIOUS
<1>b. Others(t) /\ call' = call /\ \A u : Home(u)' = Home(u)
  BY StepOthers, StepFrame DEF ChangesTable
<1>c. pc[t] # "write" /\ pc'[t] # "write" /\ UNCHANGED <<num_buckets, meta, slots, slab_pool>>
  BY QuietIs
<1>d. Occupied' = Occupied /\ \A o : KeyAt(o)' = KeyAt(o) /\ ValueAt(o)' = ValueAt(o)
  BY <1>b, <1>c, SameTable
<1>e. ThreadRight(t) /\ pc \in [Threads -> Labels] /\ slot \in [Threads -> SlotIds]
  BY DEF TableInv, ControlInv, Control
<1>f. SUFFICES ThreadRight(t)' BY <1>b, <1>c, SameTable
<1> USE DEF Goto, Leave, AfterGrow, registers
<1>1. CASE Enter(t) BY <1>1, <1>e DEF Enter, ThreadRight
<1>2. CASE Acquire(t) BY <1>2, <1>e DEF Acquire, ThreadRight
<1>3. CASE CheckLoad(t) BY <1>3, <1>e DEF CheckLoad, ThreadRight
<1>4. CASE Tick(t) BY <1>4, <1>e DEF Tick, ThreadRight
<1>5. CASE DrainTake(t) BY <1>5, <1>e DEF DrainTake, ThreadRight
<1>6. CASE DrainEnd(t) BY <1>6, <1>e DEF DrainEnd, ThreadRight
<1>7. CASE Stamp(t)
  <2>1. pc[t] \in {"stamp"} /\ pc'[t] = "settle" /\ slot' = slot BY <1>7, <1>e DEF Stamp
  <2>2. Place(t)' = Place(t) /\ call' = call BY <2>1, <1>b DEF Place
  <2>3. HasWritten(t) BY <2>1, <1>e DEF ThreadRight
  <2>4. HasWritten(t)' BY <2>2, <2>3, <1>d DEF HasWritten
  <2> QED BY <2>1, <2>4 DEF ThreadRight
<1>8. CASE InsertEnd(t) BY <1>8, <1>e DEF InsertEnd, ThreadRight
<1>9. CASE LookupMiss(t) BY <1>9, <1>e DEF LookupMiss, ThreadRight
<1>10. CASE LookupFound(t)
  <2>1. PICK s \in Found(t) : pc[t] = "match" /\ pc'[t] = "age" /\ slot' = [slot EXCEPT ![t] = s]
    BY <1>10, <1>e DEF LookupFound
  <2>2. pc[t] \in Holding /\ call[t].key \in Keys BY <2>1, <1>a, CallIs DEF Holding, Inside
  <2>3. \A r : <<Home(t), r>> \notin GivenUp BY <2>1, <2>2, <1>a, GivenUpIs
  <2>4. <<Home(t), s>> \in Settled /\ KeyAt(<<Home(t), s>>) = call[t].key
    BY <2>1, <2>2, <2>3, <1>a, SearchIs DEF Found, Home
  <2>5. Place(t)' = <<Home(t), s>> BY <2>1, <1>b, <1>e DEF Place
  <2>6. HasFound(t)' BY <2>4, <2>5, <1>b, <1>d DEF HasFound, Settled
  <2> QED BY <2>1, <2>6 DEF ThreadRight
<1>11. CASE LookupExpired(t) BY <1>11, <1>e DEF LookupExpired, ThreadRight
<1>12. CASE PeekLive(t) BY <1>12, <1>e DEF PeekLive, ThreadRight
<1>13. CASE GetLive(t)
  <2>1. pc[t] \in {"age"} /\ pc'[t] = "push" /\ slot' = slot BY <1>13, <1>e DEF GetLive
  <2>2. Place(t)' = Place(t) /\ call' = call BY <2>1, <1>b DEF Place
  <2>3. HasFound(t) BY <2>1, <1>e DEF ThreadRight
  <2>4. HasFound(t)' BY <2>2, <2>3, <1>d DEF HasFound
  <2> QED BY <2>1, <2>4 DEF ThreadRight
<1>14. CASE GetPush(t)
  <2>1. pc[t] \in {"push"} /\ pc'[t] = "copy" /\ slot' = slot BY <1>14, <1>e DEF GetPush
  <2>2. Place(t)' = Place(t) /\ call' = call BY <2>1, <1>b DEF Place
  <2>3. HasFound(t) BY <2>1, <1>e DEF ThreadRight
  <2>4. HasFound(t)' BY <2>2, <2>3, <1>d DEF HasFound
  <2> QED BY <2>1, <2>4 DEF ThreadRight
<1>15. CASE GetCopy(t) BY <1>15, <1>e DEF GetCopy, ThreadRight
<1>16. CASE RemoveEnd(t) BY <1>16, <1>e DEF RemoveEnd, ThreadRight
<1>17. CASE RemoveMissing(t) BY <1>17, <1>e DEF RemoveMissing, ThreadRight
<1>18. CASE SetTtl(t) BY <1>18, <1>e DEF SetTtl, ThreadRight
<1>19. CASE GrowSkip(t) BY <1>19, <1>e DEF GrowSkip, ThreadRight
<1> QED BY <1>1, <1>2, <1>3, <1>4, <1>5, <1>6, <1>7, <1>8, <1>9, <1>10, <1>11, <1>12, <1>13,
           <1>14, <1>15, <1>16, <1>17, <1>18, <1>19
        DEF ChangesTable, Step, Insert, Lookup, Remove

(* A call begins.                                                          *)
LEMMA BeginTable ==
    ASSUME ControlInv, TableInv, NEW t \in Threads, NEW c, Begin(t, c)
    PROVE  TableInv' /\ Occupied' = Occupied
<1>1. /\ pc[t] = "idle" /\ pc'[t] \in {"check", "tick", "set_ttl", "grow", "enter"} /\ Others(t)
      /\ UNCHANGED <<num_buckets, meta, slots, slab_pool>>
  BY DEF ControlInv, Control, Begin, Goto, Others, table
<1>2. ThreadRight(t)' BY <1>1 DEF ThreadRight
<1> QED BY <1>1, <1>2, SameTable

-----------------------------------------------------------------------------
(* A drained hit changes priorities in a bucket that nobody holds.         *)
LEMMA ApplyTable ==
    ASSUME ControlInv, TableInv, NEW t \in Threads, Apply(t)
    PROVE  /\ TableInv' /\ Occupied' = Occupied /\ Settled' = Settled
           /\ \A o : KeyAt(o)' = KeyAt(o) /\ ValueAt(o)' = ValueAt(o)
<1> DEFINE e == hand[t][1]
           b == e[1]
<1>1. /\ pc[t] = "apply" /\ pc' = [pc EXCEPT ![t] = "drain"] /\ hand[t] # <<>>
      /\ locks[b] = NoThread /\ meta' = [meta EXCEPT ![b] = OnAccess(meta[b], e[2])]
      /\ UNCHANGED <<num_buckets, slots, slab_pool, call, slot, how>>
  BY DEF Apply, Goto, TargetGuard, Hints!Deliver, frame
<1>2. b \in BucketIds /\ e[2] \in SlotIds
  <2>1. PICK h \in Places : hand[t] = <<h>> BY <1>1 DEF ControlInv, Hinted
  <2>2. e = h BY <2>1
  <2> QED BY <2>2 DEF Places
<1> HIDE DEF e, b
<1>3. meta \in [BucketIds -> MetaWords(Nat)] BY DEF TableInv, TableTypes
<1>4. meta[b] \in MetaWords(Nat) BY <1>2, <1>3
<1> DEFINE m == meta[b]
<1>5. /\ OnAccess(m, e[2]) \in MetaWords(Nat) /\ OnAccess(m, e[2]).h2 = m.h2
      /\ FullSlots(OnAccess(m, e[2])) = FullSlots(m)
  BY <1>2, <1>4, OnAccessIs
<1>6. /\ meta' \in [BucketIds -> MetaWords(Nat)] /\ \A c \in BucketIds \ {b} : meta'[c] = meta[c]
      /\ \A c \in BucketIds : FullSlots(meta'[c]) = FullSlots(meta[c]) /\ meta'[c].h2 = meta[c].h2
  BY <1>1, <1>2, <1>3, <1>5
<1>7. BucketIds' = BucketIds /\ Occupied' = Occupied BY <1>1, <1>6 DEF BucketIds, Occupied
<1>8. pc'[t] = "drain" /\ Others(t) BY <1>1 DEF ControlInv, Control, Others
<1>9. Settled' = Settled BY <1>1, <1>7, <1>8, GivenUpStep DEF Settled
<1>10. \A o : KeyAt(o)' = KeyAt(o) /\ ValueAt(o)' = ValueAt(o) BY <1>1 DEF KeyAt, ValueAt
<1>11. \A u \in Threads : pc[u] \in Holding => Home(u) # b
  BY <1>1, <1>2, SharedAssumption DEF ControlInv, Locked
<1>12. StepIn(t, b) BY <1>1, <1>6, <1>8, <1>9, <1>10, <1>11 DEF StepIn
<1>13. \A u \in Threads : ThreadRight(u)'
  <2>1. ThreadRight(t)' BY <1>8 DEF ThreadRight
  <2> QED BY <2>1, <1>12, OthersRight
<1>14. TableTypes' BY <1>1, <1>6, <1>7 DEF TableInv, TableTypes
<1>15. Owned(slots, Settled, slab_pool)' BY <1>1, <1>9 DEF TableInv, Owned, Refs, Live, At
<1>16. KeysApart' BY <1>9, <1>10 DEF TableInv, KeysApart
<1>17. ASSUME NEW o \in Settled' PROVE Filed(o)'
  <2>1. Filed(o) BY <1>9 DEF TableInv
  <2>2. Bucket(KeyAt(o))' = Bucket(KeyAt(o)) BY <1>1, <1>10 DEF Bucket
  <2>3. o[1] \in BucketIds BY <1>9, PlacesIn DEF Settled
  <2> QED BY <2>1, <2>2, <2>3, <1>1, <1>6, <1>10 DEF Filed, At
<1> QED BY <1>7, <1>9, <1>10, <1>13, <1>14, <1>15, <1>16, <1>17 DEF TableInv

(* The places of a bucket whose holder is not about to write are settled.  *)
LEMMA HeldSettled ==
    ASSUME ControlInv, NEW t \in Threads, pc[t] \in Holding, pc[t] # "write"
    PROVE  /\ call[t].key \in Keys /\ Home(t) \in BucketIds
           /\ \A s : <<Home(t), s>> \notin GivenUp
           /\ \A u \in Threads \ {t} : pc[u] \in Holding => Home(u) # Home(t)
<1>1. call[t].key \in Keys /\ Home(t) \in BucketIds BY CallIs DEF Holding
<1>2. \A s : <<Home(t), s>> \notin GivenUp BY GivenUpIs
<1> QED BY <1>1, <1>2, OneHolder

(* remove gives up the place of its key.                                   *)
LEMMA RemoveTable ==
    ASSUME ControlInv, TableInv, NEW t \in Threads, RemoveFound(t)
    PROVE  \E s \in Found(t) :
              LET x == <<Home(t), s>> IN
              /\ TableInv' /\ x \in Settled /\ KeyAt(x) = call[t].key
              /\ Occupied' = Occupied \ {x} /\ Settled' = Settled \ {x}
              /\ \A o \in Settled' : KeyAt(o)' = KeyAt(o) /\ ValueAt(o)' = ValueAt(o)
              /\ \A c \in BucketIds \ {Home(t)} : meta'[c] = meta[c] /\ slots'[c] = slots[c]
<1> DEFINE b == Home(t)
           k == call[t].key
<1>1. PICK s \in Found(t) :
         /\ slab_pool' = Release(slab_pool, slots[b][s])
         /\ meta' = [meta EXCEPT ![b] = SetState(meta[b], s, "Tombstone")]
         /\ slots' = [slots EXCEPT ![b][s] = EmptySlot]
  BY DEF RemoveFound
<1>2. /\ pc[t] = "match" /\ pc' = [pc EXCEPT ![t] = "uncount"]
      /\ UNCHANGED <<num_buckets, call, slot, how>>
  BY DEF RemoveFound, Goto, frame
<1> DEFINE x == <<b, s>>
<1>3. /\ k \in Keys /\ b \in BucketIds /\ \A r : <<b, r>> \notin GivenUp
      /\ \A u \in Threads \ {t} : pc[u] \in Holding => Home(u) # b
  BY <1>2, HeldSettled DEF Holding, Inside
<1>4. Bucket(k) = b BY DEF Home
<1>5. x \in Settled /\ KeyAt(x) = k BY <1>1, <1>3, <1>4, SearchIs DEF Found
<1>6. s \in SlotIds BY <1>1, ChoicesIn
<1>7. /\ meta \in [BucketIds -> MetaWords(Nat)] /\ slots \in [BucketIds -> [SlotIds -> SlotTypes]]
      /\ slab_pool \in Pools
  BY DEF TableInv, TableTypes
<1> HIDE DEF b, k
<1> DEFINE m == SetState(meta[b], s, "Tombstone")
<1>8. m \in MetaWords(Nat) /\ m.h2 = meta[b].h2 /\ FullSlots(m) = FullSlots(meta[b]) \ {s}
  <2>1. meta[b] \in MetaWords(Nat) BY <1>3, <1>7
  <2> QED BY <2>1, <1>6, TombstoneIs
<1>9. meta' = [meta EXCEPT ![b] = m] BY <1>1
<1> HIDE DEF m
<1>10. /\ meta' \in [BucketIds -> MetaWords(Nat)] /\ \A c \in BucketIds \ {b} : meta'[c] = meta[c]
       /\ FullSlots(meta'[b]) = FullSlots(meta[b]) \ {s}
       /\ \A c \in BucketIds : meta'[c].h2 = meta[c].h2
  BY <1>3, <1>7, <1>8, <1>9
<1>11. EmptySlot \in SlotTypes BY DEF EmptySlot, SlotTypes
<1>12. /\ slots' \in [BucketIds -> [SlotIds -> SlotTypes]]
       /\ \A c \in BucketIds \ {b} : slots'[c] = slots[c]
       /\ \A r \in SlotIds \ {s} : slots'[b][r] = slots[b][r]
  BY <1>1, <1>3, <1>6, <1>7, <1>11
<1>13. BucketIds' = BucketIds BY <1>2 DEF BucketIds
<1>14. Occupied' = Occupied \ {x}
  <2>1. \A c \in BucketIds, r \in SlotIds :
           r \in FullSlots(meta'[c]) <=> r \in FullSlots(meta[c]) /\ <<c, r>> # x
    BY <1>3, <1>10
  <2>2. \A o : o \in Occupied' <=> o \in Occupied /\ o # x
    BY <2>1, <1>13 DEF Occupied
  <2> QED BY <2>2
<1>15. pc'[t] = "uncount" /\ Others(t) BY <1>2 DEF ControlInv, Control, Others
<1>16. Settled' = Settled \ {x} BY <1>2, <1>14, <1>15, GivenUpStep DEF Settled
<1>17. \A o \in Settled' : o \in Settled /\ At(slots, o)' = At(slots, o)
  <2> TAKE o \in Settled'
  <2>1. o \in Settled /\ o # x BY <1>16
  <2>2. o[1] \in BucketIds /\ o[2] \in SlotIds /\ o = <<o[1], o[2]>> BY <2>1, PlacesIn DEF Settled
  <2> QED BY <2>1, <2>2, <1>12 DEF At
<1>18. /\ slab_pool' \in Pools /\ slab_pool'.entries = slab_pool.entries
       /\ Owned(slots, Settled \ {x}, slab_pool')
  <2>1. RightSlot(At(slots, x), slab_pool) /\ Owned(slots, Settled, slab_pool)
    BY <1>5 DEF TableInv, Filed
  <2>2. slab_pool' = Release(slab_pool, At(slots, x)) BY <1>1 DEF At
  <2> HIDE DEF x
  <2> QED BY <2>1, <2>2, <1>5, <1>7, ReleaseIs
<1> HIDE DEF x
<1>19. Owned(slots, Settled, slab_pool)'
  <2>1. \A o \in Settled \ {x} : At(slots', o) = At(slots, o) BY <1>16, <1>17 DEF At
  <2>2. Owned(slots', Settled \ {x}, slab_pool') BY <2>1, <1>18, OwnedSame
  <2> QED BY <2>2, <1>16
<1>20. \A o \in Settled' : KeyAt(o)' = KeyAt(o) /\ ValueAt(o)' = ValueAt(o)
                              /\ RightSlot(At(slots, o), slab_pool)'
  BY <1>17, <1>18, KeptAt
<1>21. StepIn(t, b)
  <2>1. \A o \in Settled \ Settled' : o[1] = b BY <1>16 DEF x
  <2> QED BY <2>1, <1>2, <1>3, <1>10, <1>15, <1>16, <1>20 DEF StepIn
<1>22. \A u \in Threads : ThreadRight(u)'
  <2>1. ThreadRight(t)' BY <1>15 DEF ThreadRight
  <2> QED BY <2>1, <1>21, OthersRight
<1>23. TableTypes' BY <1>10, <1>12, <1>13, <1>18 DEF TableTypes
<1>24. KeysApart' BY <1>16, <1>20 DEF TableInv, KeysApart
<1>25. ASSUME NEW o \in Settled' PROVE Filed(o)'
  <2>1. Filed(o) /\ o \in Settled BY <1>17 DEF TableInv
  <2>2. Bucket(KeyAt(o))' = Bucket(KeyAt(o)) BY <1>2, <1>20 DEF Bucket
  <2>3. o[1] \in BucketIds BY <2>1, PlacesIn DEF Settled
  <2> QED BY <2>1, <2>2, <2>3, <1>10, <1>20 DEF Filed
<1>26. TableInv' BY <1>19, <1>22, <1>23, <1>24, <1>25 DEF TableInv
<1> QED BY <1>1, <1>5, <1>10, <1>12, <1>14, <1>16, <1>20, <1>26 DEF b, k, x

-----------------------------------------------------------------------------
(* The place that an insertion chooses: the key's own if it has one, else  *)
(* a free one, else the victim's.                                          *)
LEMMA TargetIs ==
    ASSUME ControlInv, TableInv, NEW t \in Threads, pc[t] = "match", NEW s \in Target(t)[2]
    PROVE  LET x == <<Home(t), s>>
               h == Target(t)[1]
           IN  /\ s \in SlotIds /\ h \in {"update", "fresh", "evict"}
               /\ h = "fresh" <=> x \notin Occupied
               /\ h = "update" => KeyAt(x) = call[t].key
               /\ h # "update" => \A o \in Settled : KeyAt(o) # call[t].key
               /\ h = "evict" => FindEvictTarget(meta[Home(t)]) = {s} /\ FindFreeSlot(meta[Home(t)]) = {}
               /\ x \notin GivenUp
<1> DEFINE b == Home(t)
           k == call[t].key
           m == meta[b]
           x == <<b, s>>
<1>1. k \in Keys /\ b \in BucketIds /\ \A r : <<b, r>> \notin GivenUp
  BY HeldSettled DEF Holding, Inside
<1>2. Bucket(k) = b BY DEF Home
<1>3. /\ \A r \in Found(t) : <<b, r>> \in Settled /\ KeyAt(<<b, r>>) = k
      /\ \A o \in Settled : KeyAt(o) = k => Found(t) # {}
  BY <1>1, <1>2, SearchIs DEF Found
<1>4. \A r : <<b, r>> \in Occupied <=> r \in FullSlots(m) BY <1>1, PlacesIn
<1>5. s \in SlotIds BY ChoicesIn
<1> HIDE DEF b, k
<1>6. CASE Found(t) # {}
  <2>1. Target(t) = <<"update", Found(t)>> BY <1>6 DEF Target
  <2>2. x \in Settled /\ KeyAt(x) = k BY <2>1, <1>3
  <2> QED BY <2>1, <2>2, <1>1, <1>5 DEF Settled, b, k
<1>7. CASE Found(t) = {} /\ FindFreeSlot(m) # {}
  <2>1. Target(t) = <<"fresh", FindFreeSlot(m)>> BY <1>7 DEF Target, b
  <2>2. s \in First(SlotIds \ FullSlots(m)) BY <2>1 DEF FindFreeSlot
  <2>3. s \notin FullSlots(m) BY <2>2 DEF First
  <2> QED BY <2>1, <2>3, <1>1, <1>3, <1>4, <1>5, <1>7 DEF b, k
<1>8. CASE Found(t) = {} /\ FindFreeSlot(m) = {}
  <2>1. Target(t) = <<"evict", FindEvictTarget(m)>> BY <1>8 DEF Target, b
  <2> DEFINE S == {r \in FullSlots(m) : \A q \in FullSlots(m) : Priority(m, r) <= Priority(m, q)}
  <2>2. S \subseteq FullSlots(m) /\ S \in SUBSET Nat BY SlotIdsNat DEF FullSlots
  <2>3. FindEvictTarget(m) = First(S) BY DEF FindEvictTarget
  <2> HIDE DEF S
  <2>4. s \in S /\ First(S) = {s} BY <2>1, <2>2, <2>3, FirstMember
  <2>5. s \in FullSlots(m) BY <2>2, <2>4
  <2> QED BY <2>1, <2>3, <2>4, <2>5, <1>1, <1>3, <1>4, <1>5, <1>8 DEF b, k
<1> QED BY <1>6, <1>7, <1>8

(* An insertion chooses its place and gives up what is there.              *)
LEMMA MatchTable ==
    ASSUME ControlInv, TableInv, NEW t \in Threads, InsertMatch(t)
    PROVE  /\ TableInv' /\ Occupied' = Occupied /\ slot'[t] \in Target(t)[2]
           /\ pc'[t] = "write" /\ how'[t] = Target(t)[1]
           /\ how'[t] = "fresh" => Settled' = Settled /\ Place(t)' \notin Occupied
           /\ how'[t] # "fresh" => Settled' = Settled \ {Place(t)'} /\ Place(t)' \in Settled
           /\ \A o \in Settled' : KeyAt(o)' = KeyAt(o) /\ ValueAt(o)' = ValueAt(o)
<1> DEFINE b == Home(t)
           k == call[t].key
           h == Target(t)[1]
<1>1. PICK s \in Target(t)[2] :
         /\ slot' = [slot EXCEPT ![t] = s]
         /\ IF h = "fresh" THEN slab_pool' = slab_pool
            ELSE slab_pool' = Release(slab_pool, slots[b][s])
  BY DEF InsertMatch
<1>2. /\ pc[t] = "match" /\ pc' = [pc EXCEPT ![t] = "write"] /\ how' = [how EXCEPT ![t] = h]
      /\ UNCHANGED <<num_buckets, meta, slots, call>>
  BY DEF InsertMatch, Goto, frame
<1> DEFINE x == <<b, s>>
<1>3. /\ s \in SlotIds /\ h \in {"update", "fresh", "evict"}
      /\ h = "fresh" <=> x \notin Occupied
      /\ h = "update" => KeyAt(x) = k
      /\ h # "update" => \A o \in Settled : KeyAt(o) # k
      /\ h = "evict" => FindEvictTarget(meta[b]) = {s}
      /\ x \notin GivenUp
  BY <1>1, <1>2, TargetIs
<1>4. /\ k \in Keys /\ b \in BucketIds
      /\ \A u \in Threads \ {t} : pc[u] \in Holding => Home(u) # b
  BY <1>2, HeldSettled DEF Holding, Inside
<1> HIDE DEF h
<1>5. /\ pc'[t] = "write" /\ how'[t] = h /\ slot'[t] = s /\ Others(t)
  BY <1>1, <1>2 DEF ControlInv, Control, Others
<1>6. BucketIds' = BucketIds /\ Occupied' = Occupied BY <1>2 DEF BucketIds, Occupied
<1>7. Home(t)' = b /\ Place(t)' = x /\ call'[t].key = k BY <1>2, <1>5 DEF Home, Bucket, Place
<1>8. Settled' = Settled \ {x} /\ (h = "fresh" => Settled' = Settled)
  <2>1. GivenUp' = IF h = "fresh" THEN GivenUp ELSE GivenUp \cup {x}
    BY <1>2, <1>5, <1>7, GivenUpStep
  <2> QED BY <2>1, <1>3, <1>6 DEF Settled
<1>9. h # "fresh" => x \in Settled BY <1>3 DEF Settled
<1> HIDE DEF b, k, x
<1>10. /\ slab_pool' \in Pools /\ slab_pool'.entries = slab_pool.entries
       /\ Owned(slots, Settled \ {x}, slab_pool')
  <2>1. slab_pool \in Pools /\ Owned(slots, Settled, slab_pool) BY DEF TableInv, TableTypes
  <2>2. CASE h = "fresh"
    <3>1. Settled \ {x} = Settled BY <2>2, <1>8
    <3> QED BY <2>1, <2>2, <3>1, <1>1
  <2>3. CASE h # "fresh"
    <3>1. RightSlot(At(slots, x), slab_pool) BY <2>3, <1>9 DEF TableInv, Filed
    <3>2. slab_pool' = Release(slab_pool, At(slots, x)) BY <2>3, <1>1 DEF At, x
    <3> QED BY <2>1, <2>3, <3>1, <3>2, <1>9, ReleaseIs
  <2> QED BY <2>2, <2>3
<1>11. Owned(slots, Settled, slab_pool)' BY <1>2, <1>8, <1>10
<1>12. \A o \in Settled' : KeyAt(o)' = KeyAt(o) /\ ValueAt(o)' = ValueAt(o)
                              /\ RightSlot(At(slots, o), slab_pool)' /\ o \in Settled
  BY <1>2, <1>8, <1>10, KeptAt DEF At
<1>13. StepIn(t, b)
  <2>1. \A o \in Settled \ Settled' : o[1] = b BY <1>8 DEF x
  <2> QED BY <2>1, <1>2, <1>4, <1>5, <1>8, <1>12 DEF StepIn
<1>14. ReadyToWrite(t)'
  <2>1. ASSUME h = "update" PROVE meta'[b].h2[s] = H2[k]
    BY <2>1, <1>2, <1>3, <1>9 DEF TableInv, Filed, x
  <2>2. ASSUME NEW o \in Settled' PROVE KeyAt(o)' # k
    <3>1. o \in Settled /\ o # x /\ KeyAt(o)' = KeyAt(o) BY <2>2, <1>8, <1>12
    <3>2. CASE h = "update"
      <4>1. x \in Settled /\ KeyAt(x) = k BY <3>2, <1>3, <1>9
      <4> QED BY <3>1, <4>1 DEF TableInv, KeysApart
    <3>3. CASE h # "update" BY <3>1, <3>3, <1>3
    <3> QED BY <3>2, <3>3
  <2> QED BY <2>1, <2>2, <1>2, <1>3, <1>5, <1>6, <1>7 DEF ReadyToWrite
<1>15. \A u \in Threads : ThreadRight(u)'
  <2>1. ThreadRight(t)' BY <1>5, <1>14 DEF ThreadRight
  <2> QED BY <2>1, <1>13, OthersRight
<1>16. TableTypes' BY <1>2, <1>6, <1>10 DEF TableInv, TableTypes
<1>17. KeysApart' BY <1>8, <1>12 DEF TableInv, KeysApart
<1>18. ASSUME NEW o \in Settled' PROVE Filed(o)'
  <2>1. Filed(o) BY <1>12 DEF TableInv
  <2>2. Bucket(KeyAt(o))' = Bucket(KeyAt(o)) BY <1>2, <1>12 DEF Bucket
  <2> QED BY <2>1, <2>2, <1>2, <1>12 DEF Filed
<1>19. TableInv' BY <1>11, <1>15, <1>16, <1>17, <1>18 DEF TableInv
<1> QED BY <1>1, <1>3, <1>5, <1>6, <1>7, <1>8, <1>9, <1>12, <1>19 DEF h, x

(* The pair is written.                                                    *)
LEMMA WriteTable ==
    ASSUME ControlInv, TableInv, NEW t \in Threads, Write(t)
    PROVE  /\ TableInv' /\ pc[t] = "write" /\ pc'[t] = "stamp" /\ Place(t) \notin Settled
           /\ Occupied' = Occupied \cup {Place(t)} /\ Settled' = Settled \cup {Place(t)}
           /\ \A o \in Settled : KeyAt(o)' = KeyAt(o) /\ ValueAt(o)' = ValueAt(o)
           /\ KeyAt(Place(t))' = call[t].key /\ ValueAt(Place(t))' = call[t].val
<1> DEFINE b == Home(t)
           s == slot[t]
           k == call[t].key
           v == call[t].val
           x == <<b, s>>
           p == slab_pool
           c == WrittenSlot(p, k, v)
           w == IF how[t] = "update" THEN OnAccess(meta[b], s) ELSE Occupy(meta[b], s, H2[k])
<1>1. /\ slots' = [slots EXCEPT ![b][s] = c] /\ slab_pool' = PoolAfterWrite(p, k, v)
      /\ meta' = [meta EXCEPT ![b] = w]
  BY DEF Write, Occupy
<1>2. /\ pc[t] = "write" /\ pc' = [pc EXCEPT ![t] = "stamp"]
      /\ UNCHANGED <<num_buckets, call, slot, how>>
  BY DEF Write, Goto, frame, registers
<1>3. pc[t] \in Holding /\ pc[t] \in Inside /\ Op(t) = "insert"
  BY <1>2 DEF ControlInv, CallsRight, OpsAt, Holding, Inside
<1>4. k \in Keys /\ v \in Values /\ b \in BucketIds /\ s \in SlotIds
  BY <1>3, CallIs DEF ControlInv, Control
<1>5. \A u \in Threads \ {t} : pc[u] \in Holding => Home(u) # b BY <1>3, OneHolder
<1>6. ReadyToWrite(t) BY <1>2 DEF TableInv, ThreadRight
<1>7. x = Place(t) /\ Bucket(k) = b BY DEF Place, Home
<1>8. H2[k] \in Nat BY <1>4, SharedAssumption
<1>9. x \notin Settled
  <2>1. <<Home(t), slot[t]>> \in GivenUp <=> how[t] # "fresh" BY <1>2, <1>3, GivenUpIs
  <2> QED BY <2>1, <1>6, <1>7 DEF ReadyToWrite, Settled
<1>10. /\ meta \in [BucketIds -> MetaWords(Nat)] /\ slots \in [BucketIds -> [SlotIds -> SlotTypes]]
       /\ p \in Pools /\ Owned(slots, Settled, p)
  BY DEF TableInv, TableTypes
<1> HIDE DEF b, s, k, v
<1>11. /\ w \in MetaWords(Nat) /\ w.h2 = [meta[b].h2 EXCEPT ![s] = H2[k]]
       /\ FullSlots(w) = FullSlots(meta[b]) \cup {s}
  <2>1. meta[b] \in MetaWords(Nat) BY <1>4, <1>10
  <2> DEFINE m == meta[b]
  <2> HIDE DEF m
  <2>2. m \in MetaWords(Nat) BY <2>1 DEF m
  <2>3. CASE how[t] = "update"
    <3>1. w = OnAccess(m, s) BY <2>3 DEF m
    <3>2. w \in MetaWords(Nat) /\ w.h2 = m.h2 /\ FullSlots(w) = FullSlots(m)
      BY <3>1, <2>2, <1>4, OnAccessIs
    <3>3. m.h2[s] = H2[k] BY <2>3, <1>6 DEF ReadyToWrite, m, b, s, k
    <3>4. m.h2 = [m.h2 EXCEPT ![s] = H2[k]] BY <3>3, <2>2 DEF MetaWords
    <3>5. x \in Occupied BY <2>3, <1>6, <1>7 DEF ReadyToWrite
    <3>6. s \in FullSlots(m) BY <3>5, <1>4, PlacesIn DEF m
    <3> QED BY <3>2, <3>4, <3>6 DEF m
  <2>4. CASE how[t] # "update"
    <3>1. w = Occupy(m, s, H2[k]) BY <2>4 DEF m
    <3> QED BY <3>1, <2>2, <1>4, <1>8, OccupyIs DEF m
  <2> QED BY <2>3, <2>4
<1> HIDE DEF w
<1>12. /\ meta' \in [BucketIds -> MetaWords(Nat)] /\ \A a \in BucketIds \ {b} : meta'[a] = meta[a]
       /\ meta'[b] = w
  BY <1>1, <1>4, <1>10, <1>11
<1>13. meta'[b].h2[s] = H2[k] /\ \A r \in SlotIds \ {s} : meta'[b].h2[r] = meta[b].h2[r]
  <2>1. meta[b].h2 \in [SlotIds -> Nat] BY <1>4, <1>10 DEF MetaWords
  <2> QED BY <2>1, <1>4, <1>11, <1>12
<1>14. BucketIds' = BucketIds BY <1>2 DEF BucketIds
<1>15. Occupied' = Occupied \cup {x}
  <2>1. \A a \in BucketIds, r \in SlotIds :
           r \in FullSlots(meta'[a]) <=> r \in FullSlots(meta[a]) \/ <<a, r>> = x
    BY <1>4, <1>11, <1>12
  <2>2. \A o : o \in Occupied' <=> o \in Occupied \/ o = x
    BY <2>1, <1>4, <1>14 DEF Occupied
  <2> QED BY <2>2
<1>16. pc'[t] = "stamp" /\ Others(t) BY <1>2 DEF ControlInv, Control, Others
<1>17. Settled' = Settled \cup {x}
  <2>1. GivenUp' = GivenUp \ {x} BY <1>2, <1>7, <1>16, GivenUpStep
  <2> QED BY <2>1, <1>15 DEF Settled
<1>18. \A o \in Settled : At(slots', o) = At(slots, o)
  <2> TAKE o \in Settled
  <2>1. o # x /\ o[1] \in BucketIds /\ o[2] \in SlotIds /\ o = <<o[1], o[2]>>
    BY <1>9, PlacesIn DEF Settled
  <2> QED BY <2>1, <1>1, <1>4, <1>10 DEF At
<1>19. At(slots', x) = c BY <1>1, <1>4, <1>10 DEF At
<1>20. Written(slots, slots', Settled, p, x, k, v)
  <2>1. Writes(slots, slots', Settled, p, x, k, v)
    BY <1>4, <1>9, <1>10, <1>18, <1>19 DEF Writes
  <2> HIDE DEF p, x
  <2> QED BY <2>1, WriteIs
<1>21. /\ slab_pool' \in Pools /\ c \in SlotTypes /\ Owned(slots', Settled \cup {x}, slab_pool')
       /\ \A i \in Live(slots, Settled) : slab_pool'.entries[i] = p.entries[i]
       /\ RightSlot(c, slab_pool') /\ SlotKey(c, slab_pool') = k /\ SlotValue(c, slab_pool') = v
  BY <1>1, <1>20 DEF Written
<1>22. slots' \in [BucketIds -> [SlotIds -> SlotTypes]] BY <1>1, <1>4, <1>10, <1>21
<1>23. Owned(slots, Settled, slab_pool)' BY <1>17, <1>21
<1>24. \A o \in Settled : KeyAt(o)' = KeyAt(o) /\ ValueAt(o)' = ValueAt(o)
                              /\ RightSlot(At(slots, o), slab_pool)'
  <2> TAKE o \in Settled
  <2>1. At(slots, o)' = At(slots, o) BY <1>18 DEF At
  <2> QED BY <2>1, <1>21, KeptAt
<1>25. PICK y : y = x OBVIOUS
<1>26. Place(t) = y /\ Place(t)' = y /\ y[1] = b /\ y[2] = s
  BY <1>2, <1>7, <1>25 DEF Place, Home, Bucket
<1>27. At(slots, y)' = c BY <1>19, <1>25 DEF At
<1> HIDE DEF x, c, p
<1>28. KeyAt(y)' = k /\ ValueAt(y)' = v /\ RightSlot(At(slots, y), slab_pool)'
  <2>1. KeyAt(y)' = SlotKey(c, slab_pool') /\ ValueAt(y)' = SlotValue(c, slab_pool')
    BY <1>27 DEF KeyAt, ValueAt, At
  <2> QED BY <2>1, <1>21, <1>27
<1>29. Settled' = Settled \cup {y} BY <1>17, <1>25
<1>30. StepIn(t, b)
  <2>1. \A o \in Settled' \ Settled : KeyAt(o)' = k BY <1>28, <1>29
  <2> QED BY <2>1, <1>2, <1>5, <1>7, <1>12, <1>16, <1>24, <1>29 DEF StepIn
<1>31. HasWritten(t)'
  <2>1. KeyAt(Place(t))' = k /\ ValueAt(Place(t))' = v BY <1>26, <1>28 DEF KeyAt, ValueAt
  <2>2. call'[t].key = k /\ call'[t].val = v BY <1>2 DEF k, v
  <2> QED BY <2>1, <2>2, <1>15, <1>25, <1>26 DEF HasWritten
<1>32. \A u \in Threads : ThreadRight(u)'
  <2>1. ThreadRight(t)' BY <1>16, <1>31 DEF ThreadRight
  <2> QED BY <2>1, <1>30, OthersRight
<1>33. TableTypes' BY <1>12, <1>14, <1>21, <1>22 DEF TableTypes
<1>34. KeysApart'
  <2>1. \A o \in Settled : KeyAt(o)' # k BY <1>6, <1>24 DEF ReadyToWrite, k
  <2> QED BY <2>1, <1>24, <1>28, <1>29 DEF TableInv, KeysApart
<1>35. ASSUME NEW o \in Settled' PROVE Filed(o)'
  <2>1. CASE o \in Settled
    <3>1. Filed(o) BY <2>1 DEF TableInv
    <3>2. Bucket(KeyAt(o))' = Bucket(KeyAt(o)) BY <2>1, <1>2, <1>24 DEF Bucket
    <3>3. o # y /\ o[1] \in BucketIds /\ o[2] \in SlotIds /\ o = <<o[1], o[2]>>
      BY <2>1, <1>9, <1>25, PlacesIn DEF Settled
    <3>4. meta'[o[1]].h2[o[2]] = meta[o[1]].h2[o[2]] BY <3>3, <1>12, <1>13, <1>25 DEF x
    <3> QED BY <2>1, <3>1, <3>2, <3>4, <1>24 DEF Filed
  <2>2. CASE o = y
    <3>1. Bucket(KeyAt(o))' = b BY <2>2, <1>2, <1>7, <1>28 DEF Bucket
    <3> QED BY <2>2, <3>1, <1>13, <1>26, <1>28 DEF Filed
  <2> QED BY <2>1, <2>2, <1>29
<1>36. TableInv' BY <1>23, <1>32, <1>33, <1>34, <1>35 DEF TableInv
<1>37. KeyAt(Place(t))' = k /\ ValueAt(Place(t))' = v BY <1>26, <1>28 DEF KeyAt, ValueAt
<1> QED BY <1>2, <1>9, <1>15, <1>16, <1>17, <1>24, <1>25, <1>26, <1>36, <1>37 DEF k, v

-----------------------------------------------------------------------------
(* Resize.  The ranks of the members of a finite set of places are the     *)
(* numbers below its size, each taken once.                                *)
LEMMA RankIs ==
    ASSUME NEW S \in SUBSET (Nat \X Nat), IsFiniteSet(S)
    PROVE  /\ Cardinality(S) \in Nat
           /\ \A p \in S : Rank(p, S) \in 0 .. (Cardinality(S) - 1)
           /\ \A p, q \in S : Rank(p, S) = Rank(q, S) => p = q
           /\ \A i \in 0 .. (Cardinality(S) - 1) : \E p \in S : Rank(p, S) = i
<1> DEFINE L(p) == {q \in S : Before(q, p)}
           N == Cardinality(S)
<1>1. \A p : IsFiniteSet(L(p)) /\ Cardinality(L(p)) \in Nat /\ Rank(p, S) = Cardinality(L(p))
  BY FS_Subset, FS_CardinalityType DEF Rank
<1>2. N \in Nat BY FS_CardinalityType
<1>3. ASSUME NEW p \in S, NEW q \in S, Before(p, q) PROVE Rank(p, S) < Rank(q, S)
  <2>1. p \notin L(p) BY <1>3 DEF Before
  <2>2. L(p) \cup {p} \subseteq L(q)
    <3>1. ASSUME NEW r \in S, Before(r, p) PROVE Before(r, q) BY <1>3, <3>1 DEF Before
    <3> QED BY <1>3, <3>1
  <2> DEFINE A == L(p)
             B == L(q)
  <2>3. /\ IsFiniteSet(A) /\ IsFiniteSet(B) /\ p \notin A /\ A \cup {p} \in SUBSET B
        /\ Rank(p, S) = Cardinality(A) /\ Rank(q, S) = Cardinality(B)
        /\ Cardinality(A) \in Nat /\ Cardinality(B) \in Nat
    BY <1>1, <2>1, <2>2
  <2> HIDE DEF A, B, L
  <2>4. Cardinality(A \cup {p}) = Cardinality(A) + 1 BY <2>3, FS_AddElement
  <2>5. Cardinality(A \cup {p}) <= Cardinality(B) BY <2>3, FS_Subset
  <2> QED BY <2>3, <2>4, <2>5
<1>4. ASSUME NEW p \in S PROVE Rank(p, S) \in 0 .. (N - 1)
  <2>1. L(p) \in SUBSET (S \ {p}) BY DEF Before
  <2>2. IsFiniteSet(S \ {p}) /\ Cardinality(S \ {p}) = N - 1 BY FS_RemoveElement
  <2>3. Cardinality(L(p)) <= N - 1
    <3> HIDE DEF L, N
    <3>1. Cardinality(L(p)) <= Cardinality(S \ {p}) BY <2>1, <2>2, FS_Subset
    <3> QED BY <2>2, <3>1
  <2> HIDE DEF L, N
  <2> QED BY <1>1, <1>2, <2>3
<1>5. ASSUME NEW p \in S, NEW q \in S, Rank(p, S) = Rank(q, S) PROVE p = q
  <2>1. Rank(p, S) \in Nat BY <1>1
  <2>2. Before(p, q) \/ Before(q, p) \/ p = q BY DEF Before
  <2> QED BY <1>3, <1>5, <2>1, <2>2
<1>6. ASSUME NEW i \in 0 .. (N - 1) PROVE \E p \in S : Rank(p, S) = i
  <2> DEFINE T == 0 .. (N - 1)
             f == [p \in S |-> Rank(p, S)]
  <2>1. IsFiniteSet(T) /\ Cardinality(T) = N
    <3> HIDE DEF N
    <3> QED BY <1>2, FS_Interval
  <2>2. f \in [S -> T] /\ \A p, q \in S : f[p] = f[q] => p = q
    <3> HIDE DEF N
    <3> QED BY <1>4, <1>5
  <2>3. i \in T OBVIOUS
  <2> HIDE DEF T, f
  <2>4. f \in Injection(S, T) BY <2>2, Fun_IsInj
  <2>5. f \in Surjection(S, T) BY <2>1, <2>4, FS_Injection
  <2>6. PICK p \in S : f[p] = i BY <2>3, <2>5, Fun_SurjectionProperties
  <2> QED BY <2>6 DEF f
<1> QED BY <1>2, <1>4, <1>5, <1>6

(* Where an entry goes in a table of n buckets.                            *)
Destination(o, n) == <<Index(KeyAt(o), n), Rank(o, MovesTo(n, Index(KeyAt(o), n)))>>

(* Nothing overflows, and no two entries go to one place.                  *)
LEMMA MovedIs ==
    ASSUME ControlInv, NEW n \in Nat, n > 0, FitsIn(n), \A o \in Occupied : KeyAt(o) \in Keys
    PROVE  /\ \A o \in Occupied :
                 LET x == Destination(o, n)
                 IN  x[1] \in 0 .. (n - 1) /\ x[2] \in SlotIds /\ Moved(n, x[1], x[2]) = {o}
           /\ \A b \in 0 .. (n - 1), s \in SlotIds : Moved(n, b, s) # {} =>
                 \E o \in Occupied : Moved(n, b, s) = {o} /\ Destination(o, n) = <<b, s>>
<1>1. Occupied \in SUBSET (Nat \X Nat) /\ IsFiniteSet(Occupied)
  <2>1. BucketIds \subseteq Nat BY DEF ControlInv, Size, BucketIds
  <2> QED BY <2>1, SlotIdsNat, PlacesIn DEF Occupied
<1>2. ASSUME NEW b \in 0 .. (n - 1)
      PROVE  /\ \A p \in MovesTo(n, b) : Rank(p, MovesTo(n, b)) \in SlotIds
             /\ \A p, q \in MovesTo(n, b) : Rank(p, MovesTo(n, b)) = Rank(q, MovesTo(n, b)) => p = q
  <2> DEFINE M == MovesTo(n, b)
  <2>1. M \in SUBSET (Nat \X Nat) /\ IsFiniteSet(M)
    <3>1. M \in SUBSET Occupied BY DEF MovesTo
    <3> QED BY <3>1, <1>1, FS_Subset
  <2>2. Cardinality(M) <= SlotsPerBucket BY <1>2 DEF FitsIn
  <2> HIDE DEF M
  <2> DEFINE c == Cardinality(M)
  <2>3. /\ c \in Nat /\ \A p \in M : Rank(p, M) \in 0 .. (c - 1)
        /\ \A p, q \in M : Rank(p, M) = Rank(q, M) => p = q
    BY <2>1, RankIs
  <2>4. c <= SlotsPerBucket BY <2>2
  <2> HIDE DEF c
  <2>5. \A p \in M : Rank(p, M) \in SlotIds BY <2>3, <2>4, MetaAssumption DEF SlotIds
  <2> QED BY <2>3, <2>5 DEF M
<1>3. ASSUME NEW b \in 0 .. (n - 1), NEW s, NEW o \in Moved(n, b, s)
      PROVE  Moved(n, b, s) = {o} /\ Destination(o, n) = <<b, s>> /\ o \in Occupied
  <2>1. o \in MovesTo(n, b) /\ Rank(o, MovesTo(n, b)) = s BY <1>3 DEF Moved
  <2>2. \A q \in Moved(n, b, s) : q = o BY <2>1, <1>2 DEF Moved
  <2>3. o \in Occupied /\ Index(KeyAt(o), n) = b BY <2>1 DEF MovesTo
  <2> QED BY <2>1, <2>2, <2>3, <1>3 DEF Destination
<1>4. ASSUME NEW o \in Occupied
      PROVE  LET x == Destination(o, n)
             IN  x[1] \in 0 .. (n - 1) /\ x[2] \in SlotIds /\ Moved(n, x[1], x[2]) = {o}
  <2> DEFINE b == Index(KeyAt(o), n)
             s == Rank(o, MovesTo(n, b))
  <2>1. b \in 0 .. (n - 1)
    <3>1. Hash[KeyAt(o)] \in Nat BY SharedAssumption
    <3> QED BY <3>1, DivMod DEF Index
  <2>2. o \in MovesTo(n, b) BY DEF MovesTo
  <2>3. s \in SlotIds BY <2>1, <2>2, <1>2
  <2>4. o \in Moved(n, b, s) BY <2>2 DEF Moved
  <2> HIDE DEF b, s
  <2>5. Moved(n, b, s) = {o} BY <2>1, <2>4, <1>3
  <2>6. Destination(o, n) = <<b, s>> BY DEF Destination, b, s
  <2> QED BY <2>1, <2>3, <2>5, <2>6
<1> QED BY <1>3, <1>4

(* The entries of the new pool.                                            *)
LEMMA NewEntryIs ==
    ASSUME ControlInv, \A o \in Occupied : KeyAt(o) \in Keys /\ ValueAt(o) \in Values
    PROVE  LET N == Cardinality(Spilled)
           IN  /\ N \in Nat
               /\ \A o \in Spilled : /\ Rank(o, Spilled) + 1 \in 1 .. N
                                     /\ NewEntry(Rank(o, Spilled) + 1) = [key |-> KeyAt(o), val |-> ValueAt(o)]
               /\ \A o, q \in Spilled : Rank(o, Spilled) + 1 = Rank(q, Spilled) + 1 => o = q
               /\ \A i \in 1 .. N : /\ \E o \in Spilled : Rank(o, Spilled) + 1 = i
                                    /\ NewEntry(i) \in [key : Keys, val : Values]
<1> DEFINE N == Cardinality(Spilled)
           r(o) == Rank(o, Spilled)
<1>1. Spilled \in SUBSET (Nat \X Nat) /\ IsFiniteSet(Spilled)
  <2>1. BucketIds \subseteq Nat BY DEF ControlInv, Size, BucketIds
  <2>2. Occupied \in SUBSET (Nat \X Nat) BY <2>1, SlotIdsNat DEF Occupied
  <2>3. Spilled \in SUBSET Occupied BY DEF Spilled
  <2> QED BY <2>2, <2>3, PlacesIn, FS_Subset
<1>2. /\ N \in Nat /\ \A o \in Spilled : r(o) \in 0 .. (N - 1)
      /\ \A o, q \in Spilled : r(o) = r(q) => o = q
      /\ \A i \in 0 .. (N - 1) : \E o \in Spilled : r(o) = i
  BY <1>1, RankIs
<1> HIDE DEF N
<1>3. ASSUME NEW o \in Spilled
      PROVE  r(o) + 1 \in 1 .. N /\ NewEntry(r(o) + 1) = [key |-> KeyAt(o), val |-> ValueAt(o)]
  <2>1. r(o) \in 0 .. (N - 1) BY <1>2
  <2> DEFINE j == r(o)
             S == {q \in Spilled : r(q) = (j + 1) - 1}
  <2>2. (j + 1) - 1 = j /\ j + 1 \in 1 .. N
    <3>1. j \in 0 .. (N - 1) BY <2>1
    <3> HIDE DEF j
    <3> QED BY <3>1, <1>2
  <2>3. S = {o}
    <3>1. \A q \in Spilled : r(q) = j <=> q = o BY <1>2
    <3> HIDE DEF r, j
    <3> QED BY <2>2, <3>1
  <2>4. The(S) = o BY <2>3 DEF The
  <2>5. NewEntry(j + 1) = [key |-> KeyAt(The(S)), val |-> ValueAt(The(S))] BY DEF NewEntry
  <2> HIDE DEF S
  <2> QED BY <2>2, <2>4, <2>5
<1>4. \A o \in Spilled : o \in Occupied BY DEF Spilled
<1>5. ASSUME NEW i \in 1 .. N
      PROVE  /\ \E o \in Spilled : r(o) + 1 = i
             /\ NewEntry(i) \in [key : Keys, val : Values]
  <2>1. i - 1 \in 0 .. (N - 1) BY <1>2
  <2>2. PICK o \in Spilled : r(o) = i - 1 BY <2>1, <1>2
  <2>3. r(o) + 1 = i
    <3> HIDE DEF r
    <3> QED BY <2>2
  <2>4. NewEntry(i) = [key |-> KeyAt(o), val |-> ValueAt(o)] BY <2>3, <1>3
  <2> QED BY <2>3, <2>4, <1>4
<1>6. ASSUME NEW o \in Spilled, NEW q \in Spilled, r(o) + 1 = r(q) + 1 PROVE o = q
  <2>1. r(o) \in 0 .. (N - 1) /\ r(q) \in 0 .. (N - 1) BY <1>2
  <2>2. r(o) = r(q)
    <3> HIDE DEF r
    <3> QED BY <1>2, <1>6, <2>1
  <2> QED BY <2>2, <1>2
<1> QED BY <1>2, <1>3, <1>5, <1>6 DEF N

(* A resize moves every entry, with its stamp, to a place of its own.      *)
Relocated(n) ==
    /\ num_buckets' = n /\ n \in Nat /\ n > 0
    /\ Settled = Occupied /\ Settled' = Occupied'
    /\ \A x : x \in Occupied' <=> \E o \in Occupied : x = Destination(o, n)
    /\ \A o, q \in Occupied : Destination(o, n) = Destination(q, n) => o = q
    /\ \A o \in Occupied : \A x : x = Destination(o, n) =>
          /\ KeyAt(x)' = KeyAt(o) /\ ValueAt(x)' = ValueAt(o)
          /\ epochs'[x[1]][x[2]] = epochs[o[1]][o[2]]

(* What is in the place an entry is moved to.                              *)
LEMMA NewPlaceIs ==
    ASSUME ControlInv, TableInv, NEW n \in Nat, n > 0, FitsIn(n), Settled = Occupied,
           num_buckets' = n, meta' = Rehashed(n).meta, slots' = Rehashed(n).slots,
           epochs' = Rehashed(n).epochs, slab_pool' = Rehashed(n).pool,
           NEW o \in Occupied, NEW x, x = Destination(o, n)
    PROVE  /\ x \in Occupied' /\ x[1] = Index(KeyAt(o), n) /\ x[1] \in 0 .. (n - 1) /\ x[2] \in SlotIds
           /\ At(slots, x)' = NewSlot(o) /\ NewSlot(o) \in SlotTypes
           /\ meta'[x[1]].h2[x[2]] = H2[KeyAt(o)] /\ epochs'[x[1]][x[2]] = epochs[o[1]][o[2]]
           /\ SlotKey(NewSlot(o), slab_pool') = KeyAt(o) /\ SlotValue(NewSlot(o), slab_pool') = ValueAt(o)
           /\ RightSlot(NewSlot(o), slab_pool')
           /\ NewSlot(o).mode = 1 <=> o \in Spilled
           /\ o \in Spilled => NewSlot(o).idx = Rank(o, Spilled) + 1
<1> DEFINE ids == 0 .. (n - 1)
           N == Cardinality(Spilled)
           p == slab_pool'
<1>1. \A q \in Occupied : KeyAt(q) \in Keys /\ ValueAt(q) \in Values BY SettledIn
<1>2. x[1] \in ids /\ x[2] \in SlotIds /\ Moved(n, x[1], x[2]) = {o} /\ x = <<x[1], x[2]>>
  BY <1>1, MovedIs DEF Destination
<1>3. x[1] = Index(KeyAt(o), n) BY DEF Destination
<1>4. The(Moved(n, x[1], x[2])) = o /\ Moved(n, x[1], x[2]) # {} BY <1>2 DEF The
<1> HIDE DEF ids
<1>5. meta'[x[1]] = NewWord(n, x[1])
  <2>1. meta' = [b \in ids |-> NewWord(n, b)] BY RehashedIs DEF ids
  <2> QED BY <2>1, <1>2
<1>6. NewWord(n, x[1]).state[x[2]] = "Full" /\ NewWord(n, x[1]).h2[x[2]] = H2[KeyAt(o)]
  BY <1>2, <1>4 DEF NewWord
<1>7. x \in Occupied'
  <2>1. x[2] \in FullSlots(meta'[x[1]]) BY <1>2, <1>5, <1>6 DEF FullSlots
  <2>2. x \in ids \X SlotIds BY <1>2
  <2>3. BucketIds' = ids BY DEF BucketIds, ids
  <2> QED BY <2>1, <2>2, <2>3 DEF Occupied
<1>8. At(slots, x)' = NewSlot(o)
  <2> DEFINE c(b, s) == IF Moved(n, b, s) = {} THEN EmptySlot ELSE NewSlot(The(Moved(n, b, s)))
  <2>1. slots' = [b \in ids |-> [s \in SlotIds |-> c(b, s)]] BY RehashedIs DEF ids
  <2>2. c(x[1], x[2]) = NewSlot(o) BY <1>4
  <2> HIDE DEF c
  <2>3. slots'[x[1]] = [s \in SlotIds |-> c(x[1], s)] BY <2>1, <1>2
  <2> QED BY <2>2, <2>3, <1>2 DEF At
<1>9. epochs'[x[1]][x[2]] = epochs[o[1]][o[2]]
  <2> DEFINE c(b, s) == IF Moved(n, b, s) = {} THEN [epoch |-> 0, ttl |-> 0]
                        ELSE epochs[The(Moved(n, b, s))[1]][The(Moved(n, b, s))[2]]
  <2>1. epochs' = [b \in ids |-> [s \in SlotIds |-> c(b, s)]] BY RehashedIs DEF ids
  <2>2. c(x[1], x[2]) = epochs[o[1]][o[2]] BY <1>4
  <2> HIDE DEF c
  <2>3. epochs'[x[1]] = [s \in SlotIds |-> c(x[1], s)] BY <2>1, <1>2
  <2> QED BY <2>2, <2>3, <1>2
<1>10. slab_pool' = [entries |-> [i \in 1 .. N |-> NewEntry(i)], free |-> <<>>] BY RehashedIs
<1>11. p.entries = [i \in 1 .. N |-> NewEntry(i)] BY <1>10
<1> HIDE DEF p, N
<1> DEFINE k == KeyAt(o)
           v == ValueAt(o)
<1>12. k \in Keys /\ v \in Values BY <1>1
<1>13. CASE Fits(k, v)
  <2>1. NewSlot(o) = [mode |-> 0, key |-> k, val |-> v] /\ o \notin Spilled
    BY <1>13 DEF NewSlot, InlineSlot, Spilled
  <2> HIDE DEF k, v
  <2>2. /\ NewSlot(o) \in SlotTypes /\ NewSlot(o).mode = 0
        /\ SlotKey(NewSlot(o), p) = k /\ SlotValue(NewSlot(o), p) = v /\ RightSlot(NewSlot(o), p)
    BY <2>1, <1>12 DEF SlotTypes, SlotKey, SlotValue, RightSlot
  <2> QED BY <2>1, <2>2, <1>2, <1>3, <1>5, <1>6, <1>7, <1>8, <1>9 DEF k, v, p, ids
<1>14. CASE ~Fits(k, v)
  <2> DEFINE i == Rank(o, Spilled) + 1
  <2>1. NewSlot(o) = [mode |-> 1, fp |-> ExtFp[k], idx |-> i] /\ o \in Spilled
    BY <1>14 DEF NewSlot, SlabSlot, Spilled
  <2>2. N \in Nat /\ i \in 1 .. N /\ NewEntry(i) = [key |-> k, val |-> v]
    BY <2>1, <1>1, NewEntryIs DEF N
  <2> HIDE DEF k, v, i
  <2>3. i \in Nat BY <2>2
  <2>4. p.entries[i] = [key |-> k, val |-> v] BY <2>2, <1>11
  <2>5. /\ NewSlot(o) \in SlotTypes /\ NewSlot(o).mode = 1 /\ NewSlot(o).idx = i
        /\ SlotKey(NewSlot(o), p) = k /\ SlotValue(NewSlot(o), p) = v /\ RightSlot(NewSlot(o), p)
    BY <2>1, <2>3, <2>4, <1>12 DEF SlotTypes, SlotKey, SlotValue, RightSlot
  <2> QED BY <2>1, <2>5, <1>2, <1>3, <1>5, <1>6, <1>7, <1>8, <1>9 DEF k, v, p, ids, i
<1> QED BY <1>13, <1>14

(* A resize as a whole.                                                    *)
LEMMA GrowTable ==
    ASSUME ControlInv, TableInv, NEW t \in Threads, Grow(t)
    PROVE  TableInv' /\ \E n \in NewSize(PowerOfTwo(seen[t])) : Relocated(n)
<1>1. PICK n \in NewSize(PowerOfTwo(seen[t])) :
         /\ num_buckets' = n /\ meta' = Rehashed(n).meta /\ slots' = Rehashed(n).slots
         /\ epochs' = Rehashed(n).epochs /\ slab_pool' = Rehashed(n).pool
  BY DEF Grow
<1>2. n \in Nat /\ n > 0 /\ FitsIn(n)
  <2>1. seen[t] \in Nat BY DEF ControlInv, Control
  <2> QED BY <2>1, NewSizeIs
<1>3. (\A u \in Threads : pc[u] \notin Inside) /\ (\A u \in Threads : pc'[u] \notin Inside)
  <2>1. readers = {} /\ readers' = readers BY DEF Grow
  <2>2. ControlInv' BY GrowControl
  <2>3. readers' = {u \in Threads : pc'[u] \in Inside} BY <2>2 DEF ControlInv, Locked
  <2>4. readers = {u \in Threads : pc[u] \in Inside} BY DEF ControlInv, Locked
  <2> QED BY <2>1, <2>3, <2>4
<1>4. Settled = Occupied /\ Settled' = Occupied'
  <2>1. GivenUp = {} /\ GivenUp' = {} BY <1>3 DEF GivenUp, Inside
  <2> QED BY <2>1 DEF Settled
<1>5. \A o \in Occupied : KeyAt(o) \in Keys /\ ValueAt(o) \in Values BY <1>4, SettledIn
<1>6. ASSUME NEW o \in Occupied, NEW x, x = Destination(o, n)
      PROVE  /\ x \in Occupied' /\ x[1] = Index(KeyAt(o), n) /\ x[1] \in 0 .. (n - 1) /\ x[2] \in SlotIds
             /\ At(slots, x)' = NewSlot(o) /\ NewSlot(o) \in SlotTypes
             /\ meta'[x[1]].h2[x[2]] = H2[KeyAt(o)] /\ epochs'[x[1]][x[2]] = epochs[o[1]][o[2]]
             /\ SlotKey(NewSlot(o), slab_pool') = KeyAt(o)
             /\ SlotValue(NewSlot(o), slab_pool') = ValueAt(o)
             /\ RightSlot(NewSlot(o), slab_pool')
             /\ NewSlot(o).mode = 1 <=> o \in Spilled
             /\ o \in Spilled => NewSlot(o).idx = Rank(o, Spilled) + 1
  BY <1>1, <1>2, <1>4, <1>6, NewPlaceIs
<1>7. ASSUME NEW o \in Occupied, NEW x, x = Destination(o, n)
      PROVE  KeyAt(x)' = KeyAt(o) /\ ValueAt(x)' = ValueAt(o)
  <2>1. slots'[x[1]][x[2]] = NewSlot(o) BY <1>6, <1>7 DEF At
  <2>2. KeyAt(x)' = SlotKey(NewSlot(o), slab_pool') /\ ValueAt(x)' = SlotValue(NewSlot(o), slab_pool')
    BY <2>1 DEF KeyAt, ValueAt
  <2> QED BY <2>2, <1>6, <1>7
<1>8. BucketIds' = 0 .. (n - 1) BY <1>1 DEF BucketIds
<1>9. \A b \in 0 .. (n - 1), s \in SlotIds : Moved(n, b, s) # {} =>
         \E o \in Occupied : Moved(n, b, s) = {o} /\ Destination(o, n) = <<b, s>>
  BY <1>2, <1>5, MovedIs
<1>10. \A b \in 0 .. (n - 1) : meta'[b] = NewWord(n, b)
  <2>1. meta' = [b \in 0 .. (n - 1) |-> NewWord(n, b)] BY <1>1, RehashedIs
  <2> QED BY <2>1
<1>11. ASSUME NEW x \in Occupied' PROVE \E o \in Occupied : x = Destination(o, n)
  <2>1. x[1] \in 0 .. (n - 1) /\ x[2] \in SlotIds /\ x = <<x[1], x[2]>> /\ meta'[x[1]].state[x[2]] = "Full"
    BY <1>8 DEF Occupied, FullSlots
  <2>2. NewWord(n, x[1]).state[x[2]] = "Full" BY <2>1, <1>10
  <2>3. Moved(n, x[1], x[2]) # {} BY <2>1, <2>2 DEF NewWord
  <2> QED BY <2>1, <2>3, <1>9
<1>12. ASSUME NEW o \in Occupied, NEW q \in Occupied, Destination(o, n) = Destination(q, n) PROVE o = q
  <2>1. \A a \in Occupied : Moved(n, Destination(a, n)[1], Destination(a, n)[2]) = {a}
    BY <1>2, <1>5, MovedIs
  <2> QED BY <2>1, <1>12
<1>13. Relocated(n) BY <1>1, <1>2, <1>4, <1>6, <1>7, <1>11, <1>12 DEF Relocated
<1>14. meta' \in [BucketIds' -> MetaWords(Nat)]
  <2>1. meta' = [b \in 0 .. (n - 1) |-> NewWord(n, b)] BY <1>1, RehashedIs
  <2>2. ASSUME NEW b \in 0 .. (n - 1) PROVE NewWord(n, b) \in MetaWords(Nat)
    <3>1. ASSUME NEW s \in SlotIds, Moved(n, b, s) # {} PROVE H2[KeyAt(The(Moved(n, b, s)))] \in Nat
      <4>1. The(Moved(n, b, s)) \in Occupied BY <3>1, TheMoved
      <4> QED BY <4>1, <1>5, SharedAssumption
    <3> DEFINE E(s) == Moved(n, b, s) = {}
               h(s) == H2[KeyAt(The(Moved(n, b, s)))]
    <3>2. \A s \in SlotIds : ~E(s) => h(s) \in Nat BY <3>1
    <3>3. NewWord(n, b) = [state |-> [s \in SlotIds |-> IF E(s) THEN "Empty" ELSE "Full"],
                           h2 |-> [s \in SlotIds |-> IF E(s) THEN 0 ELSE h(s)],
                           freq |-> [s \in SlotIds |-> 0],
                           recency |-> [s \in SlotIds |-> IF E(s) THEN 0 ELSE 1]]
      BY DEF NewWord
    <3> HIDE DEF E, h
    <3> QED BY <3>2, <3>3, MetaAssumption DEF MetaWords, SlotStates
  <2> QED BY <2>1, <2>2, <1>8
<1>15. slots' \in [BucketIds' -> [SlotIds -> SlotTypes]]
  <2>1. slots' = [b \in 0 .. (n - 1) |-> [s \in SlotIds |->
                     IF Moved(n, b, s) = {} THEN EmptySlot ELSE NewSlot(The(Moved(n, b, s)))]]
    BY <1>1, RehashedIs
  <2>2. EmptySlot \in SlotTypes BY DEF EmptySlot, SlotTypes
  <2>3. ASSUME NEW b \in 0 .. (n - 1), NEW s \in SlotIds, Moved(n, b, s) # {}
        PROVE  NewSlot(The(Moved(n, b, s))) \in SlotTypes
    <3>1. The(Moved(n, b, s)) \in Occupied BY <2>3, TheMoved
    <3> QED BY <3>1, <1>6
  <2> QED BY <2>1, <2>2, <2>3, <1>8
<1> DEFINE N == Cardinality(Spilled)
           E == [key : Keys, val : Values]
           es == [i \in 1 .. N |-> NewEntry(i)]
           p == slab_pool'
           r(o) == Rank(o, Spilled) + 1
<1>16. p = [entries |-> es, free |-> <<>>] BY <1>1, RehashedIs
<1>17. /\ N \in Nat /\ \A o \in Spilled : r(o) \in 1 .. N
       /\ \A o, q \in Spilled : r(o) = r(q) => o = q
       /\ \A i \in 1 .. N : (\E o \in Spilled : r(o) = i) /\ NewEntry(i) \in E
  BY <1>5, NewEntryIs
<1> HIDE DEF N
<1>18. es \in [1 .. N -> E] BY <1>17
<1> HIDE DEF es, E
<1>19. es \in Seq(E) /\ DOMAIN es = 1 .. N BY <1>17, <1>18
<1>20. slab_pool' \in Pools BY <1>16, <1>19 DEF Pools, E
<1>21. Owned(slots, Settled, slab_pool)'
  <2> DEFINE R == Refs(slots', Occupied')
             V == Live(slots', Occupied')
  <2>1. ASSUME NEW x \in R
        PROVE  \E o \in Spilled : x = Destination(o, n) /\ At(slots', x).idx = r(o)
    <3>1. x \in Occupied' /\ At(slots', x).mode = 1 BY DEF Refs
    <3>2. PICK o \in Occupied : x = Destination(o, n) BY <3>1, <1>11
    <3>3. At(slots', x) = NewSlot(o) BY <3>2, <1>6 DEF At
    <3> QED BY <3>1, <3>2, <3>3, <1>6
  <2>2. ASSUME NEW o \in Spilled PROVE \E x \in R : At(slots', x).idx = r(o)
    <3>1. PICK x : x = Destination(o, n) OBVIOUS
    <3>2. o \in Occupied BY DEF Spilled
    <3>3. At(slots', x) = NewSlot(o) BY <3>1, <3>2, <1>6 DEF At
    <3> QED BY <3>1, <3>2, <3>3, <1>6 DEF Refs
  <2>3. V = 1 .. N
    <3> HIDE DEF r, R
    <3>1. V = {At(slots', x).idx : x \in R} BY DEF Live, R
    <3>2. \A i \in V : i \in 1 .. N BY <3>1, <2>1, <1>17
    <3>3. \A i \in 1 .. N : i \in V BY <3>1, <2>2, <1>17
    <3> QED BY <3>2, <3>3
  <2>4. \A x, y \in R : At(slots', x).idx = At(slots', y).idx => x = y
    <3> HIDE DEF r, R
    <3> QED BY <2>1, <1>17
  <2>5. PoolOwned(p, 1 .. N)
    <3>1. p.free = <<>> /\ p.entries = es BY <1>16
    <3>2. DOMAIN p.free = {} /\ OnFreeList(p) = {} BY <3>1 DEF OnFreeList
    <3> QED BY <3>1, <3>2, <1>19 DEF PoolOwned
  <2>6. Owned(slots', Occupied', p) BY <2>3, <2>4, <2>5 DEF Owned
  <2> QED BY <2>6, <1>4
<1>22. \A u \in Threads : ThreadRight(u)' BY <1>3 DEF ThreadRight, Inside
<1>23. TableTypes' BY <1>14, <1>15, <1>20 DEF TableTypes
<1>24. KeysApart' 
  <2> SUFFICES ASSUME NEW x \in Settled', NEW y \in Settled', KeyAt(x)' = KeyAt(y)' PROVE x = y
    BY DEF KeysApart
  <2>1. PICK o \in Occupied : x = Destination(o, n) BY <1>4, <1>11
  <2>2. PICK q \in Occupied : y = Destination(q, n) BY <1>4, <1>11
  <2>3. KeyAt(o) = KeyAt(q) BY <2>1, <2>2, <1>7
  <2>4. o = q BY <2>3, <1>4 DEF TableInv, KeysApart
  <2> QED BY <2>1, <2>2, <2>4
<1>25. ASSUME NEW x \in Settled' PROVE Filed(x)'
  <2>1. PICK o \in Occupied : x = Destination(o, n) BY <1>4, <1>11
  <2>2. KeyAt(x)' = KeyAt(o) BY <2>1, <1>7
  <2>3. Bucket(KeyAt(x))' = Index(KeyAt(o), n) BY <2>2, <1>1 DEF Bucket, Index
  <2> QED BY <2>1, <2>2, <2>3, <1>6 DEF Filed
<1>26. TableInv' BY <1>21, <1>22, <1>23, <1>24, <1>25 DEF TableInv
<1> QED BY <1>13, <1>26

-----------------------------------------------------------------------------
(* The table as a whole.                                                   *)

(* The initial table is empty.                                             *)
LEMMA InitTable == Init => TableInv
<1> SUFFICES ASSUME Init PROVE TableInv OBVIOUS
<1>1. Occupied = {} /\ Settled = {} BY EmptyMetaIs DEF Init, Occupied, Settled
<1>2. TableTypes
  <2>1. meta \in [BucketIds -> MetaWords(Nat)] BY EmptyMetaIs DEF Init
  <2>2. EmptySlot \in SlotTypes BY DEF EmptySlot, SlotTypes
  <2>3. slots \in [BucketIds -> [SlotIds -> SlotTypes]] BY <2>2 DEF Init
  <2> QED BY <2>1, <2>3, NewPoolIs DEF Init, TableTypes
<1>3. Owned(slots, Settled, slab_pool)
  <2>1. Refs(slots, Settled) = {} /\ Live(slots, Settled) = {} BY <1>1 DEF Refs, Live
  <2> QED BY <2>1, NewPoolIs DEF Init, Owned
<1>4. \A t \in Threads : ThreadRight(t) BY DEF Init, ThreadRight
<1> QED BY <1>1, <1>2, <1>3, <1>4 DEF TableInv, KeysApart

(* Every step keeps it right.                                              *)
LEMMA NextTable == ControlInv /\ TableInv /\ [Next]_vars => TableInv'
<1> SUFFICES ASSUME ControlInv, TableInv, [Next]_vars PROVE TableInv' OBVIOUS
<1>1. ASSUME NEW t \in Threads, Step(t) PROVE TableInv'
  <2>1. CASE ~ChangesTable(t) BY <1>1, <2>1, QuietRight
  <2>2. CASE Apply(t) BY <2>2, ApplyTable
  <2>3. CASE InsertMatch(t) BY <2>3, MatchTable
  <2>4. CASE Write(t) BY <2>4, WriteTable
  <2>5. CASE RemoveFound(t) BY <2>5, RemoveTable
  <2>6. CASE Grow(t) BY <2>6, GrowTable
  <2> QED BY <2>1, <2>2, <2>3, <2>4, <2>5, <2>6 DEF ChangesTable
<1>2. ASSUME NEW t \in Threads, NEW c \in Calls, Begin(t, c) PROVE TableInv'
  BY <1>2, BeginTable
<1>3. CASE UNCHANGED vars
  <2>1. UNCHANGED <<num_buckets, meta, slots, slab_pool, pc, how, slot, call>>
    BY <1>3 DEF vars, table, frame
  <2>2. BucketIds' = BucketIds /\ Occupied' = Occupied /\ GivenUp' = GivenUp /\ Settled' = Settled
    BY <2>1 DEF BucketIds, Occupied, GivenUp, Settled, Home, Bucket
  <2>3. \A o : KeyAt(o)' = KeyAt(o) /\ ValueAt(o)' = ValueAt(o) BY <2>1 DEF KeyAt, ValueAt
  <2>4. TableTypes' /\ KeysApart' BY <2>1, <2>2, <2>3 DEF TableInv, TableTypes, KeysApart
  <2>5. Owned(slots, Settled, slab_pool)' BY <2>1, <2>2 DEF TableInv
  <2>6. ASSUME NEW o \in Settled' PROVE Filed(o)'
    BY <2>1, <2>2, <2>3 DEF TableInv, Filed, At, Bucket
  <2>7. ASSUME NEW u \in Threads PROVE ThreadRight(u)'
    <3>1. Home(u)' = Home(u) /\ Place(u)' = Place(u) BY <2>1 DEF Home, Bucket, Place
    <3>2. KeyAt(Place(u))' = KeyAt(Place(u)) /\ ValueAt(Place(u))' = ValueAt(Place(u))
      BY <2>1, <3>1 DEF KeyAt, ValueAt
    <3>3. ThreadRight(u) BY DEF TableInv
    <3> QED BY <2>1, <2>2, <2>3, <3>1, <3>2, <3>3 DEF ThreadRight, ReadyToWrite, HasWritten, HasFound
  <2> QED BY <2>4, <2>5, <2>6, <2>7 DEF TableInv
<1> QED BY <1>1, <1>2, <1>3 DEF Next, Finished

(* The table is right in every reachable state: every key has one place,   *)
(* in its own bucket, and every thread finds what it left there.           *)
THEOREM SharedTable == Spec => []TableInv
<1>1. Init => TableInv BY InitTable
<1>2. ControlInv /\ TableInv /\ [Next]_vars => TableInv' BY NextTable
<1> QED BY <1>1, <1>2, SharedControl, PTL DEF Spec

(* Slab ownership in the words of MapLemmas.                               *)
LEMMA SlabOwnedIs == SlabOwned <=> Owned(slots, Settled, slab_pool)
<1>1. \A o : At(slots, o) = slots[o[1]][o[2]] BY DEF At
<1> DEFINE R == {o \in Settled : slots[o[1]][o[2]].mode = 1}
           L == {slots[o[1]][o[2]].idx : o \in R}
<1>2. Refs(slots, Settled) = R BY <1>1 DEF Refs
<1>3. Live(slots, Settled) = L BY <1>1, <1>2 DEF Live
<1>4. SlabOwned <=> /\ \A o, q \in R : slots[o[1]][o[2]].idx = slots[q[1]][q[2]].idx => o = q
                    /\ PoolOwned(slab_pool, L)
  BY DEF SlabOwned, PoolOwned, OnFreeList, Settled
<1> HIDE DEF R, L
<1> QED BY <1>1, <1>2, <1>3, <1>4 DEF Owned

(* Slab indices are owned linearly although an insertion frees the old     *)
(* entry and allocates the new one in two critical sections, between which *)
(* other threads free and allocate (sync.rs, insert_internal and remove).  *)
THEOREM SharedSlabOwned == Spec => []SlabOwned
<1>1. TableInv => SlabOwned BY SlabOwnedIs DEF TableInv
<1> QED BY <1>1, SharedTable, PTL

(* The victim of an eviction is still the coldest entry of its bucket when *)
(* it is overwritten: hits that other threads drain in between take the    *)
(* bucket's lock (sync.rs, the callback of drain).                         *)
THEOREM SharedVictimColdest == Spec => []VictimColdest
<1>1. TableInv => VictimColdest BY DEF TableInv, ThreadRight, ReadyToWrite, VictimColdest
<1> QED BY <1>1, SharedTable, PTL

-----------------------------------------------------------------------------
(* len().  A thread is ahead of the counter when it has filled a free slot *)
(* and not counted it, and behind when it has emptied one.                 *)
Adding   == {t \in Threads : how[t] = "fresh" /\ pc[t] \in {"stamp", "settle"}}
Removing == {t \in Threads : pc[t] = "uncount"}
Adds(t)    == IF how[t] = "fresh" /\ pc[t] \in {"stamp", "settle"} THEN 1 ELSE 0
Removes(t) == IF pc[t] = "uncount" THEN 1 ELSE 0

CountInv == count \in Int /\ CountAccounts

(* A member of a finite set comes or goes, or neither.                     *)
LEMMA OneMore ==
    ASSUME NEW S, NEW T, NEW x, IsFiniteSet(S), \A y : y # x => (y \in S <=> y \in T)
    PROVE  /\ IsFiniteSet(T) /\ Cardinality(S) \in Nat /\ Cardinality(T) \in Nat
           /\ Cardinality(T) + (IF x \in S THEN 1 ELSE 0) = Cardinality(S) + (IF x \in T THEN 1 ELSE 0)
<1>1. Cardinality(S) \in Nat BY FS_CardinalityType
<1>2. CASE x \in S /\ x \in T
  <2>1. S = T BY <1>2
  <2> QED BY <1>1, <1>2, <2>1
<1>3. CASE x \notin S /\ x \notin T
  <2>1. S = T BY <1>3
  <2> QED BY <1>1, <1>3, <2>1
<1>4. CASE x \in S /\ x \notin T
  <2>1. T = S \ {x} BY <1>4
  <2>2. IsFiniteSet(T) /\ Cardinality(T) = Cardinality(S) - 1 BY <2>1, <1>4, FS_RemoveElement
  <2>3. Cardinality(T) \in Nat BY <2>2, FS_CardinalityType
  <2> QED BY <1>1, <1>4, <2>2, <2>3
<1>5. CASE x \notin S /\ x \in T
  <2>1. T = S \cup {x} BY <1>5
  <2>2. IsFiniteSet(T) /\ Cardinality(T) = Cardinality(S) + 1 BY <2>1, <1>5, FS_AddElement
  <2> QED BY <1>1, <1>5, <2>2
<1> QED BY <1>2, <1>3, <1>4, <1>5

(* Only the thread that takes a step comes or goes.                        *)
LEMMA FlowStep ==
    ASSUME NEW t \in Threads, Others(t)
    PROVE  /\ {Cardinality(Adding), Cardinality(Removing)} \subseteq Nat
           /\ {Cardinality(Adding'), Cardinality(Removing')} \subseteq Nat
           /\ Cardinality(Adding') + Adds(t) = Cardinality(Adding) + Adds(t)'
           /\ Cardinality(Removing') + Removes(t) = Cardinality(Removing) + Removes(t)'
<1>1. IsFiniteSet(Adding) /\ IsFiniteSet(Removing)
  <2>1. Adding \in SUBSET Threads /\ Removing \in SUBSET Threads BY DEF Adding, Removing
  <2> QED BY <2>1, SharedAssumption, FS_Subset
<1> DEFINE A == Adding'
           R == Removing'
<1>2. \A y : y # t => (y \in Adding <=> y \in A) BY DEF Others, Adding
<1>3. \A y : y # t => (y \in Removing <=> y \in R) BY DEF Others, Removing
<1>4. /\ (IF t \in Adding THEN 1 ELSE 0) = Adds(t) /\ (IF t \in A THEN 1 ELSE 0) = Adds(t)'
      /\ (IF t \in Removing THEN 1 ELSE 0) = Removes(t) /\ (IF t \in R THEN 1 ELSE 0) = Removes(t)'
  BY DEF Adding, Removing, Adds, Removes
<1> HIDE DEF A, R
<1>5. /\ Cardinality(Adding) \in Nat /\ Cardinality(A) \in Nat
      /\ Cardinality(A) + Adds(t) = Cardinality(Adding) + Adds(t)'
  BY <1>1, <1>2, <1>4, OneMore
<1>6. /\ Cardinality(Removing) \in Nat /\ Cardinality(R) \in Nat
      /\ Cardinality(R) + Removes(t) = Cardinality(Removing) + Removes(t)'
  BY <1>1, <1>3, <1>4, OneMore
<1> QED BY <1>5, <1>6 DEF A, R

(* A step that leaves the table alone counts what it says it counts.       *)
LEMMA QuietCount ==
    ASSUME ControlInv, count \in Int, NEW t \in Threads, Step(t), ~ChangesTable(t)
    PROVE  /\ count' \in Int
           /\ count' + Adds(t)' + Removes(t) = count + Adds(t) + Removes(t)'
<1> USE DEF ControlInv, Control, Goto, Leave, counters, registers, AfterGrow, Adds, Removes
<1>1. CASE Enter(t) BY <1>1 DEF Enter
<1>2. CASE Acquire(t) BY <1>2 DEF Acquire
<1>3. CASE CheckLoad(t) BY <1>3 DEF CheckLoad
<1>4. CASE Tick(t) BY <1>4 DEF Tick
<1>5. CASE DrainTake(t) BY <1>5 DEF DrainTake
<1>6. CASE DrainEnd(t) BY <1>6 DEF DrainEnd
<1>7. CASE Stamp(t) BY <1>7 DEF Stamp
<1>8. CASE InsertEnd(t) BY <1>8 DEF InsertEnd, Counts
<1>9. CASE LookupMiss(t) BY <1>9 DEF LookupMiss
<1>10. CASE LookupFound(t) BY <1>10 DEF LookupFound
<1>11. CASE LookupExpired(t) BY <1>11 DEF LookupExpired
<1>12. CASE PeekLive(t) BY <1>12 DEF PeekLive
<1>13. CASE GetLive(t) BY <1>13 DEF GetLive
<1>14. CASE GetPush(t) BY <1>14 DEF GetPush
<1>15. CASE GetCopy(t) BY <1>15 DEF GetCopy
<1>16. CASE RemoveEnd(t) BY <1>16 DEF RemoveEnd
<1>17. CASE RemoveMissing(t) BY <1>17 DEF RemoveMissing
<1>18. CASE SetTtl(t) BY <1>18 DEF SetTtl
<1>19. CASE GrowSkip(t) BY <1>19 DEF GrowSkip
<1> QED BY <1>1, <1>2, <1>3, <1>4, <1>5, <1>6, <1>7, <1>8, <1>9, <1>10, <1>11, <1>12, <1>13,
           <1>14, <1>15, <1>16, <1>17, <1>18, <1>19
        DEF ChangesTable, Step, Insert, Lookup, Remove

(* The arithmetic of a step.                                               *)
LEMMA Balance ==
    ASSUME NEW c \in Int, NEW c1 \in Int, NEW a \in Nat, NEW a1 \in Nat, NEW r \in Nat, NEW r1 \in Nat,
           NEW o \in Nat, NEW o1 \in Nat, NEW da \in Nat, NEW da1 \in Nat, NEW dr \in Nat, NEW dr1 \in Nat,
           c + a = o + r, a1 + da = a + da1, r1 + dr = r + dr1,
           c1 + da1 + dr + o = c + da + dr1 + o1
    PROVE  c1 + a1 = o1 + r1
OBVIOUS

(* What a step must count.                                                 *)
LEMMA CountKept ==
    ASSUME CountInv, NEW t \in Threads, Others(t), count' \in Int,
           Cardinality(Occupied) \in Nat, Cardinality(Occupied') \in Nat,
           count' + Adds(t)' + Removes(t) + Cardinality(Occupied)
              = count + Adds(t) + Removes(t)' + Cardinality(Occupied')
    PROVE  CountInv'
<1>1. count \in Int /\ count + Cardinality(Adding) = Cardinality(Occupied) + Cardinality(Removing)
  BY DEF CountInv, CountAccounts, Adding, Removing
<1>2. {Adds(t), Adds(t)', Removes(t), Removes(t)'} \subseteq Nat BY DEF Adds, Removes
<1> DEFINE a == Cardinality(Adding)
           a1 == Cardinality(Adding')
           r == Cardinality(Removing)
           r1 == Cardinality(Removing')
           o == Cardinality(Occupied)
           o1 == Cardinality(Occupied')
           da == Adds(t)
           da1 == Adds(t)'
           dr == Removes(t)
           dr1 == Removes(t)'
           c == count
           c1 == count'
<1>3. /\ a \in Nat /\ a1 \in Nat /\ r \in Nat /\ r1 \in Nat
      /\ a1 + da = a + da1 /\ r1 + dr = r + dr1
  BY FlowStep
<1>4. c + a = o + r /\ c \in Int /\ c1 \in Int /\ o \in Nat /\ o1 \in Nat BY <1>1
<1>5. c1 + da1 + dr + o = c + da + dr1 + o1 OBVIOUS
<1>6. da \in Nat /\ da1 \in Nat /\ dr \in Nat /\ dr1 \in Nat BY <1>2
<1> HIDE DEF a, a1, r, r1, o, o1, da, da1, dr, dr1, c, c1
<1>7. c1 + a1 = o1 + r1 BY <1>3, <1>4, <1>5, <1>6, Balance
<1> QED BY <1>4, <1>7 DEF a1, o1, r1, c1, CountInv, CountAccounts, Adding, Removing

(* Every step of a call.                                                   *)
LEMMA StepCount ==
    ASSUME ControlInv, TableInv, CountInv, NEW t \in Threads, Step(t)
    PROVE  CountInv'
<1>1. /\ Others(t) /\ count \in Int /\ IsFiniteSet(Occupied) /\ Cardinality(Occupied) \in Nat
  BY StepOthers, PlacesIn, FS_CardinalityType DEF CountInv
<1>2. {Adds(t), Adds(t)', Removes(t), Removes(t)'} \subseteq Nat BY DEF Adds, Removes
<1> DEFINE o == Cardinality(Occupied)
           o1 == Cardinality(Occupied')
<1>3. CASE ~ChangesTable(t)
  <2>1. Occupied' = Occupied BY <1>1, <1>3, QuietIs, SameTable
  <2>2. count' \in Int /\ count' + Adds(t)' + Removes(t) = count + Adds(t) + Removes(t)'
    BY <1>1, <1>3, QuietCount
  <2>3. o1 = o /\ o \in Nat BY <1>1, <2>1
  <2> HIDE DEF o, o1
  <2>4. count' + Adds(t)' + Removes(t) + o = count + Adds(t) + Removes(t)' + o1 BY <2>2, <2>3
  <2> QED BY <1>1, <2>2, <2>3, <2>4, CountKept DEF o, o1
<1>4. CASE Apply(t)
  <2>1. /\ pc[t] = "apply" /\ pc'[t] = "drain" /\ count' = count /\ Occupied' = Occupied
    BY <1>4, ApplyTable DEF Apply, Goto, counters, ControlInv, Control
  <2>2. Adds(t) = 0 /\ Adds(t)' = 0 /\ Removes(t) = 0 /\ Removes(t)' = 0 BY <2>1 DEF Adds, Removes
  <2> QED BY <1>1, <2>1, <2>2, CountKept
<1>5. CASE InsertMatch(t)
  <2>1. /\ pc[t] = "match" /\ pc'[t] = "write" /\ count' = count /\ Occupied' = Occupied
    BY <1>5, MatchTable DEF InsertMatch
  <2>2. Adds(t) = 0 /\ Adds(t)' = 0 /\ Removes(t) = 0 /\ Removes(t)' = 0 BY <2>1 DEF Adds, Removes
  <2> QED BY <1>1, <2>1, <2>2, CountKept
<1>6. CASE Write(t)
  <2>1. /\ pc[t] = "write" /\ pc'[t] = "stamp" /\ count' = count /\ how'[t] = how[t]
        /\ Occupied' = Occupied \cup {Place(t)}
    BY <1>6, WriteTable DEF Write, counters, registers
  <2>2. how[t] = "fresh" <=> Place(t) \notin Occupied
    BY <2>1 DEF TableInv, ThreadRight, ReadyToWrite
  <2>3. o1 = IF Place(t) \in Occupied THEN o ELSE o + 1 BY <1>1, <2>1, FS_AddElement
  <2>4. /\ Adds(t) = 0 /\ Removes(t) = 0 /\ Removes(t)' = 0
        /\ Adds(t)' = IF how[t] = "fresh" THEN 1 ELSE 0
    BY <2>1 DEF Adds, Removes
  <2>5. o \in Nat BY <1>1
  <2> HIDE DEF o, o1
  <2>6. o1 = o + Adds(t)' BY <2>2, <2>3, <2>4, <2>5
  <2>7. o1 \in Nat /\ count' + Adds(t)' + Removes(t) + o = count + Adds(t) + Removes(t)' + o1
    BY <1>1, <1>2, <2>1, <2>4, <2>5, <2>6
  <2> QED BY <1>1, <2>1, <2>5, <2>7, CountKept DEF o, o1
<1>7. CASE RemoveFound(t)
  <2>1. /\ pc[t] = "match" /\ pc'[t] = "uncount" /\ count' = count
    BY <1>7 DEF RemoveFound, counters, Goto, ControlInv, Control
  <2>2. PICK x \in Occupied : Occupied' = Occupied \ {x} BY <1>7, RemoveTable DEF Settled
  <2>3. o1 = o - 1 BY <1>1, <2>2, FS_RemoveElement
  <2>4. o \in Nat /\ o1 \in Nat BY <1>1, <2>2, FS_RemoveElement, FS_CardinalityType
  <2>5. Adds(t) = 0 /\ Removes(t) = 0 /\ Adds(t)' = 0 /\ Removes(t)' = 1 BY <2>1 DEF Adds, Removes
  <2> HIDE DEF o, o1
  <2>6. count' + Adds(t)' + Removes(t) + o = count + Adds(t) + Removes(t)' + o1
    BY <1>1, <2>1, <2>3, <2>4, <2>5
  <2> QED BY <1>1, <2>1, <2>4, <2>6, CountKept DEF o, o1
<1>8. CASE Grow(t)
  <2>1. count' = o BY <1>8 DEF Grow
  <2>2. PICK n : Relocated(n) BY <1>8, GrowTable
  <2>3. Cardinality(Occupied') = o
    <3> DEFINE f == [p \in Occupied |-> Destination(p, n)]
               T == Occupied'
    <3>1. f \in [Occupied -> T] /\ \A p, q \in Occupied : f[p] = f[q] => p = q
      BY <2>2 DEF Relocated
    <3>2. \A x \in T : \E p \in Occupied : f[p] = x BY <2>2 DEF Relocated
    <3> HIDE DEF f, T
    <3>3. f \in Bijection(Occupied, T) BY <3>1, <3>2, Fun_IsBij
    <3>4. ExistsBijection(Occupied, T) BY <3>3 DEF ExistsBijection
    <3> QED BY <1>1, <3>4, FS_Bijection DEF T
  <2>4. \A u \in Threads : pc'[u] \notin Inside
    <3>1. readers' = {} /\ ControlInv' BY <1>8, GrowControl DEF Grow
    <3> QED BY <3>1 DEF ControlInv, Locked
  <2>5. Adding' = {} /\ Removing' = {} BY <2>4 DEF Adding, Removing, Inside
  <2>6. Cardinality({}) = 0 BY FS_EmptySet
  <2> QED BY <1>1, <2>1, <2>3, <2>5, <2>6 DEF CountInv, CountAccounts, Adding, Removing
<1> QED BY <1>3, <1>4, <1>5, <1>6, <1>7, <1>8 DEF ChangesTable

(* len() accounts for the calls in flight: every insertion into a free     *)
(* slot and every removal is counted once, although the counter is changed *)
(* after the table, and a resize in between stores a fresh count (sync.rs, *)
(* insert_internal, remove and resize).                                    *)
THEOREM SharedCount == Spec => []CountInv
<1>1. Init => CountInv
  <2> SUFFICES ASSUME Init PROVE CountInv OBVIOUS
  <2>1. Occupied = {} BY EmptyMetaIs DEF Init, Occupied
  <2>2. Adding = {} /\ Removing = {} BY DEF Init, Adding, Removing
  <2>3. Cardinality({}) = 0 BY FS_EmptySet
  <2>4. count = 0 BY DEF Init
  <2>5. CountAccounts <=> count + Cardinality(Adding) = Cardinality(Occupied) + Cardinality(Removing)
    BY DEF CountAccounts, Adding, Removing
  <2> QED BY <2>1, <2>2, <2>3, <2>4, <2>5 DEF CountInv
<1>2. ControlInv /\ TableInv /\ CountInv /\ [Next]_vars => CountInv'
  <2> SUFFICES ASSUME ControlInv, TableInv, CountInv, [Next]_vars PROVE CountInv' OBVIOUS
  <2>1. ASSUME NEW t \in Threads, NEW c \in Calls, Begin(t, c) PROVE CountInv'
    <3>1. Occupied' = Occupied /\ count' = count BY <2>1, BeginTable DEF Begin, counters
    <3>2. /\ pc[t] = "idle" /\ pc'[t] \notin {"stamp", "settle", "uncount"} /\ Others(t)
      BY <2>1 DEF ControlInv, Control, Begin, Goto, Others
    <3>3. Adds(t) = 0 /\ Adds(t)' = 0 /\ Removes(t) = 0 /\ Removes(t)' = 0 BY <3>2 DEF Adds, Removes
    <3>4. Cardinality(Occupied) \in Nat /\ count \in Int BY PlacesIn, FS_CardinalityType DEF CountInv
    <3> QED BY <3>1, <3>2, <3>3, <3>4, CountKept
  <2>2. CASE UNCHANGED vars
    <3>1. UNCHANGED <<num_buckets, meta, count, how, pc>> BY <2>2 DEF vars, table, counters
    <3> QED BY <3>1 DEF CountInv, CountAccounts, Occupied, BucketIds
  <2> QED BY <2>1, <2>2, StepCount DEF Next, Finished
<1> QED BY <1>1, <1>2, SharedControl, SharedTable, PTL DEF Spec

(* The property that the runs check.                                       *)
THEOREM SharedCountAccounts == Spec => []CountAccounts
<1>1. CountInv => CountAccounts BY DEF CountInv
<1> QED BY <1>1, SharedCount, PTL

(* The counter never goes below zero: every insertion that is ahead of it  *)
(* has filled a place of its own.                                          *)
LEMMA CountNatural ==
    ASSUME ControlInv, TableInv, CountInv
    PROVE  count \in Nat
<1> DEFINE f == [t \in Adding |-> Place(t)]
<1>1. \A t \in Adding : t \in Threads /\ pc[t] \in Holding /\ Place(t) \in Occupied
  BY DEF Adding, Holding, Inside, TableInv, ThreadRight, HasWritten
<1>2. \A t, u \in Adding : Place(t) = Place(u) => t = u
  <2> TAKE t, u \in Adding
  <2> HAVE Place(t) = Place(u)
  <2>1. Home(t) = Home(u) BY DEF Place
  <2> QED BY <2>1, <1>1, OneHolder
<1>3. f \in [Adding -> Occupied] /\ \A t, u \in Adding : f[t] = f[u] => t = u BY <1>1, <1>2
<1> HIDE DEF f
<1>4. f \in Injection(Adding, Occupied) BY <1>3, Fun_IsInj
<1>5. IsFiniteSet(Occupied) BY PlacesIn
<1>6. Cardinality(Adding) <= Cardinality(Occupied) BY <1>4, <1>5, FS_Injection
<1>7. IsFiniteSet(Adding) BY <1>4, <1>5, FS_Injection
<1>8. IsFiniteSet(Removing)
  <2>1. Removing \in SUBSET Threads BY DEF Removing
  <2> QED BY <2>1, SharedAssumption, FS_Subset
<1> DEFINE a == Cardinality(Adding)
           r == Cardinality(Removing)
           o == Cardinality(Occupied)
<1>9. a \in Nat /\ r \in Nat /\ o \in Nat /\ a <= o BY <1>5, <1>6, <1>7, <1>8, FS_CardinalityType
<1>10. count \in Int /\ count + a = o + r BY DEF CountInv, CountAccounts, Adding, Removing
<1> HIDE DEF a, r, o
<1> QED BY <1>9, <1>10

(* Every variable keeps its type, whatever the threads do.                 *)
THEOREM SharedTypes == Spec => []TypeOK
<1>1. ControlInv /\ TableInv /\ CountInv => TypeOK
  <2> SUFFICES ASSUME ControlInv, TableInv, CountInv PROVE TypeOK OBVIOUS
  <2>1. count \in Nat BY CountNatural
  <2>2. readers \subseteq Threads BY DEF ControlInv, Locked
  <2>3. buffer \in Seq(BucketIds \X SlotIds \X Nat)
    <3> DEFINE P == BucketIds \X SlotIds \X Nat
    <3>1. Places \subseteq P BY DEF ControlInv, Size, Places
    <3>2. buffer \in Seq(Places) BY DEF ControlInv, Hinted
    <3> DEFINE n == Len(buffer)
    <3>3. n \in Nat /\ buffer \in [1 .. n -> Places] BY <3>2
    <3> HIDE DEF P, n
    <3>4. buffer \in [1 .. n -> P] BY <3>1, <3>3
    <3>5. buffer \in Seq(P) BY <3>3, <3>4
    <3> QED BY <3>5 DEF P
  <2>4. /\ meta \in [BucketIds -> MetaWords(Nat)] /\ slots \in [BucketIds -> [SlotIds -> SlotTypes]]
        /\ slab_pool \in [entries : Seq([key : Keys, val : Values]), free : Seq(Nat)]
    BY DEF TableInv, TableTypes, Pools
  <2> QED BY <2>1, <2>2, <2>3, <2>4 DEF ControlInv, Size, Control, Locked, TypeOK
<1> QED BY <1>1, SharedControl, SharedTable, SharedCount, PTL

-----------------------------------------------------------------------------
(* What lookups find.                                                      *)
EntryAt(o) == [val |-> ValueAt(o), epoch |-> epochs[o[1]][o[2]].epoch,
               ttl |-> epochs[o[1]][o[2]].ttl]

(* In a bucket where nothing is given up a lookup finds the settled entry. *)
EntriesFound ==
    \A k \in Keys : (\A s : <<Bucket(k), s>> \notin GivenUp) =>
        /\ \A o \in Settled : KeyAt(o) = k => EntryIn(Bucket(k), k) = EntryAt(o)
        /\ (\A o \in Settled : KeyAt(o) # k) => EntryIn(Bucket(k), k) = NoEntry

(* The invariants make it so.                                              *)
LEMMA EntryIs == ControlInv /\ TableInv => EntriesFound
<1> SUFFICES ASSUME ControlInv, TableInv, NEW k \in Keys, \A s : <<Bucket(k), s>> \notin GivenUp
             PROVE  /\ \A o \in Settled : KeyAt(o) = k => EntryIn(Bucket(k), k) = EntryAt(o)
                    /\ (\A o \in Settled : KeyAt(o) # k) => EntryIn(Bucket(k), k) = NoEntry
  BY DEF EntriesFound
<1> DEFINE b == Bucket(k)
<1>1. /\ \A s \in SlotOf(b, k) : <<b, s>> \in Settled /\ KeyAt(<<b, s>>) = k
      /\ \A o \in Settled : KeyAt(o) = k => o[1] = b /\ SlotOf(b, k) = {o[2]}
  BY SearchIs
<1> HIDE DEF b
<1>2. ASSUME NEW o \in Settled, KeyAt(o) = k PROVE EntryIn(b, k) = EntryAt(o)
  <2>1. o[1] = b /\ SlotOf(b, k) = {o[2]} BY <1>1, <1>2
  <2>2. The(SlotOf(b, k)) = o[2] /\ SlotOf(b, k) # {} BY <2>1 DEF The
  <2>3. EntryIn(b, k) = [val |-> SlotValue(slots[b][o[2]], slab_pool),
                         epoch |-> epochs[b][o[2]].epoch, ttl |-> epochs[b][o[2]].ttl]
    BY <2>2 DEF EntryIn
  <2> QED BY <2>1, <2>3 DEF EntryAt, ValueAt
<1>3. ASSUME \A o \in Settled : KeyAt(o) # k PROVE EntryIn(b, k) = NoEntry
  <2>1. SlotOf(b, k) = {} BY <1>1, <1>3
  <2> QED BY <2>1 DEF EntryIn
<1> QED BY <1>2, <1>3 DEF b

(* A torn bucket is one whose holder writes.                               *)
TornHeld ==
    \A b \in BucketIds : /\ Torn(b) <=> \E u \in Threads : pc[u] \in {"write", "stamp"} /\ Home(u) = b
                         /\ ~Torn(b) => \A s : <<b, s>> \notin GivenUp

(* The locks and the program counters say which buckets are torn.          *)
LEMMA TornIs == ControlInv => TornHeld
<1> SUFFICES ASSUME ControlInv, NEW b \in BucketIds
             PROVE  /\ Torn(b) <=> \E u \in Threads : pc[u] \in {"write", "stamp"} /\ Home(u) = b
                    /\ ~Torn(b) => \A s : <<b, s>> \notin GivenUp
  BY DEF TornHeld
<1>1. \A u \in Threads : locks[b] = u <=> pc[u] \in Holding /\ Home(u) = b BY DEF ControlInv, Locked
<1>2. "write" \in Holding /\ "stamp" \in Holding BY DEF Holding, Inside
<1>3. Torn(b) <=> \E u \in Threads : pc[u] \in {"write", "stamp"} /\ Home(u) = b
  BY <1>1, <1>2 DEF Torn
<1>4. ASSUME NEW s, <<b, s>> \in GivenUp PROVE Torn(b)
  <2>1. PICK u \in Threads : pc[u] = "write" /\ <<b, s>> = Place(u) BY <1>4, GivenUpIs
  <2> QED BY <2>1, <1>3 DEF Place
<1> QED BY <1>3, <1>4

(* The history of commits is right about every bucket that is not torn.    *)
StoreRight == \A k \in Keys : ~Torn(Bucket(k)) => EntryIn(Bucket(k), k) = store[k]

(* What it takes for a key's entry to stay.                                *)
Untouched(b) ==
    /\ Torn(b)' <=> Torn(b)
    /\ \A o : o[1] = b => (o \in Settled' <=> o \in Settled)
    /\ \A o \in Settled : o[1] = b =>
          /\ KeyAt(o)' = KeyAt(o) /\ ValueAt(o)' = ValueAt(o)
          /\ epochs'[o[1]][o[2]] = epochs[o[1]][o[2]]

(* The entry of a key stays while its bucket is untouched.                 *)
LEMMA EntryKept ==
    ASSUME ControlInv, TableInv, ControlInv', TableInv', NEW k \in Keys, NEW b, b = Bucket(k),
           num_buckets' = num_buckets, Untouched(b), ~Torn(b)
    PROVE  EntryIn(Bucket(k), k)' = EntryIn(Bucket(k), k)
<1>1. EntriesFound /\ TornHeld BY EntryIs, TornIs
<1>2. EntriesFound' /\ TornHeld'
  <2>1. (ControlInv /\ TableInv => EntriesFound)' BY EntryIs, PTL
  <2>2. (ControlInv => TornHeld)' BY TornIs, PTL
  <2> QED BY <2>1, <2>2
<1>3. b = Bucket(k) OBVIOUS
<1>4. Bucket(k)' = b /\ BucketIds' = BucketIds /\ b \in BucketIds
  BY <1>3, PlacesIn DEF Bucket, BucketIds
<1>5. ~Torn(b) /\ ~Torn(b)' BY DEF Untouched
<1>6. (\A s : <<b, s>> \notin GivenUp) /\ (\A s : <<b, s>> \notin GivenUp')
  BY <1>1, <1>2, <1>4, <1>5 DEF TornHeld
<1>7. /\ \A o \in Settled : KeyAt(o) = k => EntryIn(b, k) = EntryAt(o)
      /\ (\A o \in Settled : KeyAt(o) # k) => EntryIn(b, k) = NoEntry
  BY <1>1, <1>3, <1>6 DEF EntriesFound
<1>8. /\ \A o \in Settled' : KeyAt(o)' = k => EntryIn(Bucket(k), k)' = EntryAt(o)'
      /\ (\A o \in Settled' : KeyAt(o)' # k) => EntryIn(Bucket(k), k)' = NoEntry
  BY <1>2, <1>4, <1>6 DEF EntriesFound
<1>9. /\ \A o \in Settled : KeyAt(o) = k => o[1] = b
      /\ \A o \in Settled' : KeyAt(o)' = k => o[1] = b
  <2>1. \A o \in Settled : KeyAt(o) = k => o[1] = b BY <1>3 DEF TableInv, Filed
  <2>2. ASSUME NEW o \in Settled', KeyAt(o)' = k PROVE o[1] = b
    <3>1. Bucket(KeyAt(o))' = o[1] BY DEF TableInv, Filed
    <3> QED BY <2>2, <3>1, <1>4 DEF Bucket
  <2> QED BY <2>1, <2>2
<1>10. CASE \E o \in Settled : KeyAt(o) = k
  <2>1. PICK o \in Settled : KeyAt(o) = k BY <1>10
  <2>2. o[1] = b BY <2>1, <1>9
  <2>3. /\ o \in Settled' /\ KeyAt(o)' = k /\ ValueAt(o)' = ValueAt(o)
        /\ epochs'[o[1]][o[2]] = epochs[o[1]][o[2]]
    BY <2>1, <2>2, <1>3 DEF Untouched
  <2>4. EntryAt(o)' = EntryAt(o) BY <2>3 DEF EntryAt
  <2> QED BY <2>1, <2>3, <2>4, <1>3, <1>7, <1>8
<1>11. CASE \A o \in Settled : KeyAt(o) # k
  <2>1. ASSUME NEW o \in Settled', KeyAt(o)' = k PROVE FALSE
    <3>1. o[1] = b BY <2>1, <1>9
    <3>2. o \in Settled /\ KeyAt(o)' = KeyAt(o) BY <2>1, <3>1, <1>3 DEF Untouched
    <3> QED BY <2>1, <3>2, <1>11
  <2> QED BY <2>1, <1>3, <1>7, <1>8, <1>11
<1> QED BY <1>10, <1>11

Commits(t) == Stamp(t) \/ RemoveFound(t)
(* Which steps write stamps and history, and which enter or leave the      *)
(* middle of an insertion.                                                 *)
LEMMA StepEffects ==
    ASSUME ControlInv, NEW t \in Threads, Step(t), ~Grow(t)
    PROVE  /\ Commits(t) \/ store' = store
           /\ Stamp(t) \/ epochs' = epochs
           /\ pc[t] \in {"write", "stamp"} => Write(t) \/ Stamp(t)
           /\ pc'[t] \in {"write", "stamp"} => InsertMatch(t) \/ Write(t)
<1> USE DEF ControlInv, Control, Goto, Leave, table, AfterGrow, Commits
<1>1. CASE Enter(t) BY <1>1 DEF Enter
<1>2. CASE Acquire(t) BY <1>2 DEF Acquire
<1>3. CASE CheckLoad(t) BY <1>3 DEF CheckLoad
<1>4. CASE Tick(t) BY <1>4 DEF Tick
<1>5. CASE DrainTake(t) BY <1>5 DEF DrainTake
<1>6. CASE DrainEnd(t) BY <1>6 DEF DrainEnd
<1>7. CASE Apply(t) BY <1>7 DEF Apply
<1>8. CASE InsertMatch(t) BY <1>8 DEF InsertMatch
<1>9. CASE Write(t) BY <1>9 DEF Write
<1>10. CASE Stamp(t) BY <1>10 DEF Stamp
<1>11. CASE InsertEnd(t) BY <1>11 DEF InsertEnd
<1>12. CASE LookupMiss(t) BY <1>12 DEF LookupMiss
<1>13. CASE LookupFound(t) BY <1>13 DEF LookupFound
<1>14. CASE LookupExpired(t) BY <1>14 DEF LookupExpired
<1>15. CASE PeekLive(t) BY <1>15 DEF PeekLive
<1>16. CASE GetLive(t) BY <1>16 DEF GetLive
<1>17. CASE GetPush(t) BY <1>17 DEF GetPush
<1>18. CASE GetCopy(t) BY <1>18 DEF GetCopy
<1>19. CASE RemoveFound(t) BY <1>19 DEF RemoveFound
<1>20. CASE RemoveEnd(t) BY <1>20 DEF RemoveEnd
<1>21. CASE RemoveMissing(t) BY <1>21 DEF RemoveMissing
<1>22. CASE SetTtl(t) BY <1>22 DEF SetTtl
<1>23. CASE GrowSkip(t) BY <1>23 DEF GrowSkip
<1> QED BY <1>1, <1>2, <1>3, <1>4, <1>5, <1>6, <1>7, <1>8, <1>9, <1>10, <1>11, <1>12, <1>13,
           <1>14, <1>15, <1>16, <1>17, <1>18, <1>19, <1>20, <1>21, <1>22, <1>23
        DEF Step, Insert, Lookup, Remove

(* A step leaves every bucket alone but the one it holds, and that one too *)
(* unless it writes, stamps or removes.                                    *)
LEMMA StepElsewhere ==
    ASSUME ControlInv, TableInv, ControlInv', NEW t \in Threads, Step(t), ~Grow(t), NEW b \in BucketIds,
           b # Home(t) \/ ~(InsertMatch(t) \/ Write(t) \/ Commits(t))
    PROVE  Untouched(b)
<1>1. num_buckets' = num_buckets /\ BucketIds' = BucketIds /\ \A u : Home(u)' = Home(u) BY StepFrame
<1>2. Others(t) BY StepOthers
<1>3. Torn(b)' <=> Torn(b)
  <2>1. TornHeld BY TornIs
  <2>2. TornHeld'
    <3>1. (ControlInv => TornHeld)' BY TornIs, PTL
    <3> QED BY <3>1
  <2>3. Torn(b) <=> \E u \in Threads : pc[u] \in {"write", "stamp"} /\ Home(u) = b
    BY <2>1 DEF TornHeld
  <2>4. Torn(b)' <=> \E u \in Threads : pc'[u] \in {"write", "stamp"} /\ Home(u) = b
    BY <2>2, <1>1 DEF TornHeld
  <2>5. \A u \in Threads \ {t} : pc'[u] = pc[u] BY <1>2 DEF Others
  <2>6. Home(t) = b => pc[t] \notin {"write", "stamp"} /\ pc'[t] \notin {"write", "stamp"}
    BY StepEffects DEF Commits
  <2> QED BY <2>3, <2>4, <2>5, <2>6
<1>4. ASSUME NEW o \in Settled, o[1] = b PROVE epochs'[o[1]][o[2]] = epochs[o[1]][o[2]]
  <2>1. CASE ~Stamp(t) BY <2>1, StepEffects
  <2>2. CASE Stamp(t)
    <3>1. epochs' = [epochs EXCEPT ![Home(t)][slot[t]] = [epoch |-> current_epoch, ttl |-> call[t].n]]
      BY <2>2 DEF Stamp
    <3>2. b # Home(t) BY <2>2 DEF Commits
    <3>3. epochs'[b] = epochs[b] BY <3>1, <3>2 DEF ControlInv, Control
    <3> QED BY <3>3, <1>4
  <2> QED BY <2>1, <2>2
<1>5. /\ \A o : o[1] = b => (o \in Settled' <=> o \in Settled)
      /\ \A o \in Settled : o[1] = b => KeyAt(o)' = KeyAt(o) /\ ValueAt(o)' = ValueAt(o)
  <2>1. CASE ~ChangesTable(t) BY <2>1, <1>2, QuietIs, SameTable
  <2>2. CASE Apply(t) BY <2>2, ApplyTable
  <2>3. CASE InsertMatch(t)
    <3>1. b # Home(t) BY <2>3
    <3>2. Place(t)' = <<Home(t), slot'[t]>> BY <1>1 DEF Place
    <3>3. /\ Settled' = Settled \/ Settled' = Settled \ {Place(t)'}
          /\ \A o \in Settled' : KeyAt(o)' = KeyAt(o) /\ ValueAt(o)' = ValueAt(o)
      BY <2>3, MatchTable
    <3> QED BY <3>1, <3>2, <3>3
  <2>4. CASE Write(t)
    <3>1. b # Home(t) BY <2>4
    <3>2. Place(t)[1] = Home(t) BY DEF Place
    <3>3. /\ Settled' = Settled \cup {Place(t)}
          /\ \A o \in Settled : KeyAt(o)' = KeyAt(o) /\ ValueAt(o)' = ValueAt(o)
      BY <2>4, WriteTable
    <3> QED BY <3>1, <3>2, <3>3
  <2>5. CASE RemoveFound(t)
    <3>1. b # Home(t) BY <2>5 DEF Commits
    <3>2. PICK s : /\ Settled' = Settled \ {<<Home(t), s>>}
                   /\ \A o \in Settled' : KeyAt(o)' = KeyAt(o) /\ ValueAt(o)' = ValueAt(o)
      BY <2>5, RemoveTable
    <3> QED BY <3>1, <3>2
  <2> QED BY <2>1, <2>2, <2>3, <2>4, <2>5 DEF ChangesTable
<1> QED BY <1>3, <1>4, <1>5 DEF Untouched

(* Every step of a call but a resize keeps the history right.              *)
LEMMA StoreStep ==
    ASSUME ControlInv, TableInv, ControlInv', TableInv', StoreRight,
           NEW t \in Threads, Step(t), ~Grow(t)
    PROVE  StoreRight'
<1>1. num_buckets' = num_buckets /\ BucketIds' = BucketIds /\ \A u : Home(u)' = Home(u) BY StepFrame
<1>2. ASSUME NEW k \in Keys, ~Torn(Bucket(k))' PROVE EntryIn(Bucket(k), k)' = store'[k]
  <2>1. PICK b : b = Bucket(k) OBVIOUS
  <2>2. b \in BucketIds /\ Bucket(k)' = b BY <2>1, <1>1, PlacesIn DEF Bucket
  <2>3. ~Torn(b)' BY <1>2, <2>2 DEF Torn
  <2>4. CASE Commits(t) /\ b = Home(t)
    <3>1. Commit(t) BY <2>4 DEF Commits, Stamp, RemoveFound
    <3>2. store'[k] = EntryIn(Home(t), k)' BY <2>1, <2>4, <3>1 DEF Commit
    <3>3. EntryIn(Home(t), k)' = EntryIn(Bucket(k), k)' BY <2>2, <2>4, <1>1 DEF EntryIn
    <3> QED BY <3>2, <3>3
  <2>5. CASE ~(Commits(t) /\ b = Home(t))
    <3>1. ASSUME b = Home(t) PROVE ~(InsertMatch(t) \/ Write(t))
      <4>1. TornHeld'
        <5>1. (ControlInv => TornHeld)' BY TornIs, PTL
        <5> QED BY <5>1
      <4>2. pc'[t] \notin {"write", "stamp"} BY <4>1, <2>2, <2>3, <3>1, <1>1 DEF TornHeld
      <4> QED BY <4>2, MatchTable, WriteTable
    <3>2. Untouched(b) BY <2>2, <2>5, <3>1, StepElsewhere
    <3>3. ~Torn(b) BY <2>3, <3>2 DEF Untouched
    <3>4. EntryIn(Bucket(k), k)' = EntryIn(Bucket(k), k) BY <2>1, <3>2, <3>3, <1>1, EntryKept
    <3>5. store'[k] = store[k]
      <4>1. CASE ~Commits(t) BY <4>1, StepEffects
      <4>2. CASE Commits(t)
        <5>1. Commit(t) BY <4>2 DEF Commits, Stamp, RemoveFound
        <5> QED BY <2>1, <2>5, <4>2, <5>1 DEF Commit
      <4> QED BY <4>1, <4>2
    <3> QED BY <2>1, <3>3, <3>4, <3>5 DEF StoreRight
  <2> QED BY <2>4, <2>5
<1> QED BY <1>2 DEF StoreRight

(* A resize loses, changes and duplicates nothing.                         *)
LEMMA StoreGrow ==
    ASSUME ControlInv, TableInv, ControlInv', TableInv', StoreRight, NEW t \in Threads, Grow(t)
    PROVE  StoreRight'
<1>1. PICK n : Relocated(n) BY GrowTable
<1>2. store' = store BY DEF Grow
<1>3. (\A u \in Threads : pc[u] \notin Inside) /\ (\A u \in Threads : pc'[u] \notin Inside)
  <2>1. readers = {} /\ readers' = {} BY DEF Grow
  <2> QED BY <2>1 DEF ControlInv, Locked
<1>4. GivenUp = {} /\ GivenUp' = {} /\ \A b : ~Torn(b)
  BY <1>3 DEF GivenUp, Inside, Torn
<1>5. EntriesFound BY EntryIs
<1>6. EntriesFound'
  <2>1. (ControlInv /\ TableInv => EntriesFound)' BY EntryIs, PTL
  <2> QED BY <2>1
<1>7. ASSUME NEW k \in Keys PROVE EntryIn(Bucket(k), k)' = store'[k]
  <2>1. EntryIn(Bucket(k), k) = store[k] BY <1>4 DEF StoreRight
  <2>2. /\ \A o \in Settled : KeyAt(o) = k => EntryIn(Bucket(k), k) = EntryAt(o)
        /\ (\A o \in Settled : KeyAt(o) # k) => EntryIn(Bucket(k), k) = NoEntry
    BY <1>4, <1>5 DEF EntriesFound
  <2>3. /\ \A o \in Settled' : KeyAt(o)' = k => EntryIn(Bucket(k), k)' = EntryAt(o)'
        /\ (\A o \in Settled' : KeyAt(o)' # k) => EntryIn(Bucket(k), k)' = NoEntry
    BY <1>4, <1>6 DEF EntriesFound
  <2>4. CASE \E o \in Settled : KeyAt(o) = k
    <3>1. PICK o \in Settled : KeyAt(o) = k BY <2>4
    <3>2. PICK x : x = Destination(o, n) OBVIOUS
    <3>3. /\ x \in Settled' /\ KeyAt(x)' = k /\ ValueAt(x)' = ValueAt(o)
          /\ epochs'[x[1]][x[2]] = epochs[o[1]][o[2]]
      BY <1>1, <3>1, <3>2 DEF Relocated
    <3>4. EntryAt(x)' = EntryAt(o) BY <3>3 DEF EntryAt
    <3> QED BY <1>2, <2>1, <2>2, <2>3, <3>1, <3>3, <3>4
  <2>5. CASE \A o \in Settled : KeyAt(o) # k
    <3>1. \A x \in Settled' : KeyAt(x)' # k BY <1>1, <2>5 DEF Relocated
    <3> QED BY <1>2, <2>1, <2>2, <2>3, <2>5, <3>1
  <2> QED BY <2>4, <2>5
<1> QED BY <1>7 DEF StoreRight

(* The history is right about every bucket that is not torn: slab indices  *)
(* freed and reused by other threads, drained hits and rehashes never      *)
(* change, lose or duplicate an entry of a bucket they do not hold.        *)
THEOREM SharedStore == Spec => []StoreRight
<1>1. Init => StoreRight
  <2> SUFFICES ASSUME Init, NEW k \in Keys PROVE EntryIn(Bucket(k), k) = store[k] BY DEF StoreRight
  <2>1. ControlInv /\ TableInv BY InitControl, InitTable
  <2>2. Occupied = {} /\ Settled = {} /\ GivenUp = {}
    BY EmptyMetaIs DEF Init, Occupied, Settled, GivenUp
  <2>3. EntryIn(Bucket(k), k) = NoEntry BY <2>1, <2>2, EntryIs DEF EntriesFound
  <2> QED BY <2>3 DEF Init
<1>2. ControlInv /\ TableInv /\ ControlInv' /\ TableInv' /\ StoreRight /\ [Next]_vars => StoreRight'
  <2> SUFFICES ASSUME ControlInv, TableInv, ControlInv', TableInv', StoreRight, [Next]_vars
               PROVE  StoreRight'
    OBVIOUS
  <2>1. ASSUME NEW t \in Threads, NEW c \in Calls, Begin(t, c) PROVE StoreRight'
    <3>1. /\ pc[t] = "idle" /\ pc'[t] \notin {"write", "stamp"} /\ Others(t)
          /\ UNCHANGED <<num_buckets, meta, slots, slab_pool, epochs, locks, store>>
      BY <2>1 DEF ControlInv, Control, Begin, Goto, Others, table, guards
    <3>2. \A b : Torn(b)' <=> Torn(b) BY <3>1 DEF Torn, Others
    <3>3. \A k : EntryIn(Bucket(k), k)' = EntryIn(Bucket(k), k)
      BY <3>1 DEF EntryIn, SlotOf, Bucket
    <3>4. \A k : Bucket(k)' = Bucket(k) BY <3>1 DEF Bucket
    <3> QED BY <3>1, <3>2, <3>3, <3>4 DEF StoreRight, Torn
  <2>2. CASE UNCHANGED vars
    <3>1. UNCHANGED <<num_buckets, meta, slots, slab_pool, epochs, locks, store, pc>>
      BY <2>2 DEF vars, table, guards
    <3> QED BY <3>1 DEF StoreRight, Torn, EntryIn, SlotOf, Bucket
  <2> QED BY <2>1, <2>2, StoreStep, StoreGrow DEF Next, Finished
<1> QED BY <1>1, <1>2, SharedControl, SharedTable, PTL DEF Spec

(* Outside the middle of an insertion every bucket holds exactly what was  *)
(* last committed to it, and every occupied slot is the one that a lookup  *)
(* of its key finds (sync.rs, insert, remove and resize).                  *)
THEOREM SharedCoherent == Spec => []Coherent
<1>1. ControlInv /\ TableInv /\ StoreRight => Coherent
  <2> SUFFICES ASSUME ControlInv, TableInv, StoreRight, NEW b \in BucketIds, ~Torn(b)
               PROVE  /\ \A k \in Keys : Bucket(k) = b => EntryIn(b, k) = store[k]
                      /\ \A s \in FullSlots(meta[b]) : SlotOf(b, KeyAt(<<b, s>>)) = {s}
    BY DEF Coherent
  <2>1. \A k \in Keys : Bucket(k) = b => EntryIn(b, k) = store[k] BY DEF StoreRight
  <2>2. ASSUME NEW s \in FullSlots(meta[b]) PROVE SlotOf(b, KeyAt(<<b, s>>)) = {s}
    <3>1. \A r : <<b, r>> \notin GivenUp BY TornIs DEF TornHeld
    <3>2. <<b, s>> \in Settled BY <3>1, PlacesIn DEF Settled
    <3> DEFINE k == KeyAt(<<b, s>>)
    <3>3. k \in Keys BY <3>2, SettledIn
    <3>4. Bucket(k) = b BY <3>2 DEF TableInv, Filed
    <3>5. SlotOf(Bucket(k), k) = {s} BY <3>1, <3>2, <3>3, <3>4, SearchIs
    <3> QED BY <3>4, <3>5
  <2> QED BY <2>1, <2>2
<1> QED BY <1>1, SharedControl, SharedTable, SharedStore, PTL

=============================================================================
