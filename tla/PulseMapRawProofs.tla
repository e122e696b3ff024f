-------------------------- MODULE PulseMapRawProofs -------------------------
(***************************************************************************)
(* Proofs about PulseMapRaw for every set of keys and values, every hash   *)
(* function, every number of buckets and of slots in a bucket, every width *)
(* of the metadata fields and every bound on the number of insertions; and *)
(* about its two clients, the typed map of TypedPulseMap and the fuzz      *)
(* target of FuzzSequences.  The clients rest on the invariant of the map  *)
(* they call, RawInv, and on what LossyMap says of each call; they share   *)
(* no state but the map's.                                                 *)
(***************************************************************************)
EXTENDS TypedPulseMap, FuzzSequences, MapLemmas

-----------------------------------------------------------------------------
(* The inductive invariant: the properties the runs check, and two facts   *)
(* they rest on.  Every occupied slot holds a pair, or an index next to    *)
(* the fingerprint of the key it leads to; and no entry was stamped with   *)
(* an epoch that has not begun.                                            *)
KeyAt(o)   == SlotKey(Contents(o), slab_pool)
ValueIn(o) == SlotValue(Contents(o), slab_pool)

SlotsRight == \A o \in Occupied : RightSlot(Contents(o), slab_pool)
StampsPast == \A b \in BucketIds, s \in SlotIds : slots_ttl[b][s].epoch <= current_epoch

RawInv == TypeOK /\ SlabOwned /\ CountExact /\ KeysUnique /\ SlotsRight /\ StampsPast

(* Slab ownership in the words of MapLemmas.                               *)
LEMMA SlabOwnedIs == SlabOwned <=> Owned(slots, Occupied, slab_pool)
<1>1. \A o : At(slots, o) = Contents(o) BY DEF At, Contents
<1> DEFINE R == {o \in Occupied : Contents(o).mode = 1}
           L == {Contents(o).idx : o \in R}
<1>2. Refs(slots, Occupied) = R BY <1>1 DEF Refs
<1>3. Live(slots, Occupied) = L BY <1>1, <1>2 DEF Live
<1>4. SlabOwned <=> /\ \A o, q \in R : Contents(o).idx = Contents(q).idx => o = q
                    /\ PoolOwned(slab_pool, L)
  BY DEF SlabOwned, PoolOwned, OnFreeList
<1> HIDE DEF R, L
<1> QED BY <1>1, <1>2, <1>3, <1>4 DEF Owned

(* Every key has a bucket.                                                 *)
LEMMA BucketIn ==
    ASSUME NEW k \in Keys
    PROVE  Bucket(k) \in BucketIds /\ H2[k] \in Nat
<1>1. Hash[k] \in Nat /\ NumBuckets \in Nat /\ NumBuckets > 0 /\ H2[k] \in Nat BY RawAssumption
<1> QED BY <1>1, DivMod DEF Bucket, BucketIds

(* Places are finite in number.                                            *)
LEMMA OccupiedFinite == IsFiniteSet(Occupied) /\ Occupied \subseteq BucketIds \X SlotIds
<1>1. IsFiniteSet(BucketIds) /\ IsFiniteSet(SlotIds)
  BY RawAssumption, MetaAssumption, FS_Interval DEF BucketIds, SlotIds
<1>2. IsFiniteSet(BucketIds \X SlotIds) BY <1>1, FS_Product
<1> QED BY <1>2, FS_Subset DEF Occupied

(* The types of the two places where a slot's contents are kept.           *)
LEMMA TypesOf ==
    ASSUME TypeOK
    PROVE  /\ meta \in [BucketIds -> MetaWords(Nat)] /\ slab_pool \in Pools
           /\ slots \in [BucketIds -> [SlotIds -> SlotTypes]]
BY DEF TypeOK, Pools

(* Searching: SlotOf finds the one place that holds the key, or nothing    *)
(* when no place does.                                                     *)
LEMMA SlotOfIs ==
    ASSUME RawInv, NEW k \in Keys
    PROVE  /\ \A s \in SlotOf(Bucket(k), k) :
                 /\ SlotOf(Bucket(k), k) = {s}
                 /\ <<Bucket(k), s>> \in Occupied /\ KeyAt(<<Bucket(k), s>>) = k
           /\ \A o \in Occupied : KeyAt(o) = k => o[1] = Bucket(k) /\ SlotOf(Bucket(k), k) = {o[2]}
<1> DEFINE b == Bucket(k)
           S == {s \in MatchMask(meta[b], H2[k]) : MatchesKey(slots[b][s], k, slab_pool)}
<1>1. b \in BucketIds BY BucketIn
<1>2. S \subseteq SlotIds /\ S \in SUBSET Nat BY SlotIdsNat DEF MatchMask, FullSlots
<1>3. ASSUME NEW s \in S PROVE <<b, s>> \in Occupied /\ KeyAt(<<b, s>>) = k
  <2>1. <<b, s>> \in Occupied BY <1>1, <1>2, <1>3 DEF Occupied, MatchMask
  <2>2. RightSlot(slots[b][s], slab_pool) BY <2>1 DEF RawInv, SlotsRight, Contents
  <2>3. MatchesKey(slots[b][s], k, slab_pool) BY <1>3
  <2>4. SlotKey(slots[b][s], slab_pool) = k BY <2>2, <2>3, MatchesIs
  <2> QED BY <2>1, <2>4 DEF KeyAt, Contents
<1>4. ASSUME NEW o \in Occupied, KeyAt(o) = k PROVE o[1] = b /\ o[2] \in S /\ o = <<b, o[2]>>
  <2>1. o \in BucketIds \X SlotIds /\ o[2] \in FullSlots(meta[o[1]]) BY DEF Occupied
  <2>2. o[1] = b /\ meta[o[1]].h2[o[2]] = H2[k]
    BY <1>4 DEF RawInv, KeysUnique, KeyAt
  <2>3. RightSlot(Contents(o), slab_pool) BY DEF RawInv, SlotsRight
  <2>4. MatchesKey(Contents(o), k, slab_pool) BY <2>3, <1>4, MatchesIs DEF KeyAt
  <2>5. o = <<b, o[2]>> BY <2>1, <2>2
  <2> QED BY <2>1, <2>2, <2>4, <2>5 DEF MatchMask, Contents
<1>5. \A s, r \in S : s = r
  <2> TAKE s, r \in S
  <2>1. <<b, s>> = <<b, r>> BY <1>3 DEF RawInv, KeysUnique, KeyAt
  <2> QED BY <2>1
<1>6. SlotOf(b, k) = First(S) BY DEF SlotOf
<1> HIDE DEF S
<1>7. \A s \in First(S) : s \in S /\ First(S) = {s} BY <1>2, FirstMember
<1>8. ASSUME NEW s \in S PROVE First(S) = {s}
  <2>1. \E r \in S : First(S) = {r} BY <1>2, FirstExists
  <2> QED BY <2>1, <1>5
<1> HIDE DEF b
<1>9. \A s \in SlotOf(b, k) : SlotOf(b, k) = {s} /\ <<b, s>> \in Occupied /\ KeyAt(<<b, s>>) = k
  BY <1>3, <1>6, <1>7
<1>10. \A o \in Occupied : KeyAt(o) = k => o[1] = b /\ SlotOf(b, k) = {o[2]}
  BY <1>4, <1>6, <1>8
<1> QED BY <1>9, <1>10 DEF b
-----------------------------------------------------------------------------
(* The initial state.                                                      *)
LEMMA InitInv == Init => RawInv
<1> SUFFICES ASSUME Init PROVE RawInv OBVIOUS
<1>1. Occupied = {} BY EmptyMetaIs DEF Init, Occupied
<1>2. TypeOK
  <2>1. meta \in [BucketIds -> MetaWords(Nat)] BY EmptyMetaIs DEF Init
  <2>2. EmptySlot \in SlotTypes BY DEF EmptySlot, SlotTypes
  <2>3. slots \in [BucketIds -> [SlotIds -> SlotTypes]] BY <2>2 DEF Init
  <2>4. slab_pool \in [entries : Seq([key : Keys, val : Values]), free : Seq(Nat)]
    BY NewPoolIs DEF Init, Pools
  <2>5. slots_ttl \in [BucketIds -> [SlotIds -> [epoch : Nat, ttl : Ttls \cup {0}]]]
    BY DEF Init
  <2>6. current_epoch \in 0 .. MaxEpoch BY RawAssumption DEF Init
  <2> QED BY <2>1, <2>3, <2>4, <2>5, <2>6 DEF Init, TypeOK
<1>3. SlabOwned
  <2>1. Refs(slots, Occupied) = {} /\ Live(slots, Occupied) = {} BY <1>1 DEF Refs, Live
  <2>2. Owned(slots, Occupied, slab_pool) BY <2>1, NewPoolIs DEF Init, Owned
  <2> QED BY <2>2, SlabOwnedIs
<1>4. CountExact BY <1>1, FS_EmptySet DEF Init, CountExact
<1>5. KeysUnique /\ SlotsRight BY <1>1 DEF KeysUnique, SlotsRight
<1>6. StampsPast BY DEF Init, StampsPast
<1> QED BY <1>2, <1>3, <1>4, <1>5, <1>6 DEF RawInv
-----------------------------------------------------------------------------
(* The metadata that writing key k to the place x leaves.                  *)
WritesPlace(x, k) ==
    /\ Occupied' = Occupied \cup {x}
    /\ \A o \in Occupied \ {x} : meta'[o[1]].h2[o[2]] = meta[o[1]].h2[o[2]]
    /\ meta'[x[1]].h2[x[2]] = H2[k]

(* Writing a pair k, v to the place x, which then is occupied: other       *)
(* places keep what they hold, and ownership and uniqueness survive.       *)
LEMMA WriteSlotIs ==
    ASSUME RawInv, NEW k \in Keys, NEW v \in Values, NEW s \in SlotIds,
           WriteSlot(Bucket(k), s, k, v), WritesPlace(<<Bucket(k), s>>, k),
           \A o \in Occupied \ {<<Bucket(k), s>>} : KeyAt(o) # k
    PROVE  LET x == <<Bucket(k), s>>
           IN  /\ slots' \in [BucketIds -> [SlotIds -> SlotTypes]] /\ slab_pool' \in Pools
               /\ SlabOwned' /\ KeysUnique' /\ SlotsRight'
               /\ \A o \in Occupied \ {x} : KeyAt(o)' = KeyAt(o) /\ ValueIn(o)' = ValueIn(o)
               /\ KeyAt(x)' = k /\ ValueIn(x)' = v
<1> DEFINE b == Bucket(k)
           x == <<b, s>>
           rest == Occupied \ {x}
           freed == IF s \in FullSlots(meta[b]) THEN Release(slab_pool, slots[b][s])
                    ELSE slab_pool
           c == WrittenSlot(freed, k, v)
           q == PoolAfterWrite(freed, k, v)
<1>1. /\ b \in BucketIds /\ x \in BucketIds \X SlotIds
      /\ slots \in [BucketIds -> [SlotIds -> SlotTypes]] /\ slab_pool \in Pools
      /\ slots' = [slots EXCEPT ![b][s] = c] /\ slab_pool' = q
  BY BucketIn, TypesOf DEF RawInv, WriteSlot
<1>2. Owned(slots, Occupied, slab_pool) BY SlabOwnedIs DEF RawInv
<1>3. \A o : At(slots, o) = Contents(o) /\ At(slots', o) = Contents(o)' BY DEF At, Contents
<1>4. freed \in Pools /\ freed.entries = slab_pool.entries /\ Owned(slots, rest, freed)
  <2>1. CASE s \in FullSlots(meta[b])
    <3>1. x \in Occupied BY <2>1, <1>1 DEF Occupied
    <3>2. RightSlot(At(slots, x), slab_pool) BY <3>1, <1>3 DEF RawInv, SlotsRight
    <3>3. freed = Release(slab_pool, At(slots, x)) BY <2>1 DEF At
    <3> HIDE DEF freed
    <3> QED BY <3>1, <3>2, <3>3, <1>1, <1>2, ReleaseIs
  <2>2. CASE s \notin FullSlots(meta[b])
    <3>1. x \notin Occupied BY <2>2 DEF Occupied
    <3>2. rest = Occupied BY <3>1
    <3> QED BY <2>2, <3>2, <1>1, <1>2
  <2> QED BY <2>1, <2>2
<1>5. At(slots', x) = c BY <1>1 DEF At
<1>6. \A o \in rest : At(slots', o) = At(slots, o)
  <2> TAKE o \in rest
  <2>1. o \in BucketIds \X SlotIds /\ o # <<b, s>> BY DEF Occupied
  <2>2. o[1] \in BucketIds /\ o[2] \in SlotIds /\ (o[1] # b \/ o[2] # s) BY <2>1
  <2> HIDE DEF c, b
  <2> QED BY <2>2, <1>1 DEF At
<1> HIDE DEF freed
<1>7. /\ q \in Pools /\ c \in SlotTypes /\ Owned(slots', rest \cup {x}, q)
      /\ \A i \in Live(slots, rest) : q.entries[i] = freed.entries[i]
      /\ RightSlot(c, q) /\ SlotKey(c, q) = k /\ SlotValue(c, q) = v
  <2>1. x \notin rest OBVIOUS
  <2> DEFINE sl2 == slots'
  <2>2. At(sl2, x) = WrittenSlot(freed, k, v) BY <1>5
  <2>3. \A o \in rest : At(sl2, o) = At(slots, o) BY <1>6
  <2>4. Writes(slots, sl2, rest, freed, x, k, v) BY <2>1, <2>2, <2>3, <1>4 DEF Writes
  <2> HIDE DEF rest, x, sl2
  <2>5. Written(slots, sl2, rest, freed, x, k, v) BY <2>4, WriteIs
  <2> QED BY <2>5 DEF Written, sl2
<1> HIDE DEF c, q
<1>8. Occupied' = rest \cup {x} BY DEF WritesPlace
<1>9. ASSUME NEW o \in rest
      PROVE  /\ Contents(o)' = Contents(o) /\ RightSlot(Contents(o)', slab_pool')
             /\ KeyAt(o)' = KeyAt(o) /\ ValueIn(o)' = ValueIn(o)
  <2>1. RightSlot(At(slots, o), slab_pool) BY <1>3 DEF RawInv, SlotsRight
  <2>2. \A i \in Live(slots, rest) : q.entries[i] = slab_pool.entries[i] BY <1>4, <1>7
  <2> HIDE DEF rest
  <2>3. /\ SlotKey(At(slots, o), q) = SlotKey(At(slots, o), slab_pool)
        /\ SlotValue(At(slots, o), q) = SlotValue(At(slots, o), slab_pool)
        /\ RightSlot(At(slots, o), q)
    BY <2>1, <2>2, ContentsStay
  <2> QED BY <2>3, <1>1, <1>3, <1>6 DEF KeyAt, ValueIn
<1>10. KeyAt(x)' = k /\ ValueIn(x)' = v /\ RightSlot(Contents(x)', slab_pool')
  BY <1>1, <1>3, <1>5, <1>7 DEF KeyAt, ValueIn
<1>11. slots' \in [BucketIds -> [SlotIds -> SlotTypes]] BY <1>1, <1>7
<1>12. SlabOwned'
  <2>1. Owned(slots', Occupied', slab_pool') BY <1>1, <1>7, <1>8
  <2>2. SlabOwned' <=> Owned(slots, Occupied, slab_pool)' BY SlabOwnedIs, PTL
  <2> QED BY <2>1, <2>2
<1>13. SlotsRight' BY <1>8, <1>9, <1>10 DEF SlotsRight
<1>14. KeysUnique'
  <2>1. \A o \in rest : Bucket(KeyAt(o)) = o[1] /\ meta'[o[1]].h2[o[2]] = H2[KeyAt(o)]
    BY DEF RawInv, KeysUnique, WritesPlace, KeyAt
  <2>2. Bucket(k) = x[1] /\ meta'[x[1]].h2[x[2]] = H2[k] BY DEF WritesPlace
  <2>3. \A o \in Occupied' : Bucket(KeyAt(o)') = o[1] /\ meta'[o[1]].h2[o[2]] = H2[KeyAt(o)']
    <3> HIDE DEF x, rest
    <3> QED BY <2>1, <2>2, <1>8, <1>9, <1>10
  <2>4. \A o, r \in rest : KeyAt(o) = KeyAt(r) => o = r BY DEF RawInv, KeysUnique, KeyAt
  <2>5. \A o, r \in Occupied' : KeyAt(o)' = KeyAt(r)' => o = r
    <3>1. \A o \in rest : KeyAt(o) # k OBVIOUS
    <3> HIDE DEF x, rest
    <3> QED BY <2>4, <3>1, <1>8, <1>9, <1>10
  <2> QED BY <2>3, <2>5 DEF KeysUnique, KeyAt, Bucket
<1> QED BY <1>1, <1>7, <1>9, <1>10, <1>11, <1>12, <1>13, <1>14
-----------------------------------------------------------------------------
(* Replacing the metadata word of one bucket.                              *)
LEMMA MetaIs ==
    ASSUME TypeOK, NEW b \in BucketIds, NEW s \in SlotIds, NEW m \in MetaWords(Nat),
           meta' = [meta EXCEPT ![b] = m]
    PROVE  /\ meta' \in [BucketIds -> MetaWords(Nat)]
           /\ FullSlots(m) = FullSlots(meta[b]) \cup {s} => Occupied' = Occupied \cup {<<b, s>>}
           /\ FullSlots(m) = FullSlots(meta[b]) \ {s} => Occupied' = Occupied \ {<<b, s>>}
           /\ FullSlots(m) = FullSlots(meta[b]) => Occupied' = Occupied
           /\ (\A r \in SlotIds \ {s} : m.h2[r] = meta[b].h2[r]) =>
                 \A o \in BucketIds \X SlotIds :
                    o # <<b, s>> => meta'[o[1]].h2[o[2]] = meta[o[1]].h2[o[2]]
           /\ meta'[b] = m
<1>1. meta \in [BucketIds -> MetaWords(Nat)] BY TypesOf
<1>2. meta' \in [BucketIds -> MetaWords(Nat)] BY <1>1
<1>3. meta'[b] = m /\ \A c \in BucketIds \ {b} : meta'[c] = meta[c] BY <1>1
<1>4. \A o \in BucketIds \X SlotIds :
         o \in Occupied' <=> IF o[1] = b THEN o[2] \in FullSlots(m) ELSE o \in Occupied
  BY <1>3 DEF Occupied, FullSlots
<1>5. Occupied \subseteq BucketIds \X SlotIds /\ Occupied' \subseteq BucketIds \X SlotIds
  BY DEF Occupied
<1>6. \A o \in BucketIds \X SlotIds : o[1] = b => (o \in Occupied <=> o[2] \in FullSlots(meta[b]))
  BY DEF Occupied
<1>7. \A o \in BucketIds \X SlotIds : o[1] = b => (o = <<b, s>> <=> o[2] = s)
  OBVIOUS
<1>8. <<b, s>> \in BucketIds \X SlotIds /\ <<b, s>>[1] = b OBVIOUS
<1>9. ASSUME FullSlots(m) = FullSlots(meta[b]) \cup {s} PROVE Occupied' = Occupied \cup {<<b, s>>}
  BY <1>4, <1>5, <1>6, <1>7, <1>8, <1>9
<1>10. ASSUME FullSlots(m) = FullSlots(meta[b]) \ {s} PROVE Occupied' = Occupied \ {<<b, s>>}
  BY <1>4, <1>5, <1>6, <1>7, <1>8, <1>10
<1>11. ASSUME FullSlots(m) = FullSlots(meta[b]) PROVE Occupied' = Occupied
  BY <1>4, <1>5, <1>6, <1>11
<1>12. ASSUME \A r \in SlotIds \ {s} : m.h2[r] = meta[b].h2[r],
              NEW o \in BucketIds \X SlotIds, o # <<b, s>>
       PROVE  meta'[o[1]].h2[o[2]] = meta[o[1]].h2[o[2]]
  <2>1. CASE o[1] = b
    <3>1. o[2] \in SlotIds \ {s} BY <2>1, <1>7, <1>12
    <3> QED BY <2>1, <3>1, <1>3, <1>12
  <2>2. CASE o[1] # b BY <2>2, <1>3
  <2> QED BY <2>1, <2>2
<1> QED BY <1>2, <1>3, <1>9, <1>10, <1>11, <1>12

(* An insertion begins a new epoch and stamps the slot with it.            *)
LEMMA StampIs ==
    ASSUME TypeOK, StampsPast, NEW b \in BucketIds, NEW s \in SlotIds, NEW n \in Ttls,
           current_epoch < MaxEpoch, Stamp(b, s, n)
    PROVE  /\ slots_ttl' \in [BucketIds -> [SlotIds -> [epoch : Nat, ttl : Ttls \cup {0}]]]
           /\ current_epoch' \in 0 .. MaxEpoch /\ current_epoch' = current_epoch + 1
           /\ StampsPast'
           /\ slots_ttl'[b][s] = [epoch |-> current_epoch + 1, ttl |-> n]
           /\ \A c \in BucketIds, r \in SlotIds :
                 <<c, r>> # <<b, s>> => slots_ttl'[c][r] = slots_ttl[c][r]
<1> DEFINE T == [epoch : Nat, ttl : Ttls \cup {0}]
           e == [epoch |-> current_epoch + 1, ttl |-> n]
<1>1. /\ current_epoch \in Nat /\ MaxEpoch \in Nat
      /\ slots_ttl \in [BucketIds -> [SlotIds -> T]]
      /\ slots_ttl' = [slots_ttl EXCEPT ![b][s] = e] /\ current_epoch' = current_epoch + 1
  BY RawAssumption DEF TypeOK, Stamp
<1>2. e \in T /\ e.epoch = current_epoch + 1 BY <1>1
<1>3. \A c \in BucketIds, r \in SlotIds : slots_ttl[c][r].epoch <= current_epoch
  BY DEF StampsPast
<1>t. \A c \in BucketIds, r \in SlotIds : slots_ttl[c][r].epoch \in Nat BY <1>1
<1> HIDE DEF T, e
<1>4. slots_ttl' \in [BucketIds -> [SlotIds -> T]] BY <1>1, <1>2
<1>5. slots_ttl'[b][s] = e BY <1>1
<1>6. \A c \in BucketIds, r \in SlotIds : <<c, r>> # <<b, s>> => slots_ttl'[c][r] = slots_ttl[c][r]
  <2> TAKE c \in BucketIds, r \in SlotIds
  <2> HAVE <<c, r>> # <<b, s>>
  <2>1. c # b \/ r # s OBVIOUS
  <2> QED BY <2>1, <1>1
<1>7. StampsPast'
  <2>1. ASSUME NEW c \in BucketIds, NEW r \in SlotIds
        PROVE  slots_ttl'[c][r].epoch <= current_epoch + 1
    <3>1. CASE c = b /\ r = s BY <3>1, <1>1, <1>2, <1>5
    <3>2. CASE ~(c = b /\ r = s)
      <4>1. <<c, r>> # <<b, s>> BY <3>2
      <4>2. slots_ttl'[c][r] = slots_ttl[c][r] BY <4>1, <1>6
      <4>3. slots_ttl[c][r].epoch <= current_epoch /\ slots_ttl[c][r].epoch \in Nat BY <1>3, <1>t
      <4> QED BY <4>2, <4>3, <1>1
    <3> QED BY <3>1, <3>2
  <2> QED BY <2>1, <1>1 DEF StampsPast
<1> QED BY <1>1, <1>4, <1>5, <1>6, <1>7 DEF T, e

(* What every insertion has in common: it writes the pair to slot s of its *)
(* bucket and the key is in no other place.                                *)
Puts(k, v, n, s) ==
    /\ s \in SlotIds /\ current_epoch < MaxEpoch
    /\ WriteSlot(Bucket(k), s, k, v) /\ Stamp(Bucket(k), s, n)
    /\ meta' \in [BucketIds -> MetaWords(Nat)] /\ WritesPlace(<<Bucket(k), s>>, k)
    /\ \A o \in Occupied \ {<<Bucket(k), s>>} : KeyAt(o) # k
    /\ count' \in Nat /\ CountExact' /\ eviction_count' \in Nat
    /\ default_ttl' = default_ttl

(* Such an insertion preserves the invariant.                              *)
LEMMA PutInv ==
    ASSUME RawInv, NEW k \in Keys, NEW v \in Values, NEW n \in Ttls, NEW s, Puts(k, v, n, s)
    PROVE  RawInv'
<1> USE DEF Puts
<1>1. /\ slots' \in [BucketIds -> [SlotIds -> SlotTypes]] /\ slab_pool' \in Pools
      /\ SlabOwned' /\ KeysUnique' /\ SlotsRight'
  BY WriteSlotIs
<1>2. TypeOK /\ StampsPast /\ Bucket(k) \in BucketIds BY BucketIn DEF RawInv
<1>3. /\ slots_ttl' \in [BucketIds -> [SlotIds -> [epoch : Nat, ttl : Ttls \cup {0}]]]
      /\ current_epoch' \in 0 .. MaxEpoch /\ StampsPast'
  BY <1>2, StampIs
<1>4. default_ttl' \in Ttls \cup {0} BY <1>2 DEF TypeOK
<1>5. TypeOK' BY <1>1, <1>3, <1>4 DEF TypeOK, Pools
<1> QED BY <1>1, <1>3, <1>5 DEF RawInv

(* Overwriting the value of a key that is in the map.                      *)
LEMMA UpdatePuts ==
    ASSUME RawInv, NEW k \in Keys, NEW v \in Values, NEW n \in Ttls, Update(k, v, n)
    PROVE  /\ \E s \in SlotOf(Bucket(k), k) : Puts(k, v, n, s)
           /\ UNCHANGED eviction_count
<1> DEFINE b == Bucket(k)
<1>1. PICK s \in SlotOf(b, k) :
         /\ WriteSlot(b, s, k, v) /\ Stamp(b, s, n)
         /\ meta' = [meta EXCEPT ![b] = OnAccess(meta[b], s)]
  BY DEF Update
<1>2. /\ current_epoch < MaxEpoch /\ count' = count /\ eviction_count' = eviction_count
      /\ default_ttl' = default_ttl
  BY DEF Update
<1>3. <<b, s>> \in Occupied /\ KeyAt(<<b, s>>) = k BY SlotOfIs
<1>4. b \in BucketIds /\ s \in SlotIds /\ TypeOK /\ meta[b] \in MetaWords(Nat)
  BY <1>3, BucketIn, TypesOf DEF RawInv, Occupied
<1>5. meta[b].h2[s] = H2[k] BY <1>3 DEF RawInv, KeysUnique, KeyAt
<1> HIDE DEF b
<1>6. /\ OnAccess(meta[b], s) \in MetaWords(Nat) /\ OnAccess(meta[b], s).h2 = meta[b].h2
      /\ FullSlots(OnAccess(meta[b], s)) = FullSlots(meta[b])
  BY <1>4, OnAccessIs
<1>7. /\ meta' \in [BucketIds -> MetaWords(Nat)] /\ Occupied' = Occupied
      /\ \A o \in BucketIds \X SlotIds :
            o # <<b, s>> => meta'[o[1]].h2[o[2]] = meta[o[1]].h2[o[2]]
      /\ meta'[b] = OnAccess(meta[b], s)
  BY <1>1, <1>4, <1>6, MetaIs
<1>8. WritesPlace(<<b, s>>, k)
  <2>1. meta'[b].h2[s] = H2[k] BY <1>5, <1>6, <1>7
  <2>2. Occupied' = Occupied \cup {<<b, s>>} BY <1>3, <1>7
  <2> QED BY <1>7, <2>1, <2>2, OccupiedFinite DEF WritesPlace
<1>9. \A o \in Occupied \ {<<b, s>>} : KeyAt(o) # k BY <1>3 DEF RawInv, KeysUnique, KeyAt
<1>10. CountExact' /\ count' \in Nat /\ eviction_count' \in Nat
  BY <1>2, <1>7 DEF RawInv, CountExact, TypeOK
<1>11. Puts(k, v, n, s) BY <1>1, <1>2, <1>4, <1>7, <1>8, <1>9, <1>10 DEF Puts, b
<1> QED BY <1>2, <1>11 DEF b

(* The slot a new key goes to is a slot of the bucket.                     *)
LEMMA TargetSlotIs ==
    ASSUME NEW b, NEW now, NEW s \in TargetSlot(b, now)
    PROVE  s \in SlotIds
<1> DEFINE S == {r \in SlotIds : r \notin FullSlots(meta[b]) \/ IsExpired(b, r, now)}
           T == {r \in FullSlots(meta[b]) :
                   \A q \in FullSlots(meta[b]) : Priority(meta[b], r) <= Priority(meta[b], q)}
<1>1. s \in First(S) \/ s \in First(T)
  BY DEF TargetSlot, FindFreeOrExpired, FindEvictTarget
<1>2. S \subseteq SlotIds /\ T \subseteq SlotIds BY DEF FullSlots
<1> HIDE DEF S, T
<1> QED BY <1>1, <1>2 DEF First

(* A new key takes a free or expired slot, or that of a victim.            *)
LEMMA InsertNewPuts ==
    ASSUME RawInv, NEW k \in Keys, NEW v \in Values, NEW n \in Ttls, InsertNew(k, v, n)
    PROVE  \E s \in TargetSlot(Bucket(k), current_epoch + 1) :
              /\ Puts(k, v, n, s)
              /\ eviction_count' = eviction_count + IF <<Bucket(k), s>> \in Occupied THEN 1 ELSE 0
<1> DEFINE b == Bucket(k)
<1>1. PICK s \in TargetSlot(b, current_epoch + 1) :
         /\ WriteSlot(b, s, k, v) /\ Stamp(b, s, n)
         /\ meta' = [meta EXCEPT ![b] = Occupy(meta[b], s, H2[k])]
         /\ eviction_count' = eviction_count + (IF s \in FullSlots(meta[b]) THEN 1 ELSE 0)
         /\ count' = count + (IF s \in FullSlots(meta[b]) THEN 0 ELSE 1)
  BY DEF InsertNew, Evicts, Occupy
<1>2. current_epoch < MaxEpoch /\ default_ttl' = default_ttl /\ SlotOf(b, k) = {}
  BY DEF InsertNew
<1>3. \A o \in Occupied : KeyAt(o) # k BY <1>2, SlotOfIs
<1>4. /\ b \in BucketIds /\ s \in SlotIds /\ H2[k] \in Nat
      /\ TypeOK /\ meta[b] \in MetaWords(Nat)
  BY BucketIn, TargetSlotIs, TypesOf DEF RawInv
<1> HIDE DEF b
<1> DEFINE m == Occupy(meta[b], s, H2[k])
<1>5. /\ m \in MetaWords(Nat) /\ m.h2 = [meta[b].h2 EXCEPT ![s] = H2[k]]
      /\ FullSlots(m) = FullSlots(meta[b]) \cup {s}
  BY <1>4, OccupyIs
<1>m. m \in MetaWords(Nat) /\ meta' = [meta EXCEPT ![b] = m] BY <1>1, <1>5
<1>f. FullSlots(m) = FullSlots(meta[b]) \cup {s} BY <1>5
<1> HIDE DEF m
<1>6. \A r \in SlotIds \ {s} : m.h2[r] = meta[b].h2[r] BY <1>4, <1>5 DEF MetaWords
<1>7. /\ meta' \in [BucketIds -> MetaWords(Nat)] /\ Occupied' = Occupied \cup {<<b, s>>}
      /\ \A o \in BucketIds \X SlotIds :
            o # <<b, s>> => meta'[o[1]].h2[o[2]] = meta[o[1]].h2[o[2]]
      /\ meta'[b] = m
  <2>1. /\ meta' \in [BucketIds -> MetaWords(Nat)] /\ Occupied' = Occupied \cup {<<b, s>>}
        /\ meta'[b] = m
    BY <1>4, <1>m, <1>f, MetaIs
  <2>2. \A o \in BucketIds \X SlotIds :
           o # <<b, s>> => meta'[o[1]].h2[o[2]] = meta[o[1]].h2[o[2]]
    BY <1>4, <1>6, <1>m, MetaIs
  <2> QED BY <2>1, <2>2
<1>8. WritesPlace(<<b, s>>, k)
  <2>1. meta'[b].h2[s] = H2[k] BY <1>4, <1>5, <1>7 DEF MetaWords
  <2> QED BY <1>7, <2>1, OccupiedFinite DEF WritesPlace
<1>9. CountExact' /\ count' \in Nat /\ eviction_count' \in Nat
  <2>1. count \in Nat /\ eviction_count \in Nat /\ count = Cardinality(Occupied)
    BY DEF RawInv, TypeOK, CountExact
  <2>2. s \in FullSlots(meta[b]) <=> <<b, s>> \in Occupied BY <1>4 DEF Occupied
  <2>3. Cardinality(Occupied \cup {<<b, s>>}) =
              IF <<b, s>> \in Occupied THEN Cardinality(Occupied) ELSE Cardinality(Occupied) + 1
    BY OccupiedFinite, FS_AddElement
  <2> QED BY <2>1, <2>2, <2>3, <1>1, <1>7 DEF CountExact
<1>10. Puts(k, v, n, s) BY <1>1, <1>2, <1>3, <1>4, <1>7, <1>8, <1>9 DEF Puts, b
<1>11. s \in FullSlots(meta[b]) <=> <<b, s>> \in Occupied BY <1>4 DEF Occupied
<1> QED BY <1>1, <1>10, <1>11 DEF b

(* A removal gives up one place; its slab entry goes to the free list.     *)
LEMMA RemoveFoundIs ==
    ASSUME RawInv, NEW k \in Keys, RemoveFound(k)
    PROVE  /\ RawInv'
           /\ \E x \in Occupied :
                 /\ KeyAt(x) = k /\ Occupied' = Occupied \ {x}
                 /\ \A o \in Occupied \ {x} : KeyAt(o)' = KeyAt(o) /\ ValueIn(o)' = ValueIn(o)
<1> DEFINE b == Bucket(k)
<1>1. PICK s \in SlotOf(b, k) :
         /\ slab_pool' = Release(slab_pool, slots[b][s])
         /\ meta' = [meta EXCEPT ![b] = SetState(meta[b], s, "Tombstone")]
         /\ slots' = [slots EXCEPT ![b][s] = EmptySlot]
  BY DEF RemoveFound
<1>2. /\ count' = count - 1 /\ eviction_count' = eviction_count /\ slots_ttl' = slots_ttl
      /\ current_epoch' = current_epoch /\ default_ttl' = default_ttl
  BY DEF RemoveFound
<1>3. <<b, s>> \in Occupied /\ KeyAt(<<b, s>>) = k BY SlotOfIs
<1>4. /\ b \in BucketIds /\ s \in SlotIds /\ TypeOK /\ meta[b] \in MetaWords(Nat)
      /\ slots \in [BucketIds -> [SlotIds -> SlotTypes]] /\ slab_pool \in Pools
  BY <1>3, BucketIn, TypesOf DEF RawInv, Occupied
<1> DEFINE x == <<b, s>>
           m == SetState(meta[b], s, "Tombstone")
           rest == Occupied \ {x}
<1> HIDE DEF b
<1>5. /\ m \in MetaWords(Nat) /\ m.h2 = meta[b].h2 /\ FullSlots(m) = FullSlots(meta[b]) \ {s}
  BY <1>4, TombstoneIs
<1>6. meta' = [meta EXCEPT ![b] = m] BY <1>1
<1> HIDE DEF m
<1>7. /\ meta' \in [BucketIds -> MetaWords(Nat)] /\ Occupied' = rest
      /\ \A o \in BucketIds \X SlotIds :
            o # <<b, s>> => meta'[o[1]].h2[o[2]] = meta[o[1]].h2[o[2]]
  BY <1>4, <1>5, <1>6, MetaIs
<1>8. \A o : At(slots, o) = Contents(o) /\ At(slots', o) = Contents(o)' BY DEF At, Contents
<1>9. slab_pool' \in Pools /\ slab_pool'.entries = slab_pool.entries /\ Owned(slots, rest, slab_pool')
  <2>1. Owned(slots, Occupied, slab_pool) BY SlabOwnedIs DEF RawInv
  <2>2. RightSlot(At(slots, x), slab_pool) BY <1>3, <1>8 DEF RawInv, SlotsRight
  <2>3. slab_pool' = Release(slab_pool, At(slots, x)) BY <1>1 DEF At
  <2> QED BY <2>1, <2>2, <2>3, <1>3, <1>4, ReleaseIs
<1>10. \A o \in rest : At(slots', o) = At(slots, o)
  <2> TAKE o \in rest
  <2>1. o \in BucketIds \X SlotIds /\ o # <<b, s>> BY DEF Occupied
  <2>2. o[1] \in BucketIds /\ o[2] \in SlotIds /\ (o[1] # b \/ o[2] # s) BY <2>1
  <2> QED BY <2>2, <1>1, <1>4 DEF At
<1>11. ASSUME NEW o \in rest
       PROVE  /\ RightSlot(Contents(o)', slab_pool')
              /\ KeyAt(o)' = KeyAt(o) /\ ValueIn(o)' = ValueIn(o)
  <2>1. RightSlot(Contents(o), slab_pool) /\ Contents(o)' = Contents(o)
    BY <1>8, <1>10 DEF RawInv, SlotsRight
  <2> QED BY <2>1, <1>9 DEF RightSlot, KeyAt, ValueIn, SlotKey, SlotValue
<1>12. slots' \in [BucketIds -> [SlotIds -> SlotTypes]]
  <2>1. EmptySlot \in SlotTypes BY DEF EmptySlot, SlotTypes
  <2> QED BY <2>1, <1>1, <1>4
<1>13. SlabOwned'
  <2> DEFINE sl2 == slots'
  <2>1. \A o \in rest : At(sl2, o) = At(slots, o) BY <1>10
  <2> HIDE DEF sl2, rest
  <2>2. Owned(sl2, rest, slab_pool') BY <2>1, <1>9, OwnedSame
  <2>3. Owned(slots', Occupied', slab_pool') BY <2>2, <1>7 DEF sl2
  <2>4. SlabOwned' <=> Owned(slots, Occupied, slab_pool)' BY SlabOwnedIs, PTL
  <2> QED BY <2>3, <2>4
<1>14. SlotsRight' BY <1>7, <1>11 DEF SlotsRight
<1>15. KeysUnique'
  <2>1. \A o \in rest : Bucket(KeyAt(o)) = o[1] /\ meta'[o[1]].h2[o[2]] = H2[KeyAt(o)]
    BY <1>7, OccupiedFinite DEF RawInv, KeysUnique, KeyAt
  <2>2. \A o, r \in rest : KeyAt(o) = KeyAt(r) => o = r BY DEF RawInv, KeysUnique, KeyAt
  <2> QED BY <2>1, <2>2, <1>7, <1>11 DEF KeysUnique, KeyAt, Bucket
<1>16. CountExact' /\ count' \in Nat
  <2>1. count \in Nat /\ count = Cardinality(Occupied) BY DEF RawInv, TypeOK, CountExact
  <2>2. Cardinality(rest) = Cardinality(Occupied) - 1 /\ Cardinality(rest) \in Nat
    <3>1. /\ IsFiniteSet(rest) /\ Cardinality(rest) = Cardinality(Occupied) - 1
      BY <1>3, OccupiedFinite, FS_RemoveElement
    <3> QED BY <3>1, FS_CardinalityType
  <2> QED BY <2>1, <2>2, <1>2, <1>7 DEF CountExact
<1>17. TypeOK' BY <1>2, <1>7, <1>9, <1>12, <1>16 DEF RawInv, TypeOK, Pools
<1>18. StampsPast' BY <1>2 DEF RawInv, StampsPast
<1>19. RawInv' BY <1>13, <1>14, <1>15, <1>16, <1>17, <1>18 DEF RawInv
<1> QED BY <1>3, <1>7, <1>11, <1>19

(* When only priorities, the default TTL and results change.               *)
LEMMA QuietInv ==
    ASSUME RawInv, meta' \in [BucketIds -> MetaWords(Nat)], Occupied' = Occupied,
           \A o \in Occupied : meta'[o[1]].h2[o[2]] = meta[o[1]].h2[o[2]],
           UNCHANGED <<slots, slab_pool, count, eviction_count, slots_ttl, current_epoch>>,
           default_ttl' \in Ttls \cup {0}
    PROVE  RawInv'
<1>1. /\ slots' = slots /\ slab_pool' = slab_pool /\ count' = count
      /\ eviction_count' = eviction_count /\ slots_ttl' = slots_ttl
      /\ current_epoch' = current_epoch
  OBVIOUS
<1>2. \A o : Contents(o)' = Contents(o) /\ KeyAt(o)' = KeyAt(o)
  BY <1>1 DEF Contents, KeyAt
<1>3. SlabOwned'
  <2>1. Owned(slots, Occupied, slab_pool) BY SlabOwnedIs DEF RawInv
  <2>2. Owned(slots', Occupied', slab_pool') BY <2>1, <1>1
  <2>3. SlabOwned' <=> Owned(slots, Occupied, slab_pool)' BY SlabOwnedIs, PTL
  <2> QED BY <2>2, <2>3
<1>4. KeysUnique'
  <2>1. \A o \in Occupied : Bucket(KeyAt(o)) = o[1] /\ meta'[o[1]].h2[o[2]] = H2[KeyAt(o)]
    BY DEF RawInv, KeysUnique, KeyAt
  <2>2. \A o, r \in Occupied : KeyAt(o) = KeyAt(r) => o = r BY DEF RawInv, KeysUnique, KeyAt
  <2> QED BY <2>1, <2>2, <1>2 DEF KeysUnique, KeyAt, Bucket
<1>5. SlotsRight' BY <1>1, <1>2 DEF RawInv, SlotsRight
<1>6. CountExact' BY <1>1 DEF RawInv, CountExact
<1>7. TypeOK' BY <1>1 DEF RawInv, TypeOK
<1>8. StampsPast' BY <1>1 DEF RawInv, StampsPast
<1> QED BY <1>3, <1>4, <1>5, <1>6, <1>7, <1>8 DEF RawInv

(* The same when the metadata stays.                                       *)
LEMMA SilentInv ==
    ASSUME RawInv, default_ttl' \in Ttls \cup {0},
           UNCHANGED <<meta, slots, slab_pool, count, eviction_count, slots_ttl, current_epoch>>
    PROVE  RawInv'
<1>1. meta' = meta OBVIOUS
<1>2. Occupied' = Occupied BY <1>1 DEF Occupied
<1>3. meta' \in [BucketIds -> MetaWords(Nat)] BY <1>1 DEF RawInv, TypeOK
<1> QED BY <1>1, <1>2, <1>3, QuietInv

(* A lookup changes priorities at most.                                    *)
LEMMA GetIs ==
    ASSUME RawInv, NEW k \in Keys, Get(k)
    PROVE  RawInv' /\ Occupied' = Occupied
<1> DEFINE b == Bucket(k)
           s == CHOOSE r \in Hits(k) : TRUE
<1>1. /\ UNCHANGED <<slots, slab_pool, count, eviction_count, slots_ttl, current_epoch>>
      /\ default_ttl' = default_ttl
  BY DEF Get
<1>2. default_ttl' \in Ttls \cup {0} BY <1>1 DEF RawInv, TypeOK
<1>3. /\ b \in BucketIds /\ TypeOK /\ meta[b] \in MetaWords(Nat)
      /\ meta \in [BucketIds -> MetaWords(Nat)]
  BY BucketIn, TypesOf DEF RawInv
<1>4. CASE Hits(k) = {}
  <2>1. meta' = [meta EXCEPT ![b] = meta[b]] BY <1>4 DEF Get
  <2>2. meta' = meta BY <2>1, <1>3
  <2>3. Occupied' = Occupied BY <2>2 DEF Occupied
  <2> QED BY <2>2, <2>3, <1>1, <1>2, SilentInv
<1>5. CASE Hits(k) # {}
  <2>1. meta' = [meta EXCEPT ![b] = OnAccess(meta[b], s)] BY <1>5 DEF Get
  <2>2. s \in SlotOf(b, k)
    <3>1. s \in Hits(k) BY <1>5
    <3> HIDE DEF s
    <3> QED BY <3>1 DEF Hits
  <2> HIDE DEF s
  <2>3. s \in SlotIds
    <3>1. <<b, s>> \in Occupied BY <2>2, SlotOfIs
    <3> QED BY <3>1 DEF Occupied
  <2> HIDE DEF b
  <2> DEFINE m == OnAccess(meta[b], s)
  <2>4. /\ m \in MetaWords(Nat) /\ m.h2 = meta[b].h2 /\ FullSlots(m) = FullSlots(meta[b])
    BY <2>3, <1>3, OnAccessIs
  <2>5. meta' = [meta EXCEPT ![b] = m] BY <2>1
  <2> HIDE DEF m
  <2>6. /\ meta' \in [BucketIds -> MetaWords(Nat)] /\ Occupied' = Occupied /\ meta'[b] = m
    BY <2>3, <2>4, <2>5, <1>3, MetaIs
  <2>7. \A o \in Occupied : meta'[o[1]].h2[o[2]] = meta[o[1]].h2[o[2]]
    <3>1. \A o \in BucketIds \X SlotIds : meta'[o[1]].h2 = meta[o[1]].h2
      BY <2>4, <2>5, <1>3
    <3> QED BY <3>1, OccupiedFinite
  <2> QED BY <2>6, <2>7, <1>1, <1>2, QuietInv
<1> QED BY <1>4, <1>5

(* Every step preserves the invariant.                                     *)
LEMMA NextInv == RawInv /\ [Next]_vars => RawInv'
<1> SUFFICES ASSUME RawInv, [Next]_vars PROVE RawInv' OBVIOUS
<1>0. default_ttl \in Ttls \cup {0} BY DEF RawInv, TypeOK
<1>1. ASSUME NEW k \in Keys, NEW v \in Values, NEW n \in Ttls, Update(k, v, n) PROVE RawInv'
  BY <1>1, UpdatePuts, PutInv
<1>2. ASSUME NEW k \in Keys, NEW v \in Values, NEW n \in Ttls, InsertNew(k, v, n) PROVE RawInv'
  BY <1>2, InsertNewPuts, PutInv
<1>3. ASSUME NEW k \in Keys, Get(k) PROVE RawInv' BY <1>3, GetIs
<1>4. ASSUME NEW k \in Keys, Peek(k) PROVE RawInv' BY <1>0, <1>4, SilentInv DEF Peek
<1>5. ASSUME NEW k \in Keys, RemoveFound(k) PROVE RawInv' BY <1>5, RemoveFoundIs
<1>6. ASSUME NEW k \in Keys, RemoveMissing(k) PROVE RawInv'
  BY <1>0, <1>6, SilentInv DEF RemoveMissing
<1>7. ASSUME NEW n \in Ttls, SetTtl(n) PROVE RawInv' BY <1>7, SilentInv DEF SetTtl
<1>8. CASE UNCHANGED vars BY <1>0, <1>8, SilentInv DEF vars
<1> QED BY <1>1, <1>2, <1>3, <1>4, <1>5, <1>6, <1>7, <1>8 DEF Next

(* Every reachable state of the map satisfies the invariant: slab indices  *)
(* are owned once, len() is exact, keys are unique and found where their   *)
(* hash says, and stamps lie in the past.                                  *)
THEOREM RawInvariant == Spec => []RawInv
BY InitInv, NextInv, PTL DEF Spec

(* Variables keep their types: metadata fields fit their bits, and the     *)
(* count of entries never goes below zero (raw.rs: remove).                *)
THEOREM RawTypes == Spec => []TypeOK
<1>1. RawInv => TypeOK BY DEF RawInv
<1> QED BY <1>1, RawInvariant, PTL

(* No slab entry is shared by two slots, freed twice, used after it was    *)
(* freed, or leaked (raw.rs: insert, evict, remove; slab.rs: alloc, free). *)
THEOREM RawSlabOwned == Spec => []SlabOwned
<1>1. RawInv => SlabOwned BY DEF RawInv
<1> QED BY <1>1, RawInvariant, PTL

(* len() is the number of occupied slots.                                  *)
THEOREM RawCountExact == Spec => []CountExact
<1>1. RawInv => CountExact BY DEF RawInv
<1> QED BY <1>1, RawInvariant, PTL

(* No key is stored twice, and each one is where a lookup will search.     *)
THEOREM RawKeysUnique == Spec => []KeysUnique
<1>1. RawInv => KeysUnique BY DEF RawInv
<1> QED BY <1>1, RawInvariant, PTL
-----------------------------------------------------------------------------
(* The map implements LossyMap, and eviction_count counts the keys that    *)
(* insertions make unreachable.                                            *)

(* The entry kept in an occupied place, and what lookup by key yields.     *)
EntryAt(o) == [val |-> ValueIn(o), epoch |-> slots_ttl[o[1]][o[2]].epoch,
               ttl |-> slots_ttl[o[1]][o[2]].ttl]

EntryFound(k) ==
    /\ \A o \in Occupied : KeyAt(o) = k => /\ Entry(k) = EntryAt(o) /\ Entry(k) # NoEntry
                                           /\ SlotOf(Bucket(k), k) = {o[2]}
                                           /\ o = <<Bucket(k), o[2]>>
    /\ (\A o \in Occupied : KeyAt(o) # k) => Entry(k) = NoEntry /\ SlotOf(Bucket(k), k) = {}

EntriesFound == \A k \in Keys : EntryFound(k)

(* The keys and values that occupied places hold.                          *)
LEMMA PlacesIn ==
    ASSUME RawInv, NEW o \in Occupied
    PROVE  /\ KeyAt(o) \in Keys /\ ValueIn(o) \in Values
           /\ o[1] \in BucketIds /\ o[2] \in SlotIds /\ o = <<o[1], o[2]>>
           /\ slots_ttl[o[1]][o[2]].epoch \in Nat /\ slots_ttl[o[1]][o[2]].epoch <= current_epoch
           /\ slots_ttl[o[1]][o[2]].ttl \in Ttls \cup {0}
           /\ Bucket(KeyAt(o)) = o[1]
<1>1. o[1] \in BucketIds /\ o[2] \in SlotIds /\ o = <<o[1], o[2]>> BY DEF Occupied
<1>2. KeyAt(o) \in Keys /\ ValueIn(o) \in Values
  <2>1. slab_pool \in Pools /\ Owned(slots, Occupied, slab_pool) BY TypesOf, SlabOwnedIs DEF RawInv
  <2>2. At(slots, o) = Contents(o) BY DEF At, Contents
  <2>3. RightSlot(At(slots, o), slab_pool) BY <2>2 DEF RawInv, SlotsRight
  <2> QED BY <2>1, <2>2, <2>3, ContentsIn DEF KeyAt, ValueIn
<1>3. slots_ttl \in [BucketIds -> [SlotIds -> [epoch : Nat, ttl : Ttls \cup {0}]]]
  BY DEF RawInv, TypeOK
<1>4. slots_ttl[o[1]][o[2]] \in [epoch : Nat, ttl : Ttls \cup {0}] BY <1>1, <1>3
<1>5. slots_ttl[o[1]][o[2]].epoch <= current_epoch BY <1>1 DEF RawInv, StampsPast
<1>6. Bucket(KeyAt(o)) = o[1] BY DEF RawInv, KeysUnique, KeyAt
<1> QED BY <1>1, <1>2, <1>4, <1>5, <1>6

(* What the two maps call the entry of a key is what its place holds.      *)
LEMMA EntryIs == RawInv => EntriesFound
<1> SUFFICES ASSUME RawInv, NEW k \in Keys PROVE EntryFound(k) BY DEF EntriesFound
<1> DEFINE b == Bucket(k)
<1>1. ASSUME NEW o \in Occupied, KeyAt(o) = k
      PROVE  /\ Entry(k) = EntryAt(o) /\ Entry(k) # NoEntry
             /\ SlotOf(b, k) = {o[2]} /\ o = <<b, o[2]>>
  <2>1. o[1] = b /\ SlotOf(b, k) = {o[2]} BY <1>1, SlotOfIs
  <2>2. o = <<b, o[2]>> BY <2>1, PlacesIn
  <2>3. Contents(o) = slots[b][o[2]] BY <2>1 DEF Contents
  <2> DEFINE s == CHOOSE s \in SlotOf(b, k) : TRUE
  <2>4. s = o[2] BY <2>1
  <2>5. Entry(k) = [val |-> SlotValue(slots[b][s], slab_pool),
                    epoch |-> slots_ttl[b][s].epoch, ttl |-> slots_ttl[b][s].ttl]
    BY <2>1 DEF Entry
  <2> HIDE DEF s
  <2>6. Entry(k) = EntryAt(o) BY <2>1, <2>3, <2>4, <2>5 DEF EntryAt, ValueIn
  <2>7. EntryAt(o) \in [val : Values, epoch : Nat, ttl : Nat]
    <3>1. Ttls \cup {0} \subseteq Nat BY RawAssumption
    <3> QED BY <3>1, PlacesIn DEF EntryAt
  <2> QED BY <2>1, <2>2, <2>6, <2>7, RawAssumption
<1>2. ASSUME \A o \in Occupied : KeyAt(o) # k PROVE Entry(k) = NoEntry /\ SlotOf(b, k) = {}
  <2>1. SlotOf(b, k) = {} BY <1>2, SlotOfIs
  <2> QED BY <2>1 DEF Entry
<1> QED BY <1>1, <1>2 DEF EntryFound

(* Age: the wrapping subtraction of the code is the distance in epochs.    *)
LEMMA AgeIs ==
    ASSUME NEW e \in Nat, NEW now \in 0 .. MaxEpoch, e <= now
    PROVE  (now + Modulus - e) % Modulus = now - e
<1>1. Modulus \in Nat /\ MaxEpoch < Modulus /\ MaxEpoch \in Nat BY RawAssumption
<1>2. now - e \in 0 .. (Modulus - 1) /\ now + Modulus - e = Modulus * 1 + (now - e) BY <1>1
<1> QED BY <1>1, <1>2, RemainderIs

(* A place is expired in the map exactly when its key is in LossyMap.      *)
LEMMA ExpiredIs ==
    ASSUME RawInv, NEW o \in Occupied, NEW now \in 0 .. MaxEpoch, current_epoch <= now
    PROVE  IsExpired(o[1], o[2], now) <=> Cache!Expired(KeyAt(o), now)
<1> DEFINE k == KeyAt(o)
           e == slots_ttl[o[1]][o[2]]
<1>1. k \in Keys /\ e.epoch \in Nat /\ e.epoch <= current_epoch /\ e.ttl \in Ttls \cup {0} BY PlacesIn
<1>2. current_epoch \in Nat /\ default_ttl \in Ttls \cup {0} /\ Ttls \cup {0} \subseteq Nat /\ MaxEpoch \in Nat
  BY RawAssumption DEF RawInv, TypeOK
<1>3. EntryFound(k) BY <1>1, EntryIs DEF EntriesFound
<1>4. Entry(k).epoch = e.epoch /\ Entry(k).ttl = e.ttl BY <1>3 DEF EntryFound, EntryAt
<1> DEFINE eff == IF e.ttl = 0 THEN default_ttl ELSE e.ttl
           age == (now + Modulus - e.epoch) % Modulus
           ep == e.epoch
<1>5. IsExpired(o[1], o[2], now) <=> eff \notin {0, Never} /\ age > eff BY DEF IsExpired
<1>6. Cache!Lifetime(k) = eff BY <1>1, <1>4 DEF Cache!Lifetime
<1>7. Cache!Expired(k, now) <=> eff \notin {0, Never} /\ now > ep + eff
  BY <1>1, <1>4, <1>6 DEF Cache!Expired
<1>8. eff \in Nat /\ ep \in Nat /\ ep <= current_epoch BY <1>1, <1>2
<1> HIDE DEF eff, ep
<1>9. age = now - ep BY <1>2, <1>8, AgeIs DEF ep
<1> HIDE DEF age
<1>10. age > eff <=> now > ep + eff BY <1>2, <1>8, <1>9
<1> QED BY <1>5, <1>7, <1>10

(* A step after which nobody's place or stamp has changed.                 *)
LEMMA SameStore ==
    ASSUME RawInv, RawInv', Occupied' = Occupied, UNCHANGED <<slots, slab_pool, slots_ttl>>
    PROVE  \A k \in Keys : Entry(k)' = Entry(k)
<1>1. \A o : KeyAt(o)' = KeyAt(o) /\ EntryAt(o)' = EntryAt(o)
  BY DEF KeyAt, ValueIn, EntryAt, Contents
<1>2. (RawInv => EntriesFound)' BY EntryIs, PTL
<1> TAKE k \in Keys
<1>3. EntryFound(k) /\ EntryFound(k)' BY <1>2, EntryIs DEF EntriesFound
<1>4. CASE \A o \in Occupied : KeyAt(o) # k
  <2>1. Entry(k) = NoEntry BY <1>3, <1>4 DEF EntryFound
  <2>2. \A o \in Occupied' : KeyAt(o)' # k BY <1>1, <1>4
  <2>3. Entry(k)' = NoEntry BY <1>3, <2>2 DEF EntryFound
  <2> QED BY <2>1, <2>3
<1>5. ASSUME NEW o \in Occupied, KeyAt(o) = k PROVE Entry(k)' = Entry(k)
  <2>1. o \in Occupied' /\ KeyAt(o)' = k BY <1>1, <1>5
  <2>2. Entry(k) = EntryAt(o) BY <1>3, <1>5 DEF EntryFound
  <2>3. Entry(k)' = EntryAt(o)' BY <1>3, <2>1 DEF EntryFound
  <2> QED BY <2>2, <2>3, <1>1
<1> QED BY <1>4, <1>5

(* An insertion stores the pair with its stamp, and only the key whose     *)
(* place it took is forgotten.                                             *)
LEMMA PutStore ==
    ASSUME RawInv, NEW k \in Keys, NEW v \in Values, NEW n \in Ttls, NEW s, Puts(k, v, n, s)
    PROVE  LET x == <<Bucket(k), s>>
           IN  /\ Entry(k)' = [val |-> v, epoch |-> current_epoch + 1, ttl |-> n]
               /\ Entry(k)' # NoEntry
               /\ \A j \in Keys \ {k} :
                     Entry(j)' = IF x \in Occupied /\ KeyAt(x) = j THEN NoEntry ELSE Entry(j)
<1> DEFINE b == Bucket(k)
           x == <<b, s>>
           rest == Occupied \ {x}
<1>1. RawInv' BY PutInv
<1>2. b \in BucketIds /\ s \in SlotIds /\ Occupied' = rest \cup {x}
  BY BucketIn DEF Puts, WritesPlace
<1>3. /\ \A o \in rest : KeyAt(o)' = KeyAt(o) /\ ValueIn(o)' = ValueIn(o)
      /\ KeyAt(x)' = k /\ ValueIn(x)' = v
  BY WriteSlotIs DEF Puts
<1>4. /\ slots_ttl'[b][s] = [epoch |-> current_epoch + 1, ttl |-> n]
      /\ \A c \in BucketIds, r \in SlotIds :
            <<c, r>> # <<b, s>> => slots_ttl'[c][r] = slots_ttl[c][r]
  BY <1>2, StampIs DEF Puts, RawInv
<1>5. EntryAt(x)' = [val |-> v, epoch |-> current_epoch + 1, ttl |-> n]
  BY <1>3, <1>4 DEF EntryAt
<1>6. \A o \in rest : EntryAt(o)' = EntryAt(o)
  <2> TAKE o \in rest
  <2>1. o[1] \in BucketIds /\ o[2] \in SlotIds /\ <<o[1], o[2]>> # <<b, s>> BY PlacesIn
  <2>2. slots_ttl'[o[1]][o[2]] = slots_ttl[o[1]][o[2]] BY <2>1, <1>4
  <2> QED BY <2>2, <1>3 DEF EntryAt
<1>7. (RawInv => EntriesFound)' BY EntryIs, PTL
<1>8. \A j \in Keys : EntryFound(j) /\ EntryFound(j)' BY <1>1, <1>7, EntryIs DEF EntriesFound
<1>9. \A o \in rest : KeyAt(o) # k BY DEF Puts
<1> HIDE DEF x, rest
<1>10. Entry(k)' = EntryAt(x)' /\ Entry(k)' # NoEntry BY <1>2, <1>3, <1>8 DEF EntryFound
<1>11. ASSUME NEW j \in Keys \ {k}
       PROVE  Entry(j)' = IF x \in Occupied /\ KeyAt(x) = j THEN NoEntry ELSE Entry(j)
  <2>1. EntryFound(j) /\ EntryFound(j)' BY <1>8
  <2>2. CASE x \in Occupied /\ KeyAt(x) = j
    <3>1. \A o \in rest : KeyAt(o) # j BY <2>2 DEF RawInv, KeysUnique, KeyAt, rest
    <3>2. \A o \in Occupied' : KeyAt(o)' # j BY <3>1, <1>2, <1>3
    <3> QED BY <2>1, <2>2, <3>2 DEF EntryFound
  <2>3. CASE ~(x \in Occupied /\ KeyAt(x) = j)
    <3>1. CASE \A o \in rest : KeyAt(o) # j
      <4>1. \A o \in Occupied' : KeyAt(o)' # j BY <3>1, <1>2, <1>3
      <4>2. \A o \in Occupied : KeyAt(o) # j BY <2>3, <3>1 DEF rest
      <4>3. Entry(j)' = NoEntry BY <2>1, <4>1 DEF EntryFound
      <4>4. Entry(j) = NoEntry BY <2>1, <4>2 DEF EntryFound
      <4> QED BY <2>3, <4>3, <4>4
    <3>2. ASSUME NEW o \in rest, KeyAt(o) = j PROVE Entry(j)' = Entry(j)
      <4>1. o \in Occupied /\ o \in Occupied' /\ KeyAt(o)' = j BY <3>2, <1>2, <1>3 DEF rest
      <4>2. Entry(j) = EntryAt(o) BY <2>1, <3>2, <4>1 DEF EntryFound
      <4>3. Entry(j)' = EntryAt(o)' BY <2>1, <4>1 DEF EntryFound
      <4> QED BY <4>2, <4>3, <1>6
    <3> QED BY <2>3, <3>1, <3>2
  <2> QED BY <2>2, <2>3
<1> QED BY <1>5, <1>10, <1>11 DEF x

(* A removal forgets its key and no other.                                 *)
LEMMA RemoveStore ==
    ASSUME RawInv, NEW k \in Keys, RemoveFound(k)
    PROVE  /\ Entry(k) # NoEntry /\ Entry(k)' = NoEntry
           /\ \A j \in Keys \ {k} : Entry(j)' = Entry(j)
<1>1. PICK x \in Occupied :
         /\ KeyAt(x) = k /\ Occupied' = Occupied \ {x}
         /\ \A o \in Occupied \ {x} : KeyAt(o)' = KeyAt(o) /\ ValueIn(o)' = ValueIn(o)
  BY RemoveFoundIs
<1>2. RawInv' /\ slots_ttl' = slots_ttl BY RemoveFoundIs DEF RemoveFound
<1>3. (RawInv => EntriesFound)' BY EntryIs, PTL
<1>4. \A j \in Keys : EntryFound(j) /\ EntryFound(j)' BY <1>2, <1>3, EntryIs DEF EntriesFound
<1>5. \A o \in Occupied' : EntryAt(o)' = EntryAt(o) BY <1>1, <1>2 DEF EntryAt
<1>6. Entry(k) # NoEntry BY <1>1, <1>4 DEF EntryFound
<1>7. Entry(k)' = NoEntry
  <2>1. \A o \in Occupied' : KeyAt(o)' # k
    BY <1>1 DEF RawInv, KeysUnique, KeyAt
  <2> QED BY <2>1, <1>4 DEF EntryFound
<1>8. ASSUME NEW j \in Keys \ {k} PROVE Entry(j)' = Entry(j)
  <2>1. EntryFound(j) /\ EntryFound(j)' BY <1>4
  <2>2. CASE \A o \in Occupied' : KeyAt(o)' # j
    <3>1. \A o \in Occupied : KeyAt(o) # j BY <2>2, <1>1
    <3> QED BY <2>1, <2>2, <3>1 DEF EntryFound
  <2>3. ASSUME NEW o \in Occupied', KeyAt(o)' = j PROVE Entry(j)' = Entry(j)
    <3>1. o \in Occupied /\ KeyAt(o) = j BY <2>3, <1>1
    <3>2. Entry(j) = EntryAt(o) BY <2>1, <3>1 DEF EntryFound
    <3>3. Entry(j)' = EntryAt(o)' BY <2>1, <2>3 DEF EntryFound
    <3> QED BY <3>2, <3>3, <1>5
  <2> QED BY <2>2, <2>3
<1> QED BY <1>6, <1>7, <1>8
-----------------------------------------------------------------------------
(* The rivals of a new key are the keys in the slots of its bucket, one    *)
(* for each occupied slot.                                                 *)
LEMMA RivalsAre ==
    ASSUME RawInv, NEW k \in Keys, SlotOf(Bucket(k), k) = {}
    PROVE  LET b == Bucket(k)
               F == FullSlots(meta[b])
           IN  /\ Cache!Rivals(k) = {KeyAt(<<b, s>>) : s \in F}
               /\ Cardinality(Cache!Rivals(k)) = Cardinality(F)
               /\ \A s \in SlotIds : <<b, s>> \in Occupied <=> s \in F
<1> DEFINE b == Bucket(k)
           F == FullSlots(meta[b])
           f == [s \in F |-> KeyAt(<<b, s>>)]
           R == {KeyAt(<<b, s>>) : s \in F}
<1>1. b \in BucketIds /\ F \subseteq SlotIds BY BucketIn DEF FullSlots
<1>2. \A s \in SlotIds : <<b, s>> \in Occupied <=> s \in F BY <1>1 DEF Occupied
<1>3. \A j \in Keys : Bucket(j) \in BucketIds /\ EntryFound(j) BY BucketIn, EntryIs DEF EntriesFound
<1>4. \A o \in Occupied : KeyAt(o) # k BY SlotOfIs
<1>5. ASSUME NEW s \in F
      PROVE  /\ <<b, s>> \in Occupied /\ KeyAt(<<b, s>>) \in Keys \ {k}
             /\ Bucket(KeyAt(<<b, s>>)) = b
  <2>1. <<b, s>> \in Occupied BY <1>1, <1>2
  <2> HIDE DEF b
  <2> QED BY <2>1, <1>4, PlacesIn
<1>6. \A j \in Keys : Cache!Present(j) <=> Entry(j) # NoEntry BY DEF Cache!Present
<1>7. Cache!Rivals(k) = {j \in Keys \ {k} : Entry(j) # NoEntry /\ Bucket(j) = b}
  BY <1>6 DEF Cache!Rivals
<1>8. ASSUME NEW j \in Keys \ {k}, Entry(j) # NoEntry, Bucket(j) = b PROVE j \in R
  <2>1. PICK o \in Occupied : KeyAt(o) = j BY <1>3, <1>8 DEF EntryFound
  <2>2. o[2] \in SlotIds /\ o = <<b, o[2]>> BY <2>1, <1>8, PlacesIn
  <2>3. o[2] \in F BY <2>2, <1>2
  <2> QED BY <2>1, <2>2, <2>3
<1>9. ASSUME NEW s \in F PROVE KeyAt(<<b, s>>) \in Cache!Rivals(k)
  <2>1. Entry(KeyAt(<<b, s>>)) # NoEntry BY <1>3, <1>5 DEF EntryFound
  <2> QED BY <2>1, <1>5, <1>7
<1>10. Cache!Rivals(k) = R
  <2> HIDE DEF F, b
  <2> QED BY <1>7, <1>8, <1>9
<1>11. f \in Bijection(F, R)
  <2>1. \A s, r \in F : f[s] = f[r] => s = r
    <3> TAKE s, r \in F
    <3> HAVE f[s] = f[r]
    <3>1. KeyAt(<<b, s>>) = KeyAt(<<b, r>>) OBVIOUS
    <3>2. <<b, s>> = <<b, r>> BY <3>1, <1>5 DEF RawInv, KeysUnique, KeyAt
    <3> QED BY <3>2
  <2> HIDE DEF F, b
  <2>2. f \in [F -> R] /\ \A t \in R : \E s \in F : f[s] = t OBVIOUS
  <2> QED BY <2>1, <2>2, Fun_IsBij
<1>12. IsFiniteSet(F) BY <1>1, SlotIdsNat, FS_Subset
<1>13. Cardinality(R) = Cardinality(F)
  <2> HIDE DEF F, R, f
  <2> QED BY <1>11, <1>12, FS_Bijection DEF ExistsBijection
<1> QED BY <1>2, <1>10, <1>13

(* The target of a new key, in the words of LossyMap.                      *)
LEMMA TargetIs ==
    ASSUME RawInv, NEW k \in Keys, current_epoch < MaxEpoch, SlotOf(Bucket(k), k) = {},
           NEW s \in TargetSlot(Bucket(k), current_epoch + 1)
    PROVE  LET x == <<Bucket(k), s>>
           IN  (IF x \in Occupied THEN {KeyAt(x)} ELSE {}) \in Cache!Victims(k)
<1> DEFINE b == Bucket(k)
           x == <<b, s>>
           now == current_epoch + 1
           F == FullSlots(meta[b])
           R == Cache!Rivals(k)
           S == {r \in SlotIds : r \notin F \/ IsExpired(b, r, now)}
           T == {r \in F : \A q \in F : Priority(meta[b], r) <= Priority(meta[b], q)}
           dead == {j \in R : Cache!Expired(j, now)}
<1>1. /\ R = {KeyAt(<<b, r>>) : r \in F} /\ Cardinality(R) = Cardinality(F)
      /\ \A r \in SlotIds : <<b, r>> \in Occupied <=> r \in F
  BY RivalsAre
<1>2. now \in 0 .. MaxEpoch /\ current_epoch <= now BY RawAssumption DEF RawInv, TypeOK
<1>3. \A r \in F : IsExpired(b, r, now) <=> Cache!Expired(KeyAt(<<b, r>>), now)
  <2> TAKE r \in F
  <2>1. r \in SlotIds BY DEF FullSlots
  <2>2. <<b, r>> \in Occupied BY <1>1, <2>1
  <2> HIDE DEF now, b
  <2> QED BY <1>2, <2>2, ExpiredIs
<1>4. S \in SUBSET Nat /\ T \in SUBSET Nat /\ F \subseteq SlotIds BY SlotIdsNat DEF FullSlots
<1>5. s \in SlotIds BY TargetSlotIs
<1>6. FindFreeOrExpired(b, now) = First(S) BY DEF FindFreeOrExpired
<1>7. FindEvictTarget(meta[b]) = First(T) BY DEF FindEvictTarget
<1>8. IF First(S) # {} THEN s \in First(S) ELSE s \in First(T) BY <1>6, <1>7 DEF TargetSlot
<1>8a. Cache!Cardinality(R) = Cardinality(R) BY DEF Cache!Cardinality, Cardinality
<1>9. Cache!Victims(k) = IF dead # {}
                         THEN {{j} : j \in dead} \cup (IF Cardinality(R) >= SlotsPerBucket THEN {} ELSE {{}})
                         ELSE IF Cardinality(R) >= SlotsPerBucket THEN {{j} : j \in R} ELSE {{}}
  BY <1>8a DEF Cache!Victims
<1>10. IsFiniteSet(F) /\ Cardinality(F) \in Nat BY <1>4, SlotIdsNat, FS_Subset, FS_CardinalityType
<1> DEFINE n == Cardinality(R)
           V == Cache!Victims(k)
<1>10a. /\ dead # {} => \A j \in dead : {j} \in V
        /\ dead = {} /\ n >= SlotsPerBucket => \A j \in R : {j} \in V
        /\ ~(n >= SlotsPerBucket) => {} \in V
  <2> HIDE DEF dead, R
  <2> QED BY <1>9
<1>11. CASE s \in S /\ s \notin F
  <2>1. F \subseteq SlotIds \ {s} BY <1>4, <1>11
  <2>2. IsFiniteSet(SlotIds \ {s}) /\ Cardinality(SlotIds \ {s}) = SlotsPerBucket - 1
    BY <1>5, SlotIdsNat, FS_RemoveElement
  <2>3. Cardinality(F) <= SlotsPerBucket - 1
    <3> HIDE DEF F
    <3>1. Cardinality(F) <= Cardinality(SlotIds \ {s}) BY <2>1, <2>2, FS_Subset
    <3> QED BY <3>1, <2>2
  <2>4. ~(n >= SlotsPerBucket) BY <2>3, <1>1, <1>10, MetaAssumption
  <2>5. x \notin Occupied BY <1>1, <1>5, <1>11
  <2> HIDE DEF n, V
  <2> QED BY <2>4, <2>5, <1>10a DEF V
<1>12. CASE s \in S /\ s \in F
  <2>1. IsExpired(b, s, now) BY <1>12
  <2>2. KeyAt(x) \in dead BY <2>1, <1>1, <1>3, <1>12
  <2>3. x \in Occupied BY <1>1, <1>5, <1>12
  <2> HIDE DEF dead, V
  <2> QED BY <2>2, <2>3, <1>10a DEF V
<1>13. CASE S = {}
  <2>1. F = SlotIds /\ \A r \in F : ~IsExpired(b, r, now)
    <3> HIDE DEF F
    <3> QED BY <1>4, <1>13
  <2>2. dead = {} BY <2>1, <1>1, <1>3
  <2>3. n = SlotsPerBucket BY <2>1, <1>1, SlotIdsNat
  <2>4. x \in Occupied /\ KeyAt(x) \in R BY <2>1, <1>1, <1>5
  <2> HIDE DEF dead, V, R, n
  <2> QED BY <2>2, <2>3, <2>4, <1>10a, MetaAssumption DEF V
<1>14. s \in S \/ S = {}
  <2>1. S # {} => First(S) # {}
    <3> HIDE DEF S
    <3> QED BY <1>4, FirstExists
  <2> QED BY <2>1, <1>8 DEF First
<1> QED BY <1>11, <1>12, <1>13, <1>14
-----------------------------------------------------------------------------
(* Each operation is an operation of LossyMap.                             *)
Forgets(x) == IF x \in Occupied THEN {KeyAt(x)} ELSE {}

(* The store after an insertion, in the words of LossyMap.                 *)
LEMMA InsertImplements ==
    ASSUME RawInv, NEW k \in Keys, NEW v \in Values, NEW n \in Ttls, NEW s, Puts(k, v, n, s),
           NEW lost, lost \in IF Entry(k) # NoEntry THEN {{}} ELSE Cache!Victims(k),
           \A j \in Keys \ {k} : j \in lost <=> j \in Forgets(<<Bucket(k), s>>),
           InsertReturns(k, v)
    PROVE  Cache!Insert(k, v, n)
<1> DEFINE x == <<Bucket(k), s>>
<1>1. /\ Entry(k)' = [val |-> v, epoch |-> current_epoch + 1, ttl |-> n]
      /\ \A j \in Keys \ {k} :
            Entry(j)' = IF x \in Occupied /\ KeyAt(x) = j THEN NoEntry ELSE Entry(j)
  BY PutStore
<1>2. \A j \in Keys \ {k} : j \in lost <=> x \in Occupied /\ KeyAt(x) = j BY DEF Forgets
<1>3. current_epoch' = current_epoch + 1 /\ default_ttl' = default_ttl
  BY DEF Puts, Stamp
<1>4. ret' = [op |-> "insert", key |-> k, res |-> v] BY DEF InsertReturns
<1>5. \A j \in Keys : Entry(j)' = IF j = k THEN [val |-> v, epoch |-> current_epoch + 1, ttl |-> n]
                                  ELSE IF j \in lost THEN NoEntry ELSE Entry(j)
  BY <1>1, <1>2
<1>6. Cache!Present(k) <=> Entry(k) # NoEntry BY DEF Cache!Present
<1>7. [j \in Keys |-> Entry(j)]' =
         [j \in Keys |-> IF j = k THEN [val |-> v, epoch |-> current_epoch + 1, ttl |-> n]
                         ELSE IF j \in lost THEN NoEntry ELSE [i \in Keys |-> Entry(i)][j]]
  BY <1>5
<1>8. lost \in IF Cache!Present(k) THEN {{}} ELSE Cache!Victims(k) BY <1>6
<1> QED BY <1>3, <1>4, <1>7, <1>8 DEF Cache!Insert

(* An update: the key is present and nothing else is lost.                 *)
LEMMA UpdateImplements ==
    ASSUME RawInv, NEW k \in Keys, NEW v \in Values, NEW n \in Ttls, Update(k, v, n)
    PROVE  /\ Cache!Insert(k, v, n) /\ UNCHANGED eviction_count
           /\ \A j \in Keys : Entry(j) # NoEntry => Entry(j)' # NoEntry
<1>1. PICK s \in SlotOf(Bucket(k), k) : Puts(k, v, n, s) BY UpdatePuts
<1> DEFINE x == <<Bucket(k), s>>
<1>2. x \in Occupied /\ KeyAt(x) = k BY SlotOfIs
<1>3. Entry(k) # NoEntry BY <1>2, EntryIs DEF EntriesFound, EntryFound
<1>4. \A j \in Keys \ {k} : j \in {} <=> j \in Forgets(x) BY <1>2 DEF Forgets
<1>5. InsertReturns(k, v) /\ UNCHANGED eviction_count BY DEF Update
<1>6. Cache!Insert(k, v, n) BY <1>1, <1>3, <1>4, <1>5, InsertImplements
<1>7. \A j \in Keys : Entry(j) # NoEntry => Entry(j)' # NoEntry
  BY <1>1, <1>2, PutStore
<1> QED BY <1>5, <1>6, <1>7

(* An insertion of a new key loses the key whose place it takes.           *)
LEMMA InsertNewImplements ==
    ASSUME RawInv, NEW k \in Keys, NEW v \in Values, NEW n \in Ttls, InsertNew(k, v, n)
    PROVE  /\ Cache!Insert(k, v, n)
           /\ eviction_count' - eviction_count =
                 Cardinality({j \in Keys : Entry(j) # NoEntry /\ Entry(j)' = NoEntry})
<1>1. PICK s \in TargetSlot(Bucket(k), current_epoch + 1) :
         /\ Puts(k, v, n, s)
         /\ eviction_count' = eviction_count + IF <<Bucket(k), s>> \in Occupied THEN 1 ELSE 0
  BY InsertNewPuts
<1> DEFINE x == <<Bucket(k), s>>
           lost == Forgets(x)
           gone == {j \in Keys : Entry(j) # NoEntry /\ Entry(j)' = NoEntry}
<1>2. SlotOf(Bucket(k), k) = {} /\ current_epoch < MaxEpoch /\ InsertReturns(k, v) BY DEF InsertNew
<1>3. \A o \in Occupied : KeyAt(o) # k BY <1>2, SlotOfIs
<1>4. Entry(k) = NoEntry BY <1>3, EntryIs DEF EntriesFound, EntryFound
<1>5. lost \in Cache!Victims(k) BY <1>2, TargetIs DEF Forgets
<1>6. Cache!Insert(k, v, n)
  <2>1. \A j \in Keys \ {k} : j \in lost <=> j \in Forgets(x) OBVIOUS
  <2> HIDE DEF lost
  <2> QED BY <2>1, <1>1, <1>2, <1>4, <1>5, InsertImplements
<1>7. gone = lost
  <2>1. /\ Entry(k)' # NoEntry
        /\ \A j \in Keys \ {k} :
              Entry(j)' = IF x \in Occupied /\ KeyAt(x) = j THEN NoEntry ELSE Entry(j)
    BY <1>1, PutStore
  <2>2. x \in Occupied => KeyAt(x) \in Keys \ {k} /\ Entry(KeyAt(x)) # NoEntry
    <3> SUFFICES ASSUME x \in Occupied PROVE KeyAt(x) \in Keys \ {k} /\ Entry(KeyAt(x)) # NoEntry
      OBVIOUS
    <3>1. KeyAt(x) \in Keys \ {k} BY <1>3, PlacesIn
    <3> QED BY <3>1, EntryIs DEF EntriesFound, EntryFound
  <2> HIDE DEF x
  <2> QED BY <2>1, <2>2, <1>4 DEF Forgets
<1>8. Cardinality(lost) = IF x \in Occupied THEN 1 ELSE 0
  BY FS_EmptySet, FS_Singleton DEF Forgets
<1>9. eviction_count \in Nat BY DEF RawInv, TypeOK
<1>10. eviction_count' - eviction_count = Cardinality(gone)
  <2> HIDE DEF gone, lost, x
  <2> QED BY <1>1, <1>7, <1>8, <1>9 DEF x
<1> QED BY <1>6, <1>10

(* Lookups see the entry unless it has expired.                            *)
LEMMA LookupImplements ==
    ASSUME RawInv, RawInv', NEW k \in Keys, NEW op, LookupReturns(op, k), Occupied' = Occupied,
           UNCHANGED <<slots, slab_pool, slots_ttl, current_epoch, default_ttl>>
    PROVE  Cache!Lookup(op, k) /\ \A j \in Keys : Entry(j)' = Entry(j)
<1> DEFINE b == Bucket(k)
<1>1. \A j \in Keys : Entry(j)' = Entry(j) BY SameStore
<1>2. current_epoch \in 0 .. MaxEpoch /\ current_epoch <= current_epoch
  BY RawAssumption DEF RawInv, TypeOK
<1>3. EntryFound(k) BY EntryIs DEF EntriesFound
<1>4. Cache!Present(k) <=> Entry(k) # NoEntry BY DEF Cache!Present
<1> DEFINE res == IF Hits(k) = {} THEN NoValue
                  ELSE CHOOSE v \in {SlotValue(slots[b][s], slab_pool) : s \in Hits(k)} : TRUE
<1>5. res = IF Cache!Present(k) /\ ~Cache!Expired(k, current_epoch) THEN Entry(k).val ELSE NoValue
  <2>1. CASE \A o \in Occupied : KeyAt(o) # k
    <3>1. Entry(k) = NoEntry /\ SlotOf(b, k) = {} BY <2>1, <1>3 DEF EntryFound
    <3>2. Hits(k) = {} BY <3>1 DEF Hits
    <3> QED BY <3>1, <3>2, <1>4
  <2>2. ASSUME NEW o \in Occupied, KeyAt(o) = k
        PROVE  res = IF Cache!Present(k) /\ ~Cache!Expired(k, current_epoch)
                     THEN Entry(k).val ELSE NoValue
    <3>1. /\ Entry(k) = EntryAt(o) /\ Entry(k) # NoEntry
          /\ SlotOf(b, k) = {o[2]} /\ o = <<b, o[2]>>
      BY <2>2, <1>3 DEF EntryFound
    <3>2. o[1] = b BY <3>1
    <3>3. IsExpired(b, o[2], current_epoch) <=> Cache!Expired(k, current_epoch)
      BY <2>2, <3>2, <1>2, ExpiredIs
    <3>4. SlotValue(slots[b][o[2]], slab_pool) = Entry(k).val
      BY <3>1, <3>2 DEF EntryAt, ValueIn, Contents
    <3>5. Hits(k) = IF Cache!Expired(k, current_epoch) THEN {} ELSE {o[2]}
      BY <3>1, <3>3 DEF Hits
    <3> QED BY <3>1, <3>4, <3>5, <1>4
  <2> QED BY <2>1, <2>2
<1>6. ret' = [op |-> op, key |-> k, res |-> res] BY DEF LookupReturns
<1>7. [j \in Keys |-> Entry(j)]' = [j \in Keys |-> Entry(j)] BY <1>1
<1> HIDE DEF res
<1>8. [j \in Keys |-> Entry(j)][k] = Entry(k) OBVIOUS
<1> QED BY <1>1, <1>5, <1>6, <1>7, <1>8 DEF Cache!Lookup

(* Steps that leave every entry alone.                                     *)
LEMMA SameCache ==
    ASSUME \A k \in Keys : Entry(k)' = Entry(k)
    PROVE  [k \in Keys |-> Entry(k)]' = [k \in Keys |-> Entry(k)]
OBVIOUS

(* Every step of the map is a step of LossyMap or leaves it unchanged.     *)
LEMMA StepImplements ==
    ASSUME RawInv, [Next]_vars
    PROVE  [Cache!Next]_Cache!vars
<1>0. RawInv' BY NextInv
<1>1. ASSUME NEW k \in Keys, NEW v \in Values, NEW n \in Ttls, Update(k, v, n)
      PROVE  Cache!Next
  BY <1>1, UpdateImplements DEF Cache!Next
<1>2. ASSUME NEW k \in Keys, NEW v \in Values, NEW n \in Ttls, InsertNew(k, v, n)
      PROVE  Cache!Next
  BY <1>2, InsertNewImplements DEF Cache!Next
<1>3. ASSUME NEW k \in Keys, Get(k) PROVE Cache!Next
  <2>1. Occupied' = Occupied BY <1>3, GetIs
  <2>2. Cache!Lookup("get", k) BY <1>0, <1>3, <2>1, LookupImplements DEF Get
  <2> QED BY <2>2 DEF Cache!Next
<1>4. ASSUME NEW k \in Keys, Peek(k) PROVE Cache!Next
  <2>1. Occupied' = Occupied BY <1>4 DEF Peek, Occupied
  <2>2. Cache!Lookup("peek", k) BY <1>0, <1>4, <2>1, LookupImplements DEF Peek
  <2> QED BY <2>2 DEF Cache!Next
<1>5. ASSUME NEW k \in Keys, RemoveFound(k) PROVE Cache!Next
  <2>1. /\ Entry(k) # NoEntry /\ Entry(k)' = NoEntry
        /\ \A j \in Keys \ {k} : Entry(j)' = Entry(j)
    BY <1>5, RemoveStore
  <2>2. [j \in Keys |-> Entry(j)]' = [[j \in Keys |-> Entry(j)] EXCEPT ![k] = NoEntry]
    <3>1. \A j \in Keys : Entry(j)' = IF j = k THEN NoEntry ELSE Entry(j) BY <2>1
    <3> QED BY <3>1
  <2>3. Cache!Present(k) = TRUE BY <2>1 DEF Cache!Present
  <2>4. Cache!Remove(k) BY <1>5, <2>2, <2>3 DEF RemoveFound, Cache!Remove
  <2> QED BY <2>4 DEF Cache!Next
<1>6. ASSUME NEW k \in Keys, RemoveMissing(k) PROVE Cache!Next
  <2>1. Occupied' = Occupied /\ UNCHANGED <<slots, slab_pool, slots_ttl>>
    BY <1>6 DEF RemoveMissing, Occupied
  <2>2. \A j \in Keys : Entry(j)' = Entry(j) BY <2>1, <1>0, SameStore
  <2>3. Entry(k) = NoEntry BY <1>6 DEF RemoveMissing, Entry
  <2>4. [j \in Keys |-> Entry(j)]' = [[j \in Keys |-> Entry(j)] EXCEPT ![k] = NoEntry]
    BY <2>2, <2>3
  <2>5. Cache!Present(k) = FALSE BY <2>3 DEF Cache!Present
  <2>6. Cache!Remove(k) BY <1>6, <2>4, <2>5 DEF RemoveMissing, Cache!Remove
  <2> QED BY <2>6 DEF Cache!Next
<1>7. ASSUME NEW n \in Ttls, SetTtl(n) PROVE Cache!Next
  <2>1. Occupied' = Occupied /\ UNCHANGED <<slots, slab_pool, slots_ttl>>
    BY <1>7 DEF SetTtl, Occupied
  <2>2. [k \in Keys |-> Entry(k)]' = [k \in Keys |-> Entry(k)]
    BY <2>1, <1>0, SameStore, SameCache
  <2>3. Cache!SetTtl(n) BY <1>7, <2>2 DEF SetTtl, Cache!SetTtl
  <2> QED BY <2>3 DEF Cache!Next
<1>8. CASE UNCHANGED vars
  <2>1. Occupied' = Occupied /\ UNCHANGED <<slots, slab_pool, slots_ttl>>
    BY <1>8 DEF vars, Occupied
  <2>2. [k \in Keys |-> Entry(k)]' = [k \in Keys |-> Entry(k)]
    BY <2>1, <1>0, SameStore, SameCache
  <2> QED BY <2>2, <1>8 DEF vars, Cache!vars
<1> QED BY <1>1, <1>2, <1>3, <1>4, <1>5, <1>6, <1>7, <1>8 DEF Next

(* A new map is an empty LossyMap.                                         *)
LEMMA InitImplements == Init => Cache!Init
<1> SUFFICES ASSUME Init PROVE Cache!Init OBVIOUS
<1>1. RawInv BY InitInv
<1>2. Occupied = {} BY EmptyMetaIs DEF Init, Occupied
<1>3. \A k \in Keys : Entry(k) = NoEntry BY <1>1, <1>2, EntryIs DEF EntriesFound, EntryFound
<1> QED BY <1>3 DEF Init, Cache!Init

(* The single-threaded map implements the map that may forget: a lookup    *)
(* returns the last value inserted for its key or nothing, and an          *)
(* insertion costs at most one other key of its bucket, a live one only    *)
(* when the bucket is full of live entries (raw.rs: every method).         *)
THEOREM RawImplementsLossyMap == Spec => ImplementsLossyMap
<1>1. RawInv /\ [Next]_vars => [Cache!Next]_Cache!vars BY StepImplements
<1> QED BY <1>1, InitImplements, RawInvariant, PTL DEF Spec, ImplementsLossyMap, Cache!Spec

(* What EvictionsCounted says of one step.                                 *)
Counted ==
    eviction_count' - eviction_count =
       (IF current_epoch' = current_epoch THEN 0
        ELSE Cardinality({k \in Keys : Entry(k) # NoEntry /\ Entry(k)' = NoEntry}))

(* Every step counts the key it makes unreachable.                         *)
LEMMA StepCounted ==
    ASSUME RawInv, Next
    PROVE  Counted
<1>0. eviction_count \in Nat /\ current_epoch \in Nat BY DEF RawInv, TypeOK
<1> DEFINE gone == {k \in Keys : Entry(k) # NoEntry /\ Entry(k)' = NoEntry}
<1>1. ASSUME NEW k \in Keys, NEW v \in Values, NEW n \in Ttls, Update(k, v, n) PROVE Counted
  <2>1. eviction_count' = eviction_count /\ gone = {} BY <1>1, UpdateImplements
  <2>2. current_epoch' # current_epoch BY <1>0, <1>1 DEF Update, Stamp
  <2> QED BY <2>1, <2>2, <1>0, FS_EmptySet DEF Counted
<1>2. ASSUME NEW k \in Keys, NEW v \in Values, NEW n \in Ttls, InsertNew(k, v, n) PROVE Counted
  <2>1. eviction_count' - eviction_count = Cardinality(gone) BY <1>2, InsertNewImplements
  <2>2. current_epoch' # current_epoch BY <1>0, <1>2 DEF InsertNew, Stamp
  <2> QED BY <2>1, <2>2 DEF Counted
<1>3. ASSUME UNCHANGED <<eviction_count, current_epoch>> PROVE Counted
  BY <1>0, <1>3 DEF Counted
<1> QED BY <1>1, <1>2, <1>3 DEF Next, Get, Peek, RemoveFound, RemoveMissing, SetTtl

(* eviction_count grows by one exactly when an insertion makes another key *)
(* unreachable (raw.rs: insert_ttl, stats).                                *)
THEOREM RawEvictionsCounted == Spec => EvictionsCounted
<1>1. RawInv /\ [Next]_vars => [Counted]_vars BY StepCounted
<1>2. Spec => [][Counted]_vars BY <1>1, RawInvariant, PTL DEF Spec
<1> QED BY <1>2, PTL DEF EvictionsCounted, Counted
-----------------------------------------------------------------------------
(* What a call of the map means to its caller.                             *)

(* The value a lookup of k returns now, in the words of LossyMap.          *)
Found(k) == IF Entry(k) # NoEntry /\ ~Cache!Expired(k, current_epoch)
            THEN Entry(k).val ELSE NoValue

SameAge == UNCHANGED <<current_epoch, default_ttl>>
Kept(j) == Entry(j)' = Entry(j) \/ Entry(j)' = NoEntry

(* Whether an entry has expired is decided by the entry, the epoch and the *)
(* default TTL.                                                            *)
LEMMA ExpiryOf ==
    ASSUME NEW k \in Keys
    PROVE  LET life == IF Entry(k).ttl = 0 THEN default_ttl ELSE Entry(k).ttl
           IN  Cache!Expired(k, current_epoch) <=>
                  life \notin {0, Never} /\ current_epoch > Entry(k).epoch + life
BY DEF Cache!Expired, Cache!Lifetime

(* If the entry, the epoch and the default TTL stay, so does the result.   *)
LEMMA SameFound ==
    ASSUME NEW k \in Keys, Entry(k)' = Entry(k), SameAge
    PROVE  Found(k)' = Found(k)
<1>1. Cache!Expired(k, current_epoch)' <=> Cache!Expired(k, current_epoch)
  <2>1. (LET life == IF Entry(k).ttl = 0 THEN default_ttl ELSE Entry(k).ttl
         IN  Cache!Expired(k, current_epoch) <=>
               life \notin {0, Never} /\ current_epoch > Entry(k).epoch + life)'
    BY ExpiryOf, PTL
  <2> QED BY <2>1, ExpiryOf DEF SameAge
<1> QED BY <1>1 DEF Found, SameAge

(* An entry is a value with its stamp.                                     *)
LEMMA EntryType ==
    ASSUME RawInv, NEW k \in Keys, Entry(k) # NoEntry
    PROVE  Entry(k) \in [val : Values, epoch : Nat, ttl : Nat]
<1>1. EntryFound(k) BY EntryIs DEF EntriesFound
<1>2. PICK o \in Occupied : KeyAt(o) = k BY <1>1 DEF EntryFound
<1>3. Entry(k) = EntryAt(o) BY <1>1, <1>2 DEF EntryFound
<1>4. Ttls \cup {0} \subseteq Nat BY RawAssumption
<1> QED BY <1>3, <1>4, PlacesIn DEF EntryAt

(* get and peek return what the entry says, and leave every entry alone.   *)
LEMMA LookupIs ==
    ASSUME RawInv, NEW k \in Keys, Get(k) \/ Peek(k)
    PROVE  /\ RawInv' /\ ret'.res = Found(k) /\ SameAge /\ Occupied' = Occupied
           /\ \A j \in Keys : Entry(j)' = Entry(j) /\ Found(j)' = Found(j)
<1>1. RawInv' BY NextInv DEF Next
<1>2. Occupied' = Occupied
  <2>1. CASE Get(k) BY <2>1, GetIs
  <2>2. CASE Peek(k) BY <2>2 DEF Peek, Occupied
  <2> QED BY <2>1, <2>2
<1>3. PICK op \in {"get", "peek"} : LookupReturns(op, k) BY DEF Get, Peek
<1>4. UNCHANGED <<slots, slab_pool, slots_ttl, current_epoch, default_ttl>> BY DEF Get, Peek
<1>5. Cache!Lookup(op, k) /\ \A j \in Keys : Entry(j)' = Entry(j)
  BY <1>1, <1>2, <1>3, <1>4, LookupImplements
<1>6. ret'.res = Found(k)
  <2>1. ret'.res = IF Cache!Present(k) /\ ~Cache!Expired(k, current_epoch)
                   THEN [j \in Keys |-> Entry(j)][k].val ELSE NoValue
    BY <1>5 DEF Cache!Lookup
  <2> QED BY <2>1 DEF Cache!Present, Found
<1>7. SameAge BY <1>4 DEF SameAge
<1> QED BY <1>1, <1>2, <1>5, <1>6, <1>7, SameFound

(* An insertion stores the pair under a new stamp; other keys keep their   *)
(* entry or lose it.                                                       *)
LEMMA InsertIs ==
    ASSUME RawInv, NEW k \in Keys, NEW v \in Values, NEW n \in Ttls,
           Update(k, v, n) \/ InsertNew(k, v, n)
    PROVE  /\ RawInv' /\ current_epoch' = current_epoch + 1 /\ default_ttl' = default_ttl
           /\ Entry(k)' = [val |-> v, epoch |-> current_epoch + 1, ttl |-> n]
           /\ Entry(k)' # NoEntry
           /\ \A j \in Keys \ {k} : Kept(j)
<1>1. RawInv' BY NextInv DEF Next
<1>2. current_epoch' = current_epoch + 1 /\ default_ttl' = default_ttl
  BY DEF Update, InsertNew, Stamp
<1>3. \E s : Puts(k, v, n, s) BY UpdatePuts, InsertNewPuts
<1>4. PICK s : Puts(k, v, n, s) BY <1>3
<1>5. /\ Entry(k)' = [val |-> v, epoch |-> current_epoch + 1, ttl |-> n] /\ Entry(k)' # NoEntry
      /\ \A j \in Keys \ {k} : Entry(j)' = Entry(j) \/ Entry(j)' = NoEntry
  BY <1>4, PutStore
<1> QED BY <1>1, <1>2, <1>5 DEF Kept

(* A removal leaves the key without an entry and the others as they were.  *)
LEMMA RemoveIs ==
    ASSUME RawInv, NEW k \in Keys, RemoveFound(k) \/ RemoveMissing(k)
    PROVE  /\ RawInv' /\ SameAge /\ Entry(k)' = NoEntry
           /\ \A j \in Keys \ {k} : Entry(j)' = Entry(j)
<1>1. RawInv' BY NextInv DEF Next
<1>2. SameAge BY DEF RemoveFound, RemoveMissing, SameAge
<1>3. CASE RemoveFound(k) BY <1>1, <1>2, <1>3, RemoveStore
<1>4. CASE RemoveMissing(k)
  <2>1. Occupied' = Occupied /\ UNCHANGED <<slots, slab_pool, slots_ttl>>
    BY <1>4 DEF RemoveMissing, Occupied
  <2>2. \A j \in Keys : Entry(j)' = Entry(j) BY <2>1, <1>1, SameStore
  <2>3. Entry(k) = NoEntry BY <1>4 DEF RemoveMissing, Entry
  <2> QED BY <1>1, <1>2, <2>2, <2>3
<1> QED BY <1>3, <1>4

(* len never exceeds the number of slots.                                  *)
LEMMA CountBounded ==
    ASSUME RawInv
    PROVE  count <= NumBuckets * SlotsPerBucket
<1>1. IsFiniteSet(BucketIds) /\ Cardinality(BucketIds) = NumBuckets
  BY RawAssumption, FS_Interval DEF BucketIds
<1>2. IsFiniteSet(SlotIds) /\ Cardinality(SlotIds) = SlotsPerBucket BY SlotIdsNat
<1>3. /\ IsFiniteSet(BucketIds \X SlotIds)
      /\ Cardinality(BucketIds \X SlotIds) = NumBuckets * SlotsPerBucket
  BY <1>1, <1>2, FS_Product
<1>4. Cardinality(Occupied) <= Cardinality(BucketIds \X SlotIds)
  BY <1>3, OccupiedFinite, FS_Subset
<1> QED BY <1>3, <1>4 DEF RawInv, CountExact
-----------------------------------------------------------------------------
(* The fuzz target.  Between its operations the shadow map holds the value *)
(* of every entry, and an operation of two calls finds at the second what  *)
(* the first one left.                                                     *)
ShadowRight == /\ shadow \in [Keys -> Values \cup {NoValue}]
               /\ \A k \in Keys : Entry(k) # NoEntry => Entry(k).val = shadow[k]

StepRight ==
    \/ step = [op |-> "parse"]
    \/ \E k \in Keys : step = [op |-> "removed", key |-> k] /\ Entry(k) = NoEntry
    \/ \E k \in Keys : step = [op |-> "peeked", key |-> k, got |-> Found(k)]
    \/ \E n \in DOMAIN Dummies, i \in 1 .. Len(Dummies) :
          step = [op |-> "advance", i |-> i, steps |-> n] /\ i <= n

FuzzInv == RawInv /\ ShadowRight /\ StepRight /\ panicked = FALSE

(* The harness starts with an empty map and an empty shadow.               *)
LEMMA FuzzInitInv == FuzzInit => FuzzInv
<1> SUFFICES ASSUME FuzzInit PROVE FuzzInv OBVIOUS
<1>1. RawInv /\ Occupied = {} BY InitInv, EmptyMetaIs DEF FuzzInit, Init, Occupied
<1>2. \A k \in Keys : Entry(k) = NoEntry BY <1>1, EntryIs DEF EntriesFound, EntryFound
<1> QED BY <1>1, <1>2 DEF FuzzInit, FuzzInv, ShadowRight, StepRight

(* Every hit agrees with the shadow.                                       *)
LEMMA HitRight ==
    ASSUME ShadowRight, NEW k \in Keys
    PROVE  CheckHit(k, Found(k))
BY DEF ShadowRight, Found, CheckHit

(* An assertion that holds is no panic.                                    *)
LEMMA NoPanicNow ==
    ASSUME RawInv', NEW ok, ok, Asserts(ok)
    PROVE  panicked' = FALSE
<1>1. (RawInv => count <= NumBuckets * SlotsPerBucket)' BY CountBounded, PTL
<1> QED BY <1>1 DEF Asserts

(* An insertion goes into the map and into the shadow.                     *)
LEMMA MirroredIs ==
    ASSUME RawInv, ShadowRight, NEW k \in Keys, NEW v \in Values, NEW n \in Ttls,
           InsertMirrored(k, v, n)
    PROVE  RawInv' /\ ShadowRight'
<1>1. RawInv' /\ Entry(k)'.val = v /\ \A j \in Keys \ {k} : Kept(j)
  BY InsertIs DEF InsertMirrored
<1>2. shadow' = [shadow EXCEPT ![k] = v] BY DEF InsertMirrored
<1>3. shadow' \in [Keys -> Values \cup {NoValue}] BY <1>2 DEF ShadowRight
<1>4. ASSUME NEW j \in Keys, Entry(j)' # NoEntry PROVE Entry(j)'.val = shadow'[j]
  <2>1. CASE j = k BY <2>1, <1>1, <1>2 DEF ShadowRight
  <2>2. CASE j # k
    <3>1. Entry(j)' = Entry(j) /\ Entry(j) # NoEntry BY <2>2, <1>1, <1>4 DEF Kept
    <3> QED BY <2>2, <3>1, <1>2 DEF ShadowRight
  <2> QED BY <2>1, <2>2
<1> QED BY <1>1, <1>3, <1>4 DEF ShadowRight

(* A lookup leaves the shadow right.                                       *)
LEMMA ShadowStays ==
    ASSUME ShadowRight, \A j \in Keys : Entry(j)' = Entry(j), UNCHANGED shadow
    PROVE  ShadowRight'
BY DEF ShadowRight

(* Every step of the harness keeps its invariant.                          *)
LEMMA FuzzNextInv == FuzzInv /\ [FuzzNext]_fuzzVars => FuzzInv'
<1> SUFFICES ASSUME FuzzInv, [FuzzNext]_fuzzVars PROVE FuzzInv' OBVIOUS
<1>0. RawInv /\ ShadowRight /\ StepRight /\ panicked = FALSE BY DEF FuzzInv
<1>1. ASSUME NEW k \in Keys, NEW v \in Values, NEW n \in Ttls, FuzzInsert(k, v, n)
      PROVE  FuzzInv'
  <2>1. RawInv' /\ ShadowRight' BY <1>0, <1>1, MirroredIs DEF FuzzInsert, Parses
  <2>2. panicked' = FALSE BY <1>1, <2>1, NoPanicNow DEF FuzzInsert
  <2>3. StepRight' BY <1>1 DEF FuzzInsert, Done, StepRight
  <2> QED BY <2>1, <2>2, <2>3 DEF FuzzInv
<1>2. ASSUME NEW k \in Keys, FuzzGet(k) PROVE FuzzInv'
  <2>1. /\ RawInv' /\ ret'.res = Found(k)
        /\ \A j \in Keys : Entry(j)' = Entry(j) /\ Found(j)' = Found(j)
    BY <1>0, <1>2, LookupIs DEF FuzzGet, Parses
  <2>2. CheckHit(k, ret'.res) BY <1>0, <2>1, HitRight
  <2>3. panicked' = FALSE BY <1>2, <2>1, <2>2, NoPanicNow DEF FuzzGet
  <2>4. ShadowRight' BY <1>0, <1>2, <2>1, ShadowStays DEF FuzzGet
  <2>5. StepRight' BY <1>2 DEF FuzzGet, Done, StepRight
  <2> QED BY <2>1, <2>3, <2>4, <2>5 DEF FuzzInv
<1>3. ASSUME NEW k \in Keys, FuzzRemove(k) PROVE FuzzInv'
  <2>1. RawInv' /\ Entry(k)' = NoEntry /\ \A j \in Keys \ {k} : Entry(j)' = Entry(j)
    BY <1>0, <1>3, RemoveIs DEF FuzzRemove, Parses
  <2>2. shadow' = [shadow EXCEPT ![k] = NoValue] BY <1>3 DEF FuzzRemove
  <2>3. ShadowRight' BY <1>0, <2>1, <2>2 DEF ShadowRight
  <2>4. StepRight' BY <1>3, <2>1 DEF FuzzRemove, StepRight
  <2> QED BY <1>0, <1>3, <2>1, <2>3, <2>4 DEF FuzzInv, FuzzRemove
<1>4. ASSUME NEW k \in Keys, FuzzPeek(k) PROVE FuzzInv'
  <2>1. /\ RawInv' /\ ret'.res = Found(k)
        /\ \A j \in Keys : Entry(j)' = Entry(j) /\ Found(j)' = Found(j)
    BY <1>0, <1>4, LookupIs DEF FuzzPeek, Parses
  <2>2. ShadowRight' BY <1>0, <1>4, <2>1, ShadowStays DEF FuzzPeek
  <2>3. step' = [op |-> "peeked", key |-> k, got |-> Found(k)'] BY <1>4, <2>1 DEF FuzzPeek
  <2>4. StepRight' BY <2>3 DEF StepRight
  <2> QED BY <1>0, <1>4, <2>1, <2>2, <2>4 DEF FuzzInv, FuzzPeek
<1>5. ASSUME NEW n \in DOMAIN Dummies, FuzzAdvance(n) PROVE FuzzInv'
  <2>1. UNCHANGED <<vars, shadow, panicked>> /\ step' = [op |-> "advance", i |-> 1, steps |-> n]
    BY <1>5 DEF FuzzAdvance
  <2>2. RawInv' BY <1>0, <2>1, NextInv
  <2>3. \A j \in Keys : Entry(j)' = Entry(j)
    <3>1. Occupied' = Occupied /\ UNCHANGED <<slots, slab_pool, slots_ttl>>
      BY <2>1 DEF vars, Occupied
    <3> QED BY <3>1, <1>0, <2>2, SameStore
  <2>4. ShadowRight' BY <1>0, <2>1, <2>3, ShadowStays
  <2>5. DOMAIN Dummies = 1 .. Len(Dummies) /\ Len(Dummies) \in Nat BY FuzzAssumption
  <2>6. 1 \in 1 .. Len(Dummies) /\ 1 <= n BY <2>5
  <2>7. StepRight' BY <2>1, <2>6 DEF StepRight
  <2> QED BY <1>0, <2>1, <2>2, <2>4, <2>7 DEF FuzzInv
<1>6. CASE GetAfterRemove
  <2>1. PICK k \in Keys : step = [op |-> "removed", key |-> k] /\ Entry(k) = NoEntry
    BY <1>0, <1>6 DEF GetAfterRemove, StepRight
  <2>2. step.key = k BY <2>1
  <2>3. Get(k) BY <1>6, <2>2 DEF GetAfterRemove
  <2>4. RawInv' /\ ret'.res = Found(k) /\ \A j \in Keys : Entry(j)' = Entry(j)
    BY <1>0, <2>3, LookupIs
  <2>5. ret'.res = NoValue BY <2>1, <2>4 DEF Found
  <2>6. panicked' = FALSE BY <1>6, <2>4, <2>5, NoPanicNow DEF GetAfterRemove
  <2>7. ShadowRight' BY <1>0, <1>6, <2>4, ShadowStays DEF GetAfterRemove
  <2>8. StepRight' BY <1>6 DEF GetAfterRemove, Done, StepRight
  <2> QED BY <2>4, <2>6, <2>7, <2>8 DEF FuzzInv
<1>7. CASE GetAfterPeek
  <2>1. PICK k \in Keys : step = [op |-> "peeked", key |-> k, got |-> Found(k)]
    BY <1>0, <1>7 DEF GetAfterPeek, StepRight
  <2>2. step.key = k /\ step.got = Found(k) BY <2>1
  <2>3. Get(k) BY <1>7, <2>2 DEF GetAfterPeek
  <2>4. RawInv' /\ ret'.res = Found(k) /\ \A j \in Keys : Entry(j)' = Entry(j)
    BY <1>0, <2>3, LookupIs
  <2>5. CheckHit(k, Found(k)) BY <1>0, HitRight
  <2>6. /\ (step.got = NoValue) = (ret'.res = NoValue)
        /\ CheckHit(step.key, step.got) /\ CheckHit(step.key, ret'.res)
    BY <2>2, <2>4, <2>5
  <2>7. panicked' = FALSE BY <1>7, <2>4, <2>6, NoPanicNow DEF GetAfterPeek
  <2>8. ShadowRight' BY <1>0, <1>7, <2>4, ShadowStays DEF GetAfterPeek
  <2>9. StepRight' BY <1>7 DEF GetAfterPeek, Done, StepRight
  <2> QED BY <2>4, <2>7, <2>8, <2>9 DEF FuzzInv
<1>8. CASE AdvanceNext
  <2>1. PICK n \in DOMAIN Dummies, i \in 1 .. Len(Dummies) :
           step = [op |-> "advance", i |-> i, steps |-> n] /\ i <= n
    BY <1>0, <1>8 DEF AdvanceNext, StepRight
  <2>2. step.i = i /\ step.steps = n BY <2>1
  <2>3. /\ Dummies[i] \in Keys /\ DummyVal \in Values /\ 0 \in Ttls
        /\ n \in 1 .. Len(Dummies) /\ Len(Dummies) \in Nat
    BY FuzzAssumption
  <2>4. InsertMirrored(Dummies[i], DummyVal, 0) BY <1>8, <2>2 DEF AdvanceNext
  <2>5. RawInv' /\ ShadowRight' BY <1>0, <2>3, <2>4, MirroredIs
  <2>6. CASE i = n
    <3>1. Done /\ Asserts(TRUE) BY <1>8, <2>2, <2>6 DEF AdvanceNext
    <3>2. panicked' = FALSE BY <3>1, <2>5, NoPanicNow
    <3>3. StepRight' BY <3>1 DEF Done, StepRight
    <3> QED BY <2>5, <3>2, <3>3 DEF FuzzInv
  <2>7. CASE i # n
    <3>1. step' = [step EXCEPT !.i = @ + 1] /\ UNCHANGED panicked
      BY <1>8, <2>2, <2>7 DEF AdvanceNext
    <3>2. step' = [op |-> "advance", i |-> i + 1, steps |-> n] BY <3>1, <2>1
    <3>3. i + 1 \in 1 .. Len(Dummies) /\ i + 1 <= n BY <2>1, <2>3, <2>7
    <3>4. StepRight' BY <3>2, <3>3 DEF StepRight
    <3> QED BY <1>0, <2>5, <3>1, <3>4 DEF FuzzInv
  <2> QED BY <2>6, <2>7
<1>9. CASE UNCHANGED fuzzVars
  <2>1. UNCHANGED vars /\ UNCHANGED <<shadow, step, panicked>> BY <1>9 DEF fuzzVars
  <2>2. RawInv' BY <1>0, <2>1, NextInv
  <2>3. \A j \in Keys : Entry(j)' = Entry(j) /\ Found(j)' = Found(j)
    <3>1. Occupied' = Occupied /\ UNCHANGED <<slots, slab_pool, slots_ttl>> /\ SameAge
      BY <2>1 DEF vars, Occupied, SameAge
    <3> QED BY <3>1, <1>0, <2>2, SameStore, SameFound
  <2>4. ShadowRight' BY <1>0, <2>1, <2>3, ShadowStays
  <2>5. StepRight' BY <1>0, <2>1, <2>3 DEF StepRight
  <2> QED BY <1>0, <2>1, <2>2, <2>4, <2>5 DEF FuzzInv
<1> QED BY <1>1, <1>2, <1>3, <1>4, <1>5, <1>6, <1>7, <1>8, <1>9 DEF FuzzNext

(* The invariant of the harness.                                           *)
THEOREM FuzzInvariant == FuzzSpec => []FuzzInv
BY FuzzInitInv, FuzzNextInv, PTL DEF FuzzSpec

(* No sequence of operations, with any keys, hashes and TTLs, makes an     *)
(* assertion of fuzz_sequences.rs fail.                                    *)
THEOREM FuzzNoPanic == FuzzSpec => []NoPanic
<1>1. FuzzInv => NoPanic BY DEF FuzzInv, NoPanic
<1> QED BY <1>1, FuzzInvariant, PTL

(* What the harness does to the map is a step of the map.                  *)
LEMMA FuzzStepIs ==
    ASSUME FuzzInv, [FuzzNext]_fuzzVars
    PROVE  [Next]_vars
<1>0. StepRight BY DEF FuzzInv
<1>1. CASE UNCHANGED fuzzVars BY <1>1 DEF fuzzVars
<1>2. ASSUME NEW k \in Keys, NEW v \in Values, NEW n \in Ttls, FuzzInsert(k, v, n) PROVE Next
  BY <1>2 DEF FuzzInsert, Parses, InsertMirrored, Next
<1>3. ASSUME NEW k \in Keys, FuzzGet(k) \/ FuzzRemove(k) \/ FuzzPeek(k) PROVE Next
  BY <1>3 DEF FuzzGet, FuzzRemove, FuzzPeek, Parses, Next
<1>4. ASSUME NEW n \in DOMAIN Dummies, FuzzAdvance(n) PROVE UNCHANGED vars
  BY <1>4 DEF FuzzAdvance
<1>5. CASE GetAfterRemove \/ GetAfterPeek
  <2>0. step.op \in {"removed", "peeked"} BY <1>5 DEF GetAfterRemove, GetAfterPeek
  <2>1. step.key \in Keys BY <1>0, <2>0 DEF StepRight
  <2>2. Get(step.key) BY <1>5 DEF GetAfterRemove, GetAfterPeek
  <2> QED BY <2>1, <2>2 DEF Next
<1>6. CASE AdvanceNext
  <2>1. step.i \in DOMAIN Dummies
    <3>1. DOMAIN Dummies = 1 .. Len(Dummies) BY FuzzAssumption
    <3> QED BY <1>0, <1>6, <3>1 DEF StepRight, AdvanceNext
  <2>2. Dummies[step.i] \in Keys /\ DummyVal \in Values /\ 0 \in Ttls BY <2>1, FuzzAssumption
  <2>3. InsertMirrored(Dummies[step.i], DummyVal, 0) BY <1>6 DEF AdvanceNext
  <2> QED BY <2>2, <2>3 DEF InsertMirrored, Next
<1> QED BY <1>1, <1>2, <1>3, <1>4, <1>5, <1>6 DEF FuzzNext

(* Under the harness, too, the map is one that may forget.                 *)
THEOREM FuzzImplementsLossyMap == FuzzSpec => ImplementsLossyMap
<1>1. FuzzInv /\ [FuzzNext]_fuzzVars => [Cache!Next]_Cache!vars
  BY FuzzStepIs, StepImplements DEF FuzzInv
<1>2. FuzzInit => Cache!Init BY InitImplements DEF FuzzInit
<1> QED BY <1>1, <1>2, FuzzInvariant, PTL DEF FuzzSpec, ImplementsLossyMap, Cache!Spec

(* Under the harness, too, every eviction is counted.                      *)
THEOREM FuzzEvictionsCounted == FuzzSpec => EvictionsCounted
<1>1. FuzzInv /\ [FuzzNext]_fuzzVars => [Counted]_vars BY FuzzStepIs, StepCounted DEF FuzzInv
<1>2. FuzzSpec => [][Counted]_vars BY <1>1, FuzzInvariant, PTL DEF FuzzSpec
<1> QED BY <1>2, PTL DEF EvictionsCounted, Counted
-----------------------------------------------------------------------------
(* The typed map.  A handle knows what a lookup of its key returns now; an *)
(* iterator has yielded the decodable pairs behind it, each once; a        *)
(* running extend has pairs left.                                          *)
Pairs     == Keys \X Values
PairAt(o) == <<KeyIn(o), ValIn(o)>>
Decodable == {o \in Occupied : {KeyIn(o), ValIn(o)} \cap Undecodable = {}}
Behind(b, s) == {o \in Decodable : o[1] < b \/ (o[1] = b /\ o[2] < s)}

Distinct(q) == \A i, j \in DOMAIN q : q[i] = q[j] => i = j

Yielded(b, s, q) == /\ b <= NumBuckets /\ Distinct(q)
                    /\ Range(q) = {PairAt(o) : o \in Behind(b, s)}

OccupiedRight == \E k \in Keys, v \in Values : borrow = OccupiedEntry(k, v) /\ Found(k) = v
VacantRight   == \E k \in Keys : borrow = VacantEntry(k) /\ Decode(Found(k)) = NoValue
ExtendRight   == \E q \in Seq(Pairs) : q # <<>> /\ borrow = [kind |-> "extend", rest |-> q]
IterRight     == \E b \in Nat, s \in Nat, q \in Seq(Pairs) :
                    borrow = IterAt(b, s, q) /\ Yielded(b, s, q)

BorrowRight == borrow = Unborrowed \/ OccupiedRight \/ VacantRight \/ ExtendRight \/ IterRight

TypedInv == RawInv /\ BorrowRight

(* The kind of a borrow tells what it is.                                  *)
LEMMA KindTells ==
    ASSUME BorrowRight
    PROVE  /\ Is("none") => borrow = Unborrowed
           /\ Is("occupied") => OccupiedRight
           /\ Is("vacant") => VacantRight
           /\ Is("extend") => ExtendRight
           /\ Is("iter") => IterRight
<1>1. CASE borrow = Unborrowed BY <1>1 DEF Unborrowed, Is
<1>2. CASE OccupiedRight BY <1>2 DEF OccupiedRight, OccupiedEntry, Is
<1>3. CASE VacantRight BY <1>3 DEF VacantRight, VacantEntry, Is
<1>4. CASE ExtendRight BY <1>4 DEF ExtendRight, Is
<1>5. CASE IterRight BY <1>5 DEF IterRight, IterAt, Is
<1> QED BY <1>1, <1>2, <1>3, <1>4, <1>5 DEF BorrowRight

(* What HandleCurrent calls reachable is what a lookup returns.            *)
LEMMA ReachableIs ==
    ASSUME RawInv, NEW k \in Keys
    PROVE  Reachable(k) = Found(k)
<1> DEFINE b == Bucket(k)
<1>1. EntryFound(k) BY EntryIs DEF EntriesFound
<1>2. CASE \A o \in Occupied : KeyAt(o) # k
  <2>1. Entry(k) = NoEntry BY <1>1, <1>2 DEF EntryFound
  <2> QED BY <2>1 DEF Reachable, Found
<1>3. ASSUME NEW o \in Occupied, KeyAt(o) = k PROVE Reachable(k) = Found(k)
  <2>1. Entry(k) # NoEntry /\ SlotOf(b, k) = {o[2]} /\ o = <<b, o[2]>>
    BY <1>1, <1>3 DEF EntryFound
  <2>2. current_epoch \in 0 .. MaxEpoch /\ current_epoch <= current_epoch
    BY RawAssumption DEF RawInv, TypeOK
  <2>3. o[1] = b BY <2>1
  <2>4. IsExpired(b, o[2], current_epoch) <=> Cache!Expired(k, current_epoch)
    BY <1>3, <2>2, <2>3, ExpiredIs
  <2>5. Hits(k) = {} <=> Cache!Expired(k, current_epoch) BY <2>1, <2>4 DEF Hits
  <2> QED BY <2>1, <2>5 DEF Reachable, Found
<1> QED BY <1>2, <1>3

(* A pair just inserted has not expired.                                   *)
LEMMA FreshFound ==
    ASSUME RawInv, NEW k \in Keys, NEW v \in Values, NEW n \in Ttls, InsertPair(k, v, n)
    PROVE  Found(k)' = v
<1>1. /\ RawInv' /\ Entry(k)' = [val |-> v, epoch |-> current_epoch + 1, ttl |-> n]
      /\ current_epoch' = current_epoch + 1 /\ default_ttl' = default_ttl
      /\ Entry(k)' # NoEntry
  BY InsertIs DEF InsertPair
<1>2. current_epoch \in Nat /\ default_ttl \in Nat /\ n \in Nat BY RawAssumption DEF RawInv, TypeOK
<1>3. ~Cache!Expired(k, current_epoch)'
  <2>1. (LET life == IF Entry(k).ttl = 0 THEN default_ttl ELSE Entry(k).ttl
         IN  Cache!Expired(k, current_epoch) <=>
               life \notin {0, Never} /\ current_epoch > Entry(k).epoch + life)'
    BY ExpiryOf, PTL
  <2>2. Entry(k)'.ttl = n /\ Entry(k)'.epoch = current_epoch + 1 BY <1>1
  <2> QED BY <1>1, <1>2, <2>1, <2>2
<1> QED BY <1>1, <1>3 DEF Found

(* A lookup that does not miss returns a value.                            *)
LEMMA FoundType ==
    ASSUME RawInv, NEW k \in Keys
    PROVE  Found(k) \in Values \cup {NoValue}
<1>1. CASE Entry(k) = NoEntry BY <1>1 DEF Found
<1>2. CASE Entry(k) # NoEntry BY <1>2, EntryType DEF Found
<1> QED BY <1>1, <1>2

(* extend with no pair left is over.                                       *)
LEMMA ExtendingIs ==
    ASSUME NEW q \in Seq(Pairs), borrow' = Extending(q)
    PROVE  BorrowRight'
BY DEF Extending, BorrowRight, ExtendRight

(* Appending something new.                                                *)
LEMMA AppendNew ==
    ASSUME NEW S, NEW q \in Seq(S), NEW x \in S, Distinct(q), x \notin Range(q)
    PROVE  /\ Append(q, x) \in Seq(S) /\ Distinct(Append(q, x))
           /\ Range(Append(q, x)) = Range(q) \cup {x}
<1> DEFINE r == Append(q, x)
           n == Len(q)
<1>1. /\ n \in Nat /\ DOMAIN q = 1 .. n /\ DOMAIN r = 1 .. (n + 1) /\ r \in Seq(S)
      /\ r[n + 1] = x /\ \A i \in 1 .. n : r[i] = q[i]
  OBVIOUS
<1> HIDE DEF r, n
<1>2. \A i \in 1 .. n : q[i] # x BY <1>1 DEF Range
<1>3. \A i \in 1 .. (n + 1) : i \in 1 .. n \/ i = n + 1 BY <1>1
<1>4. Distinct(r)
  <2> SUFFICES ASSUME NEW i \in 1 .. (n + 1), NEW j \in 1 .. (n + 1), r[i] = r[j] PROVE i = j
    BY <1>1 DEF Distinct
  <2>1. CASE i = n + 1 BY <2>1, <1>1, <1>2, <1>3
  <2>2. CASE j = n + 1 BY <2>2, <1>1, <1>2, <1>3
  <2>3. CASE i \in 1 .. n /\ j \in 1 .. n BY <2>3, <1>1 DEF Distinct
  <2> QED BY <2>1, <2>2, <2>3, <1>3
<1>5. Range(r) = Range(q) \cup {x}
  <2>1. Range(q) = {q[i] : i \in 1 .. n} /\ Range(r) = {r[i] : i \in 1 .. (n + 1)}
    BY <1>1 DEF Range
  <2>2. \A i \in 1 .. n : i \in 1 .. (n + 1) BY <1>1
  <2>3. n + 1 \in 1 .. (n + 1) BY <1>1
  <2> QED BY <2>1, <2>2, <2>3, <1>1, <1>3
<1> QED BY <1>1, <1>4, <1>5 DEF r

(* A sequence without repetitions is as long as it has members.            *)
LEMMA DistinctLength ==
    ASSUME NEW S, NEW q \in Seq(S), Distinct(q)
    PROVE  Len(q) = Cardinality(Range(q))
<1> DEFINE n == Len(q)
           D == 1 .. n
           R == Range(q)
<1>0. n \in Nat OBVIOUS
<1>1. DOMAIN q = D /\ q = [i \in D |-> q[i]] OBVIOUS
<1> HIDE DEF n
<1>2. IsFiniteSet(D) /\ Cardinality(D) = n
  <2>1. IsFiniteSet(1 .. n) /\ Cardinality(1 .. n) = IF 1 > n THEN 0 ELSE n - 1 + 1
    BY <1>0, FS_Interval
  <2> QED BY <1>0, <2>1
<1>3. R = {q[i] : i \in D} BY <1>1 DEF Range
<1> HIDE DEF D, R
<1>4. q \in Bijection(D, R)
  <2>1. q \in [D -> R] BY <1>1, <1>3
  <2>2. \A i, j \in D : q[i] = q[j] => i = j BY <1>1 DEF Distinct
  <2>3. \A y \in R : \E i \in D : q[i] = y BY <1>3
  <2> QED BY <2>1, <2>2, <2>3, Fun_IsBij
<1>5. Cardinality(R) = Cardinality(D) BY <1>2, <1>4, FS_Bijection DEF ExistsBijection
<1> QED BY <1>2, <1>5 DEF n, R

(* What an iterator has yielded stays true while the slots stay.           *)
LEMMA YieldedStays ==
    ASSUME Occupied' = Occupied, UNCHANGED <<slots, slab_pool>>, NEW b, NEW s, NEW q,
           Yielded(b, s, q)
    PROVE  Yielded(b, s, q)'
<1>1. \A o : KeyIn(o)' = KeyIn(o) /\ ValIn(o)' = ValIn(o) BY DEF KeyIn, ValIn, Contents
<1>2. Decodable' = Decodable BY <1>1 DEF Decodable
<1>3. Behind(b, s)' = Behind(b, s) BY <1>2 DEF Behind
<1> QED BY <1>1, <1>3 DEF Yielded, PairAt

DecodableIn == \A p \in Decodable : /\ p \in Occupied /\ p = <<p[1], p[2]>>
                                     /\ p[1] \in Nat /\ p[2] \in Nat /\ p[1] < NumBuckets

(* Decodable pairs lie in slots of the table.                              *)
LEMMA DecodableTypes == RawInv => DecodableIn
BY RawAssumption, PlacesIn, SlotIdsNat DEF Decodable, DecodableIn, BucketIds

(* The next pair is a new one, and nothing is passed over.                 *)
LEMMA IterNextYields ==
    ASSUME RawInv, NEW b \in Nat, NEW s \in Nat, NEW q \in Seq(Pairs), Yielded(b, s, q),
           NEW o \in Decodable \cap Ahead(b, s),
           \A p \in Decodable \cap Ahead(b, s) : o = p \/ Before(o, p)
    PROVE  /\ o[1] \in Nat /\ o[2] + 1 \in Nat /\ Append(q, PairAt(o)) \in Seq(Pairs)
           /\ Yielded(o[1], o[2] + 1, Append(q, PairAt(o)))
<1>1. \A p \in Decodable : /\ p \in Occupied /\ p = <<p[1], p[2]>>
                           /\ p[1] \in Nat /\ p[2] \in Nat /\ p[1] < NumBuckets
  BY DecodableTypes DEF DecodableIn
<1>2. \A p \in Decodable : p \in Ahead(b, s) <=> p \notin Behind(b, s)
  BY <1>1 DEF Ahead, Behind
<1>3. Behind(o[1], o[2] + 1) = Behind(b, s) \cup {o}
  <2>1. ASSUME NEW p \in Decodable, p \in Behind(o[1], o[2] + 1), p \notin Behind(b, s)
        PROVE  p = o
    <3>1. p[1] < o[1] \/ (p[1] = o[1] /\ p[2] <= o[2]) BY <2>1, <1>1 DEF Behind
    <3>2. o = p \/ Before(o, p) BY <2>1, <1>2
    <3> QED BY <3>1, <3>2, <1>1 DEF Before
  <2>2. ASSUME NEW p \in Behind(b, s) PROVE p \in Behind(o[1], o[2] + 1)
    <3>1. p \in Decodable /\ (p[1] < b \/ (p[1] = b /\ p[2] < s)) BY <2>2 DEF Behind
    <3>2. o[1] > b \/ (o[1] = b /\ o[2] >= s) BY DEF Ahead
    <3>3. p[1] < o[1] \/ (p[1] = o[1] /\ p[2] < o[2] + 1) BY <3>1, <3>2, <1>1
    <3> QED BY <3>1, <3>3 DEF Behind
  <2>3. o \in Behind(o[1], o[2] + 1) BY <1>1 DEF Behind
  <2>4. Behind(o[1], o[2] + 1) \subseteq Decodable BY DEF Behind
  <2> QED BY <2>1, <2>2, <2>3, <2>4
<1>4. PairAt(o) \notin Range(q)
  <2> SUFFICES ASSUME NEW p \in Behind(b, s), PairAt(p) = PairAt(o) PROVE FALSE BY DEF Yielded
  <2>1. KeyIn(p) = KeyIn(o) BY DEF PairAt
  <2>2. p \in Occupied /\ o \in Occupied BY <1>1 DEF Behind
  <2>3. p = o BY <2>1, <2>2 DEF RawInv, KeysUnique, KeyIn
  <2> QED BY <2>3, <1>2
<1>5. PairAt(o) \in Pairs BY <1>1, PlacesIn DEF PairAt, Pairs, KeyIn, ValIn, KeyAt, ValueIn
<1>6. /\ Append(q, PairAt(o)) \in Seq(Pairs) /\ Distinct(Append(q, PairAt(o)))
      /\ Range(Append(q, PairAt(o))) = Range(q) \cup {PairAt(o)}
  BY <1>4, <1>5, AppendNew, Zenon DEF Yielded
<1>7. Range(q) \cup {PairAt(o)} = {PairAt(p) : p \in Behind(o[1], o[2] + 1)}
  BY <1>3 DEF Yielded
<1>8. o[1] \in Nat /\ o[2] + 1 \in Nat /\ o[1] <= NumBuckets BY <1>1, RawAssumption
<1> HIDE DEF PairAt
<1> QED BY <1>6, <1>7, <1>8, Zenon DEF Yielded

(* An exhausted iterator has nothing ahead.                                *)
LEMMA IterEndYields ==
    ASSUME RawInv, NEW b \in Nat, NEW s \in Nat, NEW q \in Seq(Pairs), Yielded(b, s, q),
           Decodable \cap Ahead(b, s) = {}
    PROVE  Yielded(NumBuckets, 0, q)
<1>1. \A p \in Decodable : p \in Occupied /\ p[1] \in Nat /\ p[2] \in Nat /\ p[1] < NumBuckets
  BY DecodableTypes DEF DecodableIn
<1>2. Behind(b, s) = Decodable BY <1>1 DEF Ahead, Behind
<1>3. Behind(NumBuckets, 0) = Decodable BY <1>1 DEF Behind
<1> QED BY <1>2, <1>3, RawAssumption DEF Yielded

(* A new map, or one that is about to be filled from a HashMap.            *)
LEMMA TypedInitInv == TypedInit => TypedInv
<1> SUFFICES ASSUME TypedInit PROVE TypedInv OBVIOUS
<1>1. RawInv BY InitInv DEF TypedInit
<1>2. CASE borrow = Unborrowed BY <1>1, <1>2 DEF TypedInv, BorrowRight
<1>3. ASSUME NEW q \in Batches, borrow = Extending(q) PROVE TypedInv
  <2>1. q \in Seq(Pairs) BY TypedAssumption DEF Pairs
  <2>2. BorrowRight BY <1>3, <2>1 DEF Extending, BorrowRight, ExtendRight
  <2> QED BY <1>1, <2>2 DEF TypedInv
<1> QED BY <1>2, <1>3 DEF TypedInit

(* Every step of the typed map keeps what its borrow relies on.            *)
LEMMA TypedNextInv == TypedInv /\ [TypedNext]_typedVars => TypedInv'
<1> SUFFICES ASSUME TypedInv, [TypedNext]_typedVars PROVE TypedInv' OBVIOUS
<1>0. RawInv /\ BorrowRight /\ 0 \in Ttls BY TypedAssumption DEF TypedInv
<1>1. ASSUME Is("none"), Same PROVE BorrowRight'
  BY <1>0, <1>1, KindTells DEF Same, BorrowRight
<1>2. ASSUME borrow' = Unborrowed PROVE BorrowRight' BY <1>2 DEF BorrowRight
<1>3. ASSUME NEW k \in Keys, NEW v \in Values, NEW n \in Ttls, InsertPair(k, v, n) PROVE RawInv'
  BY <1>0, <1>3, InsertIs DEF InsertPair
<1>4. ASSUME UNCHANGED vars PROVE RawInv' BY <1>0, <1>4, NextInv
<1>5. ASSUME NEW k \in Keys, NEW v \in Values, NEW n \in Ttls, TypedInsert(k, v, n)
      PROVE  TypedInv'
  BY <1>1, <1>3, <1>5 DEF TypedInsert, TypedInv
<1>6. ASSUME NEW k \in Keys, TypedGet(k) \/ TypedPeek(k) PROVE TypedInv'
  <2>1. RawInv' /\ Occupied' = Occupied BY <1>0, <1>6, LookupIs DEF TypedGet, TypedPeek
  <2>2. UNCHANGED <<slots, slab_pool>> /\ Same BY <1>6 DEF TypedGet, TypedPeek, Get, Peek
  <2>3. CASE Is("none") BY <2>1, <2>2, <2>3, <1>1 DEF TypedInv
  <2>4. CASE Is("iter")
    <3>1. IterRight BY <1>0, <2>4, KindTells
    <3>2. IterRight' BY <3>1, <2>1, <2>2, YieldedStays DEF IterRight, Same
    <3> QED BY <2>1, <3>2 DEF TypedInv, BorrowRight
  <2> QED BY <1>6, <2>3, <2>4 DEF TypedGet, TypedPeek, Is
<1>7. ASSUME NEW k \in Keys, TypedRemove(k) PROVE TypedInv'
  BY <1>0, <1>1, <1>7, RemoveIs DEF TypedRemove, TypedInv
<1>8. ASSUME NEW k \in Keys, EntryOf(k) PROVE TypedInv'
  <2>1. RawInv' /\ ret'.res = Found(k) /\ Found(k)' = Found(k)
    BY <1>0, <1>8, LookupIs DEF EntryOf
  <2>2. CASE Decode(Found(k)) = NoValue
    <3>1. borrow' = VacantEntry(k) BY <1>8, <2>1, <2>2 DEF EntryOf
    <3>2. Decode(Found(k))' = NoValue BY <2>1, <2>2 DEF Decode
    <3>3. VacantRight' BY <3>1, <3>2 DEF VacantRight
    <3> QED BY <2>1, <3>3 DEF TypedInv, BorrowRight
  <2>3. CASE Decode(Found(k)) # NoValue
    <3>1. borrow' = OccupiedEntry(k, Found(k)) BY <1>8, <2>1, <2>3 DEF EntryOf
    <3>2. Found(k) \in Values BY <1>0, <2>3, FoundType DEF Decode
    <3>3. OccupiedRight' BY <3>1, <3>2, <2>1 DEF OccupiedRight
    <3> QED BY <2>1, <3>3 DEF TypedInv, BorrowRight
  <2> QED BY <2>2, <2>3
<1>9. ASSUME NEW n \in Ttls, TypedSetTtl(n) PROVE TypedInv'
  <2>1. RawInv' BY <1>0, <1>9, NextInv DEF TypedSetTtl, Next
  <2> QED BY <1>1, <1>9, <2>1 DEF TypedSetTtl, TypedInv
<1>10. ASSUME NEW v \in Values, VacantInsert(v) PROVE TypedInv'
  <2>1. PICK k \in Keys : borrow = VacantEntry(k)
    BY <1>0, <1>10, KindTells DEF VacantInsert, VacantRight
  <2>2. borrow.key = k BY <2>1 DEF VacantEntry
  <2>3. InsertPair(k, v, 0) BY <1>10, <2>2 DEF VacantInsert
  <2> QED BY <1>0, <1>2, <1>3, <1>10, <2>3 DEF VacantInsert, TypedInv
<1>11. ASSUME NEW v \in Values, AndModify(v) PROVE TypedInv'
  <2>1. PICK k \in Keys, w \in Values : borrow = OccupiedEntry(k, w)
    BY <1>0, <1>11, KindTells DEF AndModify, OccupiedRight
  <2>2. borrow.key = k BY <2>1 DEF OccupiedEntry
  <2>3. InsertPair(k, v, 0) /\ borrow' = OccupiedEntry(k, v) BY <1>11, <2>2 DEF AndModify
  <2>4. Found(k)' = v BY <1>0, <2>3, FreshFound
  <2>5. OccupiedRight' BY <2>3, <2>4 DEF OccupiedRight
  <2> QED BY <1>0, <1>3, <2>3, <2>5 DEF TypedInv, BorrowRight
<1>12. ASSUME NEW v \in Values, OccupiedInsert(v) PROVE TypedInv'
  <2>1. PICK k \in Keys, w \in Values : borrow = OccupiedEntry(k, w)
    BY <1>0, <1>12, KindTells DEF OccupiedInsert, OccupiedRight
  <2>2. borrow.key = k BY <2>1 DEF OccupiedEntry
  <2>3. InsertPair(k, v, 0) BY <1>12, <2>2 DEF OccupiedInsert
  <2> QED BY <1>0, <1>2, <1>3, <1>12, <2>3 DEF OccupiedInsert, TypedInv
<1>13. CASE OccupiedRemove
  <2>1. PICK k \in Keys, w \in Values : borrow = OccupiedEntry(k, w)
    BY <1>0, <1>13, KindTells DEF OccupiedRemove, OccupiedRight
  <2>2. borrow.key = k BY <2>1 DEF OccupiedEntry
  <2>3. RemoveFound(k) \/ RemoveMissing(k) BY <1>13, <2>2 DEF OccupiedRemove
  <2> QED BY <1>0, <1>2, <1>13, <2>3, RemoveIs DEF OccupiedRemove, TypedInv
<1>14. CASE DropHandle \/ IterDrop BY <1>2, <1>4, <1>14 DEF DropHandle, IterDrop, TypedInv
<1>15. CASE Iterate
  <2>1. RawInv' BY <1>4, <1>15 DEF Iterate
  <2>2. Yielded(0, 0, <<>>)'
    <3>1. Behind(0, 0)' = {}
      <4>1. (RawInv => DecodableIn)' BY DecodableTypes, PTL
      <4>2. \A p \in Decodable' : p[1] \in Nat /\ p[2] \in Nat BY <2>1, <4>1 DEF DecodableIn
      <4> QED BY <4>2 DEF Behind
    <3>2. Range(<<>>) = {} /\ Distinct(<<>>) BY DEF Range, Distinct
    <3> QED BY <3>1, <3>2, RawAssumption DEF Yielded
  <2>3. borrow' = IterAt(0, 0, <<>>) /\ <<>> \in Seq(Pairs) /\ 0 \in Nat BY <1>15 DEF Iterate
  <2>4. IterRight' BY <2>2, <2>3, Zenon DEF IterRight
  <2> QED BY <2>1, <2>4 DEF TypedInv, BorrowRight
<1>16. CASE IterNext
  <2>1. RawInv' BY <1>4, <1>16 DEF IterNext
  <2>2. PICK b \in Nat, s \in Nat, q \in Seq(Pairs) :
           borrow = IterAt(b, s, q) /\ Yielded(b, s, q)
    BY <1>0, <1>16, KindTells DEF IterNext, IterRight
  <2>3. borrow.bucket_idx = b /\ borrow.slot_idx = s /\ borrow.seen = q BY <2>2 DEF IterAt
  <2> DEFINE good == Decodable \cap Ahead(b, s)
  <2>4. good = {o \in Ahead(b, s) : {KeyIn(o), ValIn(o)} \cap Undecodable = {}}
    BY DEF Ahead, Decodable
  <2>5. Occupied' = Occupied /\ UNCHANGED <<slots, slab_pool>>
    BY <1>16 DEF IterNext, vars, Occupied
  <2>6. CASE good = {}
    <3>1. borrow' = IterAt(NumBuckets, 0, q) BY <1>16, <2>3, <2>4, <2>6 DEF IterNext
    <3>2. Yielded(NumBuckets, 0, q) BY <1>0, <2>2, <2>6, IterEndYields
    <3>3. Yielded(NumBuckets, 0, q)' BY <2>5, <3>2, YieldedStays
    <3>4. IterRight' BY <3>1, <3>3, RawAssumption DEF IterRight
    <3> QED BY <2>1, <3>4 DEF TypedInv, BorrowRight
  <2>7. CASE good # {}
    <3>0. LET all == {o \in Ahead(b, s) : {KeyIn(o), ValIn(o)} \cap Undecodable = {}}
          IN  IF all = {} THEN borrow' = IterAt(NumBuckets, 0, q)
              ELSE \E o \in all : /\ \A p \in all : o = p \/ Before(o, p)
                                  /\ borrow' = IterAt(o[1], o[2] + 1, Append(q, PairAt(o)))
      BY <1>16, <2>3, Zenon DEF IterNext, PairAt
    <3> HIDE DEF good
    <3>1. PICK o \in good : /\ \A p \in good : o = p \/ Before(o, p)
                            /\ borrow' = IterAt(o[1], o[2] + 1, Append(q, PairAt(o)))
      BY <3>0, <2>4, <2>7, Zenon
    <3> DEFINE r == Append(q, PairAt(o))
               c == o[1]
               d == o[2] + 1
    <3>2. c \in Nat /\ d \in Nat /\ r \in Seq(Pairs) /\ Yielded(c, d, r)
      BY <1>0, <2>2, <3>1, IterNextYields, Zenon DEF good
    <3>3. borrow' = IterAt(c, d, r) BY <3>1
    <3> HIDE DEF c, d, r
    <3>4. PICK y \in Seq(Pairs), i \in Nat, j \in Nat :
             borrow' = IterAt(i, j, y) /\ Yielded(i, j, y)
      BY <3>2, <3>3, Zenon
    <3>5. Yielded(i, j, y)' BY <2>5, <3>4, YieldedStays
    <3>6. IterRight' BY <3>4, <3>5 DEF IterRight
    <3> QED BY <2>1, <3>6 DEF TypedInv, BorrowRight
  <2> QED BY <2>6, <2>7
<1>17. CASE ExtendNext
  <2>1. PICK q \in Seq(Pairs) : q # <<>> /\ borrow = [kind |-> "extend", rest |-> q]
    BY <1>0, <1>17, KindTells DEF ExtendNext, ExtendRight
  <2>2. borrow.rest = q BY <2>1
  <2>3. Head(q) \in Pairs /\ Tail(q) \in Seq(Pairs) BY <2>1
  <2>4. Head(q)[1] \in Keys /\ Head(q)[2] \in Values BY <2>3 DEF Pairs
  <2>5. InsertPair(Head(q)[1], Head(q)[2], 0) /\ borrow' = Extending(Tail(q))
    BY <1>17, <2>2 DEF ExtendNext
  <2>6. RawInv' BY <1>0, <1>3, <2>4, <2>5
  <2>7. BorrowRight' BY <2>3, <2>5, ExtendingIs
  <2> QED BY <2>6, <2>7 DEF TypedInv
<1>18. ASSUME NEW q \in Batches, Extend(q) PROVE TypedInv'
  <2>1. q \in Seq(Pairs) BY TypedAssumption DEF Pairs
  <2>2. BorrowRight' BY <1>18, <2>1, ExtendingIs DEF Extend
  <2> QED BY <1>4, <1>18, <2>2 DEF Extend, TypedInv
<1>19. CASE UNCHANGED typedVars
  <2>1. UNCHANGED vars /\ UNCHANGED borrow BY <1>19 DEF typedVars
  <2>2. RawInv' BY <1>4, <2>1
  <2>3. Occupied' = Occupied /\ UNCHANGED <<slots, slab_pool, slots_ttl>> /\ SameAge
    BY <2>1 DEF vars, Occupied, SameAge
  <2>4. \A k \in Keys : Found(k)' = Found(k) BY <2>2, <2>3, <1>0, SameStore, SameFound
  <2>5. \A k \in Keys : Decode(Found(k))' = Decode(Found(k)) BY <2>4 DEF Decode
  <2>6. BorrowRight'
    <3>1. CASE borrow = Unborrowed BY <2>1, <3>1 DEF BorrowRight
    <3>2. CASE OccupiedRight BY <2>1, <2>4, <3>2 DEF OccupiedRight, BorrowRight
    <3>3. CASE VacantRight BY <2>1, <2>5, <3>3 DEF VacantRight, BorrowRight
    <3>4. CASE ExtendRight BY <2>1, <3>4 DEF ExtendRight, BorrowRight
    <3>5. CASE IterRight
      <4>1. IterRight' BY <2>1, <2>3, <3>5, YieldedStays DEF IterRight
      <4> QED BY <4>1 DEF BorrowRight
    <3> QED BY <1>0, <3>1, <3>2, <3>3, <3>4, <3>5 DEF BorrowRight
  <2> QED BY <2>2, <2>6 DEF TypedInv
<1> QED BY <1>5, <1>6, <1>7, <1>8, <1>9, <1>10, <1>11, <1>12, <1>13, <1>14, <1>15, <1>16,
           <1>17, <1>18, <1>19 DEF TypedNext

(* The invariant of the typed map and its borrows.                         *)
THEOREM TypedInvariant == TypedSpec => []TypedInv
BY TypedInitInv, TypedNextInv, PTL DEF TypedSpec

(* An entry handle is as good as a lookup made when it is used, also after *)
(* and_modify and whatever expires or is evicted (lib.rs: entry).          *)
THEOREM TypedHandleCurrent == TypedSpec => []HandleCurrent
<1>1. ASSUME TypedInv PROVE HandleCurrent
  <2>0. RawInv /\ BorrowRight BY <1>1 DEF TypedInv
  <2>1. ASSUME Is("occupied") PROVE Reachable(borrow.key) = borrow.val
    <3>1. PICK k \in Keys, v \in Values : borrow = OccupiedEntry(k, v) /\ Found(k) = v
      BY <2>0, <2>1, KindTells DEF OccupiedRight
    <3>2. borrow.key = k /\ borrow.val = v BY <3>1 DEF OccupiedEntry
    <3> QED BY <2>0, <3>1, <3>2, ReachableIs
  <2>2. ASSUME Is("vacant") PROVE Decode(Reachable(borrow.key)) = NoValue
    <3>1. PICK k \in Keys : borrow = VacantEntry(k) /\ Decode(Found(k)) = NoValue
      BY <2>0, <2>2, KindTells DEF VacantRight
    <3>2. borrow.key = k BY <3>1 DEF VacantEntry
    <3> QED BY <2>0, <3>1, <3>2, ReachableIs
  <2> QED BY <2>1, <2>2 DEF HandleCurrent
<1> QED BY <1>1, TypedInvariant, PTL

(* An exhausted iterator has yielded every occupied and decodable pair     *)
(* exactly once, whatever gets ran beside it (iter.rs: next).              *)
THEOREM TypedIterExact == TypedSpec => []IterExact
<1>1. ASSUME TypedInv PROVE IterExact
  <2> SUFFICES ASSUME Is("iter"), borrow.bucket_idx = NumBuckets
      PROVE  LET pairs == {<<k, Entry(k).val>> : k \in {j \in Keys : Entry(j) # NoEntry}}
             IN  /\ Range(borrow.seen) = {p \in pairs : {p[1], p[2]} \cap Undecodable = {}}
                 /\ Len(borrow.seen) = Cardinality(Range(borrow.seen))
    BY DEF IterExact
  <2>0. RawInv /\ BorrowRight BY <1>1 DEF TypedInv
  <2>1. PICK b \in Nat, s \in Nat, q \in Seq(Pairs) :
           borrow = IterAt(b, s, q) /\ Yielded(b, s, q)
    BY <2>0, KindTells DEF IterRight
  <2>2. b = NumBuckets /\ borrow.seen = q BY <2>1 DEF IterAt
  <2>3. \A o \in Occupied : o[1] \in Nat /\ o[1] < NumBuckets
    BY <2>0, PlacesIn, RawAssumption DEF BucketIds
  <2>4. Behind(b, s) = Decodable BY <2>2, <2>3 DEF Behind, Decodable
  <2>5. Range(q) = {PairAt(o) : o \in Decodable} BY <2>1, <2>4 DEF Yielded
  <2> DEFINE pairs == {<<k, Entry(k).val>> : k \in {j \in Keys : Entry(j) # NoEntry}}
             sound == {p \in pairs : {p[1], p[2]} \cap Undecodable = {}}
  <2>6. \A o : KeyAt(o) = KeyIn(o) /\ ValueIn(o) = ValIn(o) BY DEF KeyAt, KeyIn, ValueIn, ValIn
  <2>7. \A o \in Occupied : KeyIn(o) \in Keys /\ Entry(KeyIn(o)) # NoEntry
                            /\ Entry(KeyIn(o)).val = ValIn(o)
    <3> TAKE o \in Occupied
    <3>1. KeyAt(o) \in Keys BY <2>0, PlacesIn
    <3>2. EntryFound(KeyAt(o)) BY <2>0, <3>1, EntryIs DEF EntriesFound
    <3>3. Entry(KeyAt(o)) = EntryAt(o) /\ Entry(KeyAt(o)) # NoEntry BY <3>2 DEF EntryFound
    <3> QED BY <2>6, <3>1, <3>3 DEF EntryAt
  <2>8. ASSUME NEW k \in Keys, Entry(k) # NoEntry PROVE \E o \in Occupied : KeyIn(o) = k
    <3>1. EntryFound(k) BY <2>0, EntryIs DEF EntriesFound
    <3> QED BY <2>6, <2>8, <3>1 DEF EntryFound
  <2>9. {PairAt(o) : o \in Decodable} \subseteq sound
    <3> SUFFICES ASSUME NEW o \in Decodable PROVE PairAt(o) \in sound OBVIOUS
    <3>1. o \in Occupied /\ {KeyIn(o), ValIn(o)} \cap Undecodable = {} BY DEF Decodable
    <3> DEFINE k == KeyIn(o)
               v == ValIn(o)
    <3>2. k \in Keys /\ Entry(k) # NoEntry /\ Entry(k).val = v BY <2>7, <3>1
    <3>3. {k, v} \cap Undecodable = {} BY <3>1
    <3> HIDE DEF k, v
    <3>4. <<k, v>> \in pairs BY <3>2
    <3>5. <<k, v>> \in sound BY <3>3, <3>4
    <3> QED BY <3>5 DEF PairAt, k, v
  <2>10. sound \subseteq {PairAt(o) : o \in Decodable}
    <3> SUFFICES ASSUME NEW k \in Keys, Entry(k) # NoEntry, {k, Entry(k).val} \cap Undecodable = {}
        PROVE  <<k, Entry(k).val>> \in {PairAt(o) : o \in Decodable}
      OBVIOUS
    <3>1. PICK o \in Occupied : KeyIn(o) = k BY <2>8
    <3>2. ValIn(o) = Entry(k).val BY <2>7, <3>1
    <3>3. o \in Decodable BY <3>1, <3>2 DEF Decodable
    <3>4. PairAt(o) = <<k, Entry(k).val>> BY <3>1, <3>2 DEF PairAt
    <3> QED BY <3>3, <3>4
  <2>11. Range(q) = sound BY <2>5, <2>9, <2>10
  <2>12. Len(q) = Cardinality(Range(q)) BY <2>1, DistinctLength DEF Yielded
  <2> HIDE DEF sound
  <2> QED BY <2>2, <2>11, <2>12 DEF sound
<1> QED BY <1>1, TypedInvariant, PTL
=============================================================================
