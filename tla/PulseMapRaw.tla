---------------------------- MODULE PulseMapRaw -----------------------------
(***************************************************************************)
(* The single-threaded map of src/raw.rs.  Every method is one action.     *)
(* The hash function is a constant: Hash gives the bits that select the    *)
(* bucket, H2 the fingerprint kept in the metadata word.                   *)
(***************************************************************************)
EXTENDS MetaWord, Slot, FiniteSets

CONSTANTS NumBuckets,  \* a power of two
          Hash, H2,    \* hash bits of each key
          Ttls,        \* TTL arguments that callers use
          Modulus,     \* 2^64: epochs and TTLs are u64 values
          MaxEpoch,    \* bound on the number of insertions
          NoEntry, NoValue

ASSUME RawAssumption ==
    /\ NumBuckets \in Nat \ {0}
    /\ \A k \in Keys : Hash[k] \in Nat /\ H2[k] \in Nat
    /\ Modulus \in Nat /\ MaxEpoch \in Nat /\ MaxEpoch < Modulus
    /\ Ttls \subseteq 0 .. (Modulus - 1)
    /\ NoEntry \notin [val : Values, epoch : Nat, ttl : Nat]

VARIABLES meta, slots,     \* metadata word and slots of every bucket
          slab_pool, count, eviction_count,
          slots_ttl,       \* insertion epoch and TTL of every slot
          current_epoch, default_ttl,
          ret              \* the last call and its result

vars == <<meta, slots, slab_pool, count, eviction_count, slots_ttl,
          current_epoch, default_ttl, ret>>

BucketIds  == 0 .. (NumBuckets - 1)
Bucket(k)  == Hash[k] % NumBuckets
Never      == Modulus - 1    \* u64::MAX
-----------------------------------------------------------------------------
Init ==
    /\ meta = [b \in BucketIds |-> EmptyMeta]
    /\ slots = [b \in BucketIds |-> [s \in SlotIds |-> EmptySlot]]
    /\ slab_pool = NewPool
    /\ count = 0 /\ eviction_count = 0
    /\ slots_ttl = [b \in BucketIds |-> [s \in SlotIds |-> [epoch |-> 0, ttl |-> 0]]]
    /\ current_epoch = 0 /\ default_ttl = 0
    /\ ret = [op |-> "new", key |-> NoValue, res |-> NoValue]

(* The slot of bucket b that holds key k, as a set with at most one member. *)
SlotOf(b, k) == First({s \in MatchMask(meta[b], H2[k]) :
                          MatchesKey(slots[b][s], k, slab_pool)})

(* Variant: an entry is expired as soon as its age reaches the TTL.        *)
IsExpiredEarly(b, s, now) ==
    LET e   == slots_ttl[b][s]
        eff == IF e.ttl = 0 THEN default_ttl ELSE e.ttl
    IN  eff \notin {0, Never} /\ (now + Modulus - e.epoch) % Modulus >= eff

(* is_expired at epoch now: an entry TTL of 0 defers to the default.       *)
IsExpired(b, s, now) ==
    LET e   == slots_ttl[b][s]
        eff == IF e.ttl = 0 THEN default_ttl ELSE e.ttl
    IN  eff \notin {0, Never} /\ (now + Modulus - e.epoch) % Modulus > eff

(* The first slot that is free or whose entry has expired.                 *)
FindFreeOrExpired(b, now) ==
    First({s \in SlotIds : s \notin FullSlots(meta[b]) \/ IsExpired(b, s, now)})

Stamp(b, s, n) ==
    /\ current_epoch' = current_epoch + 1
    /\ slots_ttl' = [slots_ttl EXCEPT ![b][s] = [epoch |-> current_epoch + 1, ttl |-> n]]

(* The pair goes into slot s of bucket b; what the slot held is released   *)
(* to the pool first if it was occupied.                                   *)
WriteSlot(b, s, k, v) ==
    LET freed == IF s \in FullSlots(meta[b]) THEN Release(slab_pool, slots[b][s])
                 ELSE slab_pool
    IN  /\ slots' = [slots EXCEPT ![b][s] = WrittenSlot(freed, k, v)]
        /\ slab_pool' = PoolAfterWrite(freed, k, v)

InsertReturns(k, v) == ret' = [op |-> "insert", key |-> k, res |-> v]

(* insert and insert_ttl on a key that is in the map, expired or not.      *)
Update(k, v, n) ==
    /\ current_epoch < MaxEpoch
    /\ \E s \in SlotOf(Bucket(k), k) :
          /\ WriteSlot(Bucket(k), s, k, v)
          /\ meta' = [meta EXCEPT ![Bucket(k)] = OnAccess(@, s)]
          /\ Stamp(Bucket(k), s, n)
    /\ InsertReturns(k, v)
    /\ UNCHANGED <<count, eviction_count, default_ttl>>

(* The slot a new key goes to: free or expired, else the policy's victim.  *)
TargetSlot(b, now) ==
    IF FindFreeOrExpired(b, now) # {} THEN FindFreeOrExpired(b, now)
    ELSE FindEvictTarget(meta[b])

(* Variant: taking over an expired slot does not count as an eviction.     *)
EvictsLive(b, s, now) == FindFreeOrExpired(b, now) = {}

(* Writing to an occupied slot is an eviction, even if its entry expired.  *)
Evicts(b, s, now) == s \in FullSlots(meta[b])

(* insert and insert_ttl on a key that is not in the map.                  *)
InsertNew(k, v, n) ==
    /\ current_epoch < MaxEpoch
    /\ SlotOf(Bucket(k), k) = {}
    /\ \E s \in TargetSlot(Bucket(k), current_epoch + 1) :
          LET b == Bucket(k)
              evicts == Evicts(b, s, current_epoch + 1)
          IN  /\ WriteSlot(b, s, k, v)
              /\ meta' = [meta EXCEPT ![b] = OnInsert(SetH2(SetState(@, s, "Full"), s, H2[k]), s)]
              /\ Stamp(b, s, n)
              /\ eviction_count' = eviction_count + (IF evicts THEN 1 ELSE 0)
              /\ count' = count + (IF evicts THEN 0 ELSE 1)
    /\ InsertReturns(k, v)
    /\ UNCHANGED default_ttl

(* get and peek: an expired entry is not returned; only get counts a hit.  *)
Hits(k) == {s \in SlotOf(Bucket(k), k) : ~IsExpired(Bucket(k), s, current_epoch)}

LookupReturns(op, k) ==
    ret' = [op |-> op, key |-> k,
            res |-> IF Hits(k) = {} THEN NoValue
                    ELSE CHOOSE v \in {SlotValue(slots[Bucket(k)][s], slab_pool) :
                                          s \in Hits(k)} : TRUE]

Get(k) ==
    /\ meta' = [meta EXCEPT ![Bucket(k)] =
                   IF Hits(k) = {} THEN @ ELSE OnAccess(@, CHOOSE s \in Hits(k) : TRUE)]
    /\ LookupReturns("get", k)
    /\ UNCHANGED <<slots, slab_pool, count, eviction_count, slots_ttl,
                   current_epoch, default_ttl>>

Peek(k) ==
    /\ LookupReturns("peek", k)
    /\ UNCHANGED <<meta, slots, slab_pool, count, eviction_count, slots_ttl,
                   current_epoch, default_ttl>>

(* remove: the slab entry is freed, the slot becomes a tombstone.          *)
RemoveFound(k) ==
    /\ \E s \in SlotOf(Bucket(k), k) :
          LET b == Bucket(k) IN
          /\ slab_pool' = Release(slab_pool, slots[b][s])
          /\ meta' = [meta EXCEPT ![b] = SetState(@, s, "Tombstone")]
          /\ slots' = [slots EXCEPT ![b][s] = EmptySlot]
    /\ count' = count - 1
    /\ ret' = [op |-> "remove", key |-> k, res |-> TRUE]
    /\ UNCHANGED <<eviction_count, slots_ttl, current_epoch, default_ttl>>

RemoveMissing(k) ==
    /\ SlotOf(Bucket(k), k) = {}
    /\ ret' = [op |-> "remove", key |-> k, res |-> FALSE]
    /\ UNCHANGED <<meta, slots, slab_pool, count, eviction_count, slots_ttl,
                   current_epoch, default_ttl>>

SetTtl(n) ==
    /\ default_ttl' = n
    /\ ret' = [op |-> "set_ttl", key |-> NoValue, res |-> n]
    /\ UNCHANGED <<meta, slots, slab_pool, count, eviction_count, slots_ttl,
                   current_epoch>>

Next ==
    \/ \E k \in Keys, v \in Values, n \in Ttls : Update(k, v, n) \/ InsertNew(k, v, n)
    \/ \E k \in Keys : Get(k) \/ Peek(k) \/ RemoveFound(k) \/ RemoveMissing(k)
    \/ \E n \in Ttls : SetTtl(n)

Spec == Init /\ [][Next]_vars
-----------------------------------------------------------------------------
Occupied == {o \in BucketIds \X SlotIds : o[2] \in FullSlots(meta[o[1]])}

Contents(o) == slots[o[1]][o[2]]

(* Every variable has its type; the metadata fields fit their bits.        *)
TypeOK ==
    /\ meta \in [BucketIds -> MetaWords(Nat)]
    /\ slots \in [BucketIds -> [SlotIds -> SlotTypes]]
    /\ slab_pool \in [entries : Seq([key : Keys, val : Values]), free : Seq(Nat)]
    /\ count \in Nat /\ eviction_count \in Nat
    /\ slots_ttl \in [BucketIds -> [SlotIds -> [epoch : Nat, ttl : Ttls \cup {0}]]]
    /\ current_epoch \in 0 .. MaxEpoch /\ default_ttl \in Ttls \cup {0}

(* Slab indices are owned linearly: every entry of the pool is referenced  *)
(* by exactly one occupied slot, or is on the free list exactly once.  So  *)
(* no slot can see another key's bytes and nothing leaks, through any      *)
(* sequence of insert, update, eviction, expiry reuse and remove.          *)
SlabOwned ==
    LET refs == {o \in Occupied : Contents(o).mode = 1}
        free == slab_pool.free
    IN  /\ \A o, q \in refs : Contents(o).idx = Contents(q).idx => o = q
        /\ \A i, j \in DOMAIN free : free[i] = free[j] => i = j
        /\ {Contents(o).idx : o \in refs} \cap {free[i] : i \in DOMAIN free} = {}
        /\ {Contents(o).idx : o \in refs} \cup {free[i] : i \in DOMAIN free}
              = DOMAIN slab_pool.entries

(* len() counts the occupied slots, through expiry reuse and eviction, and *)
(* remove never takes it below zero (raw.rs: count).                       *)
CountExact == count = Cardinality(Occupied)

(* What iter() yields: every occupied slot holds a key of its own bucket,  *)
(* under that key's fingerprint, and no key is in two slots.               *)
KeysUnique ==
    /\ \A o \in Occupied :
          LET k == SlotKey(Contents(o), slab_pool)
          IN  Bucket(k) = o[1] /\ meta[o[1]].h2[o[2]] = H2[k]
    /\ \A o, q \in Occupied :
          SlotKey(Contents(o), slab_pool) = SlotKey(Contents(q), slab_pool) => o = q

(* The entries a caller can reach by key.                                  *)
Entry(k) ==
    LET b == Bucket(k)
        found == SlotOf(b, k)
    IN  IF found = {} THEN NoEntry
        ELSE LET s == CHOOSE s \in found : TRUE
             IN  [val |-> SlotValue(slots[b][s], slab_pool),
                  epoch |-> slots_ttl[b][s].epoch, ttl |-> slots_ttl[b][s].ttl]

Cache == INSTANCE LossyMap
    WITH Group <- [k \in Keys |-> Bucket(k)], Ways <- SlotsPerBucket,
         store <- [k \in Keys |-> Entry(k)],
         epoch <- current_epoch, ttl <- default_ttl

(* The map implements the map that may forget: get and peek return the     *)
(* last value inserted for that very key or nothing, an update loses no    *)
(* other key, a new key costs at most one key of its bucket, and a live    *)
(* one only if the bucket is full and holds no expired entry.              *)
ImplementsLossyMap == Cache!Spec

(* eviction_count grows by one exactly when an insertion makes another key *)
(* unreachable, be it live or expired.                                     *)
EvictionsCounted ==
    [][eviction_count' - eviction_count =
          (IF current_epoch' = current_epoch THEN 0
           ELSE Cardinality({k \in Keys : Entry(k) # NoEntry /\ Entry(k)' = NoEntry}))]_vars
=============================================================================
