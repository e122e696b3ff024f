----------------------------- MODULE BucketBytes ----------------------------
(***************************************************************************)
(* One bucket of a typed map in its bytes (src/engine/bucket.rs): the      *)
(* metadata word, the slots and the slab buffers, as insert and remove of  *)
(* src/raw.rs use them, without TTL.  A caller has the bucket to itself to *)
(* insert and remove.  on_access is a compare-and-swap loop of src/engine/ *)
(* meta.rs, and here several threads run it at once, as tests/loom_meta.rs *)
(* does.  That is MetaWord's own contract and more than the maps need: the *)
(* single-threaded map is not Sync, and src/sync.rs holds the bucket lock. *)
(*                                                                         *)
(* A pair's bytes must be fewer than U32Size: the code cuts the lengths of *)
(* longer pairs to 32 bits and does not keep them.                         *)
(***************************************************************************)
EXTENDS PackedMeta, SlotBytes

CONSTANTS Threads,
          Types,     \* pairs of a key type and a value type
          Samples,   \* the keys or values of each type
          Hash(_),   \* h2, and the fingerprint hi, fp, of the bytes of a key
          MaxHits    \* bound on the on_access calls between two writes

ASSUME BytesAssumption ==
    /\ SlotsPerBucket <= Limit(IdxBytes)
    /\ \A T \in Types :
          /\ \A k \in Samples[T.key] :
                /\ WellTyped(T.key, k)
                /\ Hash(ToBytes(T.key, k)) \in
                      [h2 : 0 .. (2 ^ H2Bits - 1), hi : 0 .. (ModeBit - 1),
                       fp : 0 .. (Limit(FpBytes) - 1)]
          /\ \A v \in Samples[T.val] : WellTyped(T.val, v)
          /\ \A k \in Samples[T.key], v \in Samples[T.val] :
                Len(ToBytes(T.key, k)) + Len(ToBytes(T.val, v)) < U32Size

VARIABLES types,     \* K and V of this map
          word, slots, slab_pool,
          access,    \* on_access calls under way: none, or slot and word loaded
          hits,      \* on_access calls started since the last write
          meta,      \* history: the word as the record of MetaWord
          held       \* history: the pair last written to each slot

vars == <<types, word, slots, slab_pool, access, hits, meta, held>>

K    == Samples[types.key]
V    == Samples[types.val]
Idle == [slot |-> SlotsPerBucket, seen |-> 0]

Init ==
    /\ types \in Types
    /\ word = 0
    /\ slots = [s \in SlotIds |-> Zeroed]
    /\ slab_pool = NoBuffers
    /\ access = [t \in Threads |-> Idle]
    /\ hits = 0
    /\ meta = EmptyMeta
    /\ held = [s \in SlotIds |-> <<>>]

(* A mutable borrow of the map: no shared reference is in use.             *)
Exclusive == \A t \in Threads : access[t] = Idle

Lookup(k) ==
    LET b == ToBytes(types.key, k)
    IN  {s \in BranchlessMask(word, Hash(b).h2) :
            MatchesBytes(slots[s], b, Hash(b), slab_pool)}

(* The slot's buffer, if it has one, goes back to the pool.                *)
Released(s) ==
    IF GetState(word, s) = "Full" /\ Mode(slots[s]) = 1
    THEN FreeBuffer(slab_pool, SlabIdx(slots[s])) ELSE slab_pool

WritePair(s, k, v) ==
    LET kb == ToBytes(types.key, k)
        vb == ToBytes(types.val, v)
        inline == Len(kb) <= KeyMax /\ Len(vb) <= ValMax
        pool == Released(s)
    IN  /\ slots' = [slots EXCEPT ![s] = IF inline THEN SetInline(kb, vb)
                                         ELSE SetSlab(Hash(kb), NextIdx(pool))]
        /\ slab_pool' = IF inline THEN pool ELSE AllocBuffer(pool, kb, vb)
        /\ held' = [held EXCEPT ![s] = <<k, v>>]

Rewritten(k, v) ==
    /\ Exclusive
    /\ \E s \in First(Lookup(k)) :
          /\ WritePair(s, k, v)
          /\ word' = WordOnAccess(word, s)
          /\ meta' = OnAccess(meta, s)
    /\ hits' = 0
    /\ UNCHANGED <<types, access>>

Inserted(k, v) ==
    /\ Exclusive
    /\ Lookup(k) = {}
    /\ \E s \in (IF WordFindFreeSlot(word) # {} THEN WordFindFreeSlot(word)
                 ELSE WordFindEvictTarget(word)) :
          LET h == Hash(ToBytes(types.key, k)).h2 IN
          /\ WritePair(s, k, v)
          /\ word' = WordOnInsert(WordSetH2(WordSetState(word, s, "Full"), s, h), s)
          /\ meta' = OnInsert(SetH2(SetState(meta, s, "Full"), s, h), s)
    /\ hits' = 0
    /\ UNCHANGED <<types, access>>

Removed(k) ==
    /\ Exclusive
    /\ \E s \in First(Lookup(k)) :
          /\ slab_pool' = Released(s)
          /\ word' = WordSetState(word, s, "Tombstone")
          /\ meta' = SetState(meta, s, "Tombstone")
          /\ slots' = [slots EXCEPT ![s] = Zeroed]
          /\ held' = [held EXCEPT ![s] = <<>>]
    /\ hits' = 0
    /\ UNCHANGED <<types, access>>

(* on_access: load the word, ...                                           *)
AccessLoad(t, s) ==
    /\ access[t] = Idle /\ hits < MaxHits
    /\ hits' = hits + 1
    /\ access' = [access EXCEPT ![t] = [slot |-> s, seen |-> word]]
    /\ UNCHANGED <<types, word, slots, slab_pool, meta, held>>

(* Variant: a plain store of what was computed from the loaded word.       *)
AccessStore(t) ==
    /\ access[t] # Idle
    /\ word' = WordOnAccess(access[t].seen, access[t].slot)
    /\ meta' = OnAccess(meta, access[t].slot)
    /\ access' = [access EXCEPT ![t] = Idle]
    /\ UNCHANGED <<types, slots, slab_pool, hits, held>>

(* ... replace it if it is still the one loaded, ...                       *)
AccessCas(t) ==
    /\ access[t] # Idle
    /\ word = access[t].seen
    /\ word' = WordOnAccess(access[t].seen, access[t].slot)
    /\ meta' = OnAccess(meta, access[t].slot)
    /\ access' = [access EXCEPT ![t] = Idle]
    /\ UNCHANGED <<types, slots, slab_pool, hits, held>>

(* ... and start over if not, or if the weak exchange fails anyway.        *)
AccessRetry(t) ==
    /\ access[t] # Idle
    /\ access' = [access EXCEPT ![t].seen = word]
    /\ UNCHANGED <<types, word, slots, slab_pool, hits, meta, held>>

Next ==
    \/ \E k \in K, v \in V : Rewritten(k, v) \/ Inserted(k, v)
    \/ \E k \in K : Removed(k)
    \/ \E t \in Threads :
          (\E s \in SlotIds : AccessLoad(t, s)) \/ AccessCas(t) \/ AccessRetry(t)

Spec == Init /\ [][Next]_vars
-----------------------------------------------------------------------------
Full == {s \in SlotIds : GetState(word, s) = "Full"}

(* The packed word is always the record that the same calls, one after the *)
(* other, make of the fields: no set_* or on_access spills into another    *)
(* field, and no concurrent on_access is lost (tests/loom_meta.rs:         *)
(* "the two calls have to serialize").                                     *)
WordIsRecord == Unpack(word) = meta

(* Every search on the word finds what its definition on the record says,  *)
(* and the vector and the scalar search agree on every fingerprint, next   *)
(* to stale fingerprints, tombstones and zero padding.                     *)
SearchesAgree ==
    /\ \A h \in 0 .. (2 ^ H2Bits - 1) :
          /\ SimdMask(word, h) = MatchMask(meta, h)
          /\ BranchlessMask(word, h) = MatchMask(meta, h)
    /\ WordFindFreeSlot(word) = FindFreeSlot(meta)
    /\ WordFindEvictTarget(word) = FindEvictTarget(meta)

(* An occupied slot decodes to the typed pair last written to it, whichever *)
(* of the two layouts it has, whatever longer or shorter pair used its slab *)
(* buffer before, and whatever hits ran in between, for pairs whose length *)
(* fits a u32.                                                             *)
ReadsBack ==
    \A s \in Full :
        /\ FromBytes(types.key, KeyBytes(slots[s], slab_pool)) = {held[s][1]}
        /\ FromBytes(types.val, ValueBytes(slots[s], slab_pool)) = {held[s][2]}

(* A lookup finds a key exactly if an occupied slot holds it: not a key    *)
(* that differs only in length, not a cleared slot, not a fingerprint      *)
(* shared with another key.                                                *)
LookupExact == \A k \in K : Lookup(k) = {s \in Full : held[s][1] = k}
=============================================================================
