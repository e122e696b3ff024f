-------------------------------- MODULE Slot --------------------------------
(***************************************************************************)
(* A slot of a bucket (src/engine/slot.rs): it holds a short key and value *)
(* itself (mode 0), or a fingerprint of the key and the index of a slab    *)
(* entry (mode 1).                                                         *)
(***************************************************************************)
EXTENDS SlabPool

CONSTANTS Keys, Values,
          ShortKeys,    \* keys of at most 6 bytes
          ShortValues,  \* values of at most 7 bytes
          ExtFp,        \* the 39-bit extended fingerprint of each key
          NoKey         \* contents of a cleared slot

Fits(k, v) == k \in ShortKeys /\ v \in ShortValues

EmptySlot        == [mode |-> 0, key |-> NoKey, val |-> NoKey]
InlineSlot(k, v) == [mode |-> 0, key |-> k, val |-> v]
SlabSlot(k, i)   == [mode |-> 1, fp |-> ExtFp[k], idx |-> i]

SlotTypes ==
    [mode : {0}, key : Keys \cup {NoKey}, val : Values \cup {NoKey}]
        \cup [mode : {1}, fp : {ExtFp[k] : k \in Keys}, idx : Nat]

(* Variant: the fingerprint alone decides.                                 *)
MatchesKeyByFp(slot, k, p) ==
    IF slot.mode = 0 THEN slot.key = k ELSE slot.fp = ExtFp[k]

MatchesKey(slot, k, p) ==
    IF slot.mode = 0
    THEN slot.key = k
    ELSE slot.fp = ExtFp[k] /\ p.entries[slot.idx].key = k

SlotKey(slot, p)   == IF slot.mode = 0 THEN slot.key ELSE p.entries[slot.idx].key
SlotValue(slot, p) == IF slot.mode = 0 THEN slot.val ELSE p.entries[slot.idx].val

(* Writing a pair into a slot: the pool afterwards and the slot's bytes.   *)
PoolAfterWrite(p, k, v) == IF Fits(k, v) THEN p ELSE Alloc(p, k, v)
WrittenSlot(p, k, v) ==
    IF Fits(k, v) THEN InlineSlot(k, v) ELSE SlabSlot(k, AllocIdx(p))

(* Variant: overwriting or clearing a slot forgets its slab entry.         *)
ReleaseLeaks(p, slot) == p

(* Giving up a slot's contents.                                            *)
Release(p, slot) == IF slot.mode = 1 THEN Free(p, slot.idx) ELSE p
=============================================================================
