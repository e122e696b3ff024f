--------------------------- MODULE TypedPulseMap ----------------------------
(***************************************************************************)
(* The typed map of src/lib.rs over PulseMapRaw, its Entry API, iterators  *)
(* (src/iter.rs), Extend and From<HashMap> (src/traits.rs).  Keys and      *)
(* values stand for their encodings; a custom from_bytes may refuse some   *)
(* of them.  An entry handle, an iterator and a running extend borrow the  *)
(* map: only what the borrow permits can happen until it ends.             *)
(***************************************************************************)
EXTENDS PulseMapRaw, Functions

CONSTANTS Undecodable,   \* encodings that from_bytes refuses
          Batches        \* what callers pass to extend or convert from

ASSUME TypedAssumption ==
    /\ 0 \in Ttls /\ NoValue \notin Values
    /\ Batches \subseteq Seq(Keys \X Values)

VARIABLE borrow          \* the outstanding borrow of the map

typedVars == <<vars, borrow>>

Unborrowed     == [kind |-> "none"]
OccupiedEntry(k, v) == [kind |-> "occupied", key |-> k, val |-> v]
VacantEntry(k) == [kind |-> "vacant", key |-> k]
IterAt(b, s, q) == [kind |-> "iter", bucket_idx |-> b, slot_idx |-> s, seen |-> q]
Extending(q)   == IF q = <<>> THEN Unborrowed ELSE [kind |-> "extend", rest |-> q]

(* new, or From<HashMap>: a new map and insertions in the order in which   *)
(* the HashMap yields its pairs.                                           *)
TypedInit == Init /\ borrow \in {Unborrowed} \cup {Extending(q) : q \in Batches}

Same   == UNCHANGED borrow
Is(kind) == borrow.kind = kind
InsertPair(k, v, n) == Update(k, v, n) \/ InsertNew(k, v, n)

(* get and peek need a shared borrow, so they go on beside an iterator.    *)
TypedInsert(k, v, n) == Is("none") /\ InsertPair(k, v, n) /\ Same
TypedGet(k)          == borrow.kind \in {"none", "iter"} /\ Get(k) /\ Same
TypedPeek(k)         == borrow.kind \in {"none", "iter"} /\ Peek(k) /\ Same
TypedRemove(k)       == Is("none") /\ (RemoveFound(k) \/ RemoveMissing(k)) /\ Same
TypedSetTtl(n)       == Is("none") /\ SetTtl(n) /\ Same

Decode(x)    == IF x \in Undecodable THEN NoValue ELSE x
-----------------------------------------------------------------------------
(* Variant: an expired entry is still taken for occupied.                  *)
EntryUnexpired(k) ==
    /\ Is("none")
    /\ Peek(k)
    /\ borrow' = LET found == {SlotValue(slots[Bucket(k)][s], slab_pool) : s \in SlotOf(Bucket(k), k)}
                 IN  IF found = {} THEN VacantEntry(k) ELSE OccupiedEntry(k, CHOOSE v \in found : TRUE)

(* entry(key): what the key holds now decides which kind of handle it is.  *)
EntryOf(k) ==
    /\ Is("none")
    /\ Peek(k)
    /\ borrow' = IF Decode(ret'.res) = NoValue THEN VacantEntry(k) ELSE OccupiedEntry(k, ret'.res)

(* or_insert, or_insert_with, and insert of a vacant handle.               *)
VacantInsert(v) == Is("vacant") /\ InsertPair(borrow.key, v, 0) /\ borrow' = Unborrowed

(* or_insert on an occupied handle, or a handle that is dropped.           *)
DropHandle == /\ borrow.kind \in {"occupied", "vacant"} /\ borrow' = Unborrowed
              /\ UNCHANGED vars

(* and_modify: the new value is written back with the default TTL and the  *)
(* handle goes on with it.                                                 *)
AndModify(v) == /\ Is("occupied")
                /\ InsertPair(borrow.key, v, 0)
                /\ borrow' = OccupiedEntry(borrow.key, v)

OccupiedInsert(v) == Is("occupied") /\ InsertPair(borrow.key, v, 0) /\ borrow' = Unborrowed
OccupiedRemove    == /\ Is("occupied") /\ borrow' = Unborrowed
                     /\ RemoveFound(borrow.key) \/ RemoveMissing(borrow.key)
-----------------------------------------------------------------------------
KeyIn(o) == SlotKey(Contents(o), slab_pool)
ValIn(o) == SlotValue(Contents(o), slab_pool)

Before(o, q) == o[1] < q[1] \/ (o[1] = q[1] /\ o[2] < q[2])

(* Variant: the slot index is not reset when the next bucket begins.       *)
AheadNoReset(b, s) == {o \in Occupied : o[1] >= b /\ o[2] >= s}

(* The occupied slots RawIter still has before it.                         *)
Ahead(b, s) == {o \in Occupied : o[1] > b \/ (o[1] = b /\ o[2] >= s)}

Iterate == /\ Is("none") /\ borrow' = IterAt(0, 0, <<>>)
           /\ UNCHANGED vars

(* next of TypedIter: pairs that cannot be decoded are skipped.            *)
IterNext ==
    /\ Is("iter") /\ borrow.bucket_idx < NumBuckets
    /\ LET good == {o \in Ahead(borrow.bucket_idx, borrow.slot_idx) :
                       {KeyIn(o), ValIn(o)} \cap Undecodable = {}}
       IN  IF good = {} THEN borrow' = IterAt(NumBuckets, 0, borrow.seen)
           ELSE \E o \in good :
                   /\ \A q \in good : o = q \/ Before(o, q)
                   /\ borrow' = IterAt(o[1], o[2] + 1, Append(borrow.seen, <<KeyIn(o), ValIn(o)>>))
    /\ UNCHANGED vars

IterDrop == Is("iter") /\ borrow' = Unborrowed /\ UNCHANGED vars

Extend(q) == /\ Is("none") /\ current_epoch + Len(q) <= MaxEpoch
             /\ borrow' = Extending(q) /\ UNCHANGED vars

ExtendNext == /\ Is("extend")
              /\ InsertPair(Head(borrow.rest)[1], Head(borrow.rest)[2], 0)
              /\ borrow' = Extending(Tail(borrow.rest))

TypedNext ==
    \/ \E k \in Keys, v \in Values, n \in Ttls : TypedInsert(k, v, n)
    \/ \E k \in Keys : TypedGet(k) \/ TypedPeek(k) \/ TypedRemove(k) \/ EntryOf(k)
    \/ \E n \in Ttls : TypedSetTtl(n)
    \/ \E v \in Values : VacantInsert(v) \/ AndModify(v) \/ OccupiedInsert(v)
    \/ OccupiedRemove \/ DropHandle
    \/ Iterate \/ IterNext \/ IterDrop \/ ExtendNext
    \/ \E q \in Batches : Extend(q)

TypedSpec == TypedInit /\ [][TypedNext]_typedVars
-----------------------------------------------------------------------------
(* The value a caller would get for k now.                                 *)
Reachable(k) == IF Entry(k) = NoEntry \/ Hits(k) = {} THEN NoValue ELSE Entry(k).val

(* A handle is as good as a lookup made when it is used: an occupied one   *)
(* holds the value that the map would return, also after and_modify, and a *)
(* vacant one stands for a key that a typed get does not return.           *)
HandleCurrent ==
    /\ Is("occupied") => Reachable(borrow.key) = borrow.val
    /\ Is("vacant") => Decode(Reachable(borrow.key)) = NoValue

(* When the iterator is exhausted it has yielded every pair that is        *)
(* occupied and decodable, expired or not, exactly once, although gets     *)
(* have rewritten the metadata words meanwhile.                            *)
IterExact ==
    Is("iter") /\ borrow.bucket_idx = NumBuckets =>
        LET pairs == {<<k, Entry(k).val>> : k \in {j \in Keys : Entry(j) # NoEntry}}
        IN  /\ Range(borrow.seen) = {p \in pairs : {p[1], p[2]} \cap Undecodable = {}}
            /\ Len(borrow.seen) = Cardinality(Range(borrow.seen))
=============================================================================
