# Verification of pulse_map

pulse_map is a fixed-memory cache: a hash table of buckets with four slots each,
in which an insertion into a full bucket evicts the entry with the lowest
frequency/recency priority, and entries may expire after a number of later
insertions. It comes as a single-threaded map, a thread-safe map and a sharded
map. This directory holds TLA+ models of it, TLC configurations, and TLAPS proofs.

## 1. Inventory

| Component (source) | State | Operations | What makes it correct |
|---|---|---|---|
| `engine/access_buffer.rs` | `head`, `tail`, a sequence tag and a data word per ring slot | `push`, `drain`/`pop`, `clear` | a payload is never read while it is written; accepted events come out once, in order; `clear` leaves nothing; the ring never wedges, also when counters wrap |
| `engine/meta.rs` (`simd.rs`) | one 64-bit word per bucket: state, 7-bit fingerprint, frequency and recency per slot | `match_mask`, `find_free_slot`, `find_evict_target`, `on_access`, `on_insert`, setters | fields never spill into each other; searches see exactly the occupied slots |
| `engine/slab.rs` | entries, free list | `alloc`, `free`, `get` | an index belongs to one slot or is free |
| `engine/slot.rs`, `bucket.rs` | 14 bytes: inline pair, or fingerprint and slab index | `set_inline`, `set_slab`, `matches_key`, `get_value`, `clear` | a fingerprint match is confirmed by the key |
| `raw.rs` | buckets, slab, count, eviction count, epoch, TTLs | `insert`, `insert_ttl`, `get`, `peek`, `remove`, `set_ttl` | a map that may forget, and only as the policy says |
| `sync.rs` | the same behind an `RwLock`, bucket spinlocks, two mutexes and atomics; the access buffer | the same, `resize`, automatic resize | every call takes effect at one instant; no lost, duplicated or misplaced entry; no deadlock |
| `sharded.rs` | 16 concurrent maps | routed calls, loops over shards (`set_ttl`, `resize_all`, `len`) | routing bits and bucket bits are disjoint; shards agree on settings |
| `lib.rs` (`TypedPulseMap`, `Entry`) | a raw map; a handle keeps key and value | typed calls, `entry`, `or_insert`, `and_modify`, `insert`/`remove` of a handle | a handle agrees with the map when it is used |
| `lib.rs` (`PulseKey`, `PulseValue`) | - | `to_bytes`, `from_bytes` | decoding what was encoded gives it back |
| `iter.rs`, `traits.rs` | bucket and slot index | `next`; `extend`, `From<HashMap>` | each decodable pair is yielded once |
| `engine/hash.rs` | - | `compute_hash` | fingerprints, shard and bucket use different bits |
| `fuzz/fuzz_targets/fuzz_sequences.rs` | a raw map and a shadow map | six operations, assertions | no assertion fails |
| `examples/soak_test.rs` | a sharded map, samples | workers, monitor with checks | no check on the statistics fails |

How they interact. `get` of the concurrent map does not touch the metadata word:
it pushes (bucket, slot) into the access buffer; each `insert` drains up to 64
events and applies them under the target bucket's lock before it takes its own
bucket's lock. `resize` takes the table lock for writing, clears the buffer,
rehashes every occupied entry with its TTL, and replaces buckets, locks, slab,
TTL table and count. An insertion into an automatic map decides on a resize
under a read lock it drops before it calls `resize`.

What is hard here: lock-free publication and reuse of ring slots with stale
relaxed loads and wrapping counters; slab indices freed and allocated under
separate acquisitions of a mutex while only the bucket lock ties them to a slot;
decisions made before a lock is taken (automatic resize) or on two loads
(default TTL, then epoch); hits applied later, to whatever the slot then holds;
a count kept apart from the slots; sums over shards that change while they are
read; whole-word updates of packed fields from a copy loaded earlier; buffers reused with
other lengths; handles and positions that outlive the call that made them. PROJECT.json lists these as hazards with their lines.

## 2. Modules

| Module | Models | Notes |
|---|---|---|
| `EventQueue` | contract of the access buffer | bounded, lossy, first-in first-out; an accepted event is delivered at most once, unaltered |
| `AccessBuffer` | `engine/access_buffer.rs` | one step per atomic access; a `pc` per thread |
| `Arithmetic`, `MapLemmas` | | lemmas that several proofs cite |
| `AccessBufferProofs` | | theorems about `AccessBuffer` |
| `MetaWord`, `SlabPool`, `Slot` | `engine/meta.rs`, `slab.rs`, `slot.rs` | operators; an `Option` is a set with at most one member |
| `LossyMap` | contract of the single-threaded map | a map that may forget |
| `PulseMapRaw` | `raw.rs` | one action per method and outcome |
| `PulseMapRawProofs` | | its invariants; that it implements `LossyMap`; theorems about `TypedPulseMap` and `FuzzSequences` |
| `SharedCache` | contract of the concurrent map | calls with one instant of effect |
| `ConcurrentPulseMap` | `sync.rs` | every call in steps; uses `EventQueue` for hits |
| `ConcurrentPulseMapProofs`, `ConcurrentPulseMapRefinement` | | its lock discipline, table, count and history; that it implements `SharedCache` |
| `HashBits` | `engine/hash.rs`, `bucket_hash` and `shard_for` of `sharded.rs` | the fields of a hash, each by its number of values |
| `ShardedPulseMap` | `sharded.rs` | shards by their contract; loops over shards in steps; statistics |
| `SoakTest` | `examples/soak_test.rs` | a client of `ShardedPulseMap`, which it extends |
| `ShardedPulseMapProofs` | | theorems about `ShardedPulseMap` and `SoakTest` |
| `TypedPulseMap` | typed map and Entry API of `lib.rs`, `iter.rs`, `extend` and `From` of `traits.rs` | extends `PulseMapRaw` by the outstanding borrow |
| `FuzzSequences` | the fuzz target | extends `PulseMapRaw` by the shadow map and the assertions |
| `Codec` | `PulseKey` and `PulseValue` of `lib.rs` | conversions as operators |
| `PackedMeta` | `engine/meta.rs` as one integer, `simd.rs` | operators, next to those of `MetaWord` |
| `SlotBytes` | `engine/slot.rs` and `slab.rs` in bytes | operators |
| `BucketBytes` | `engine/bucket.rs` as `raw.rs` uses it | state machine over the three modules above |
| `BucketBytesProofs` | | theorems about `BucketBytes` |
| `MC...` | | constants for TLC |

Definitions whose comment begins with *Variant* are deliberately wrong forms of the
definition that follows them. No specification uses them; they serve to confirm
that each property notices the mistake they make.

### AccessBuffer

`head`, `tail`, `seq` and `data` are the fields of the struct. `pc[t]` names the
next atomic access of thread `t`, `pos[t]` the counter value it loaded, `arg[t]`
the event it records, `val[t]` the word it read, `left[t]` the iterations its
drain loop has left. Actions follow the code line by line: load head, check tag,
compare-exchange, store, publish; load tail, check tag, compare-exchange, read,
release, callback. Every failed check or exchange ends the call, as in the code.
`excl` is the thread inside `clear`, which the map calls under its write lock.
`log`, `taken` and `idx` are history: the accepted events, how many were claimed,
and the unwrapped value of `pos`.

Memory order. The tag is written with Release and read with Acquire and the data
word is only accessed between a successful tag check and the next tag write, so
tags and data are modelled as sequentially consistent. The Relaxed loads of
`head` and `tail` may return old values: `Stale` says how many values they may
lag. The compare-exchanges always act on the newest value.

Bounds: `MaxPushes` limits accepted events; `NoLap` says that no thread stays
inside one call while the head counter runs through all its values (2^64, or
2^32, pushes during one call).

### PulseMapRaw

Hash bits, fingerprints and which pairs fit a slot are constants, so any pattern
of collisions can be given. The slots of a bucket, its metadata word, the slab
pool and the TTL table are as in the code; `ret` records the last call and its
result. `MaxEpoch` bounds the number of insertions. Epoch arithmetic wraps at
`Modulus`, and the TTL `Modulus - 1` stands for `u64::MAX`.

### ConcurrentPulseMap

A step makes one access to something another thread can change at that moment.
What a thread does to its own bucket under the bucket's lock commutes with the
other threads' steps and joins such an access; releases join the last one. So
`insert` is: check the load, resize, advance the epoch, take the read lock, drain
(take an event; lock its bucket, apply it, unlock), lock its bucket, match and free
the old slab entry, allocate and write, stamp, count and leave. `get` is: enter,
lock, match and load the lifetime, load the epoch and decide, push the hit, copy
the value and leave. `peek` keeps the slab mutex from the match to the end.
Resize excludes everybody else by the write lock, so it is one step; the entries
it moves are described by their rank among those with the same new bucket, which
is what "first free slot, in order" amounts to. Read locks never wait in the model,
because the only writer finishes in the step in which it starts.

`buffer` and `hand` belong to `EventQueue`, which `AccessBuffer` is proved to
implement: an offered hit may be dropped, and a drain may end at any time (a pop
that is contended gives up). A queued hit carries, as history, the number of
buckets at the time. `store` is history too: the entries of a bucket as of its
last commit (the stamp of an insertion, the tombstone of a removal). No guard reads it.
`Undecodable` are the values that a custom `from_bytes` refuses: a lookup that finds one returns nothing, `get` after it has
recorded the hit, and the contract says so too (`Decoded`).

Relaxed loads of `current_epoch` are taken as current. The stamp of an entry is
read under the bucket lock its writer released after loading that stamp, so by
coherence the epoch loaded next is never older than the stamp; a value older
than the newest one only makes an entry look younger. Statistics (`len`,
`capacity`, ...) read one variable and are not actions. `MaxCalls` bounds the number
of calls, `MaxDoublings` the retries of a resize, `BufferCap` and `DrainBatch` stand for
4096 and 64.

### ShardedPulseMap and SoakTest

A shard is a `ConcurrentPulseMap`, which is proved to do what
`SharedCache` promises. Here it appears in that form: an insertion reads the load and may
resize, ticks the epoch, is written at one instant and counted by a later step;
a lookup finds the entry and judges its age in two steps; which rival of a full bucket is
evicted is left open. A thread keeps its bucket locked, and the table readable only, between
those steps (`Holds`), so a resize waits. `set_ttl`, `resize_all`, `len`, `capacity`,
`eviction_count`, `current_epoch` and `is_empty` make one step per shard; `load_factor` is
`capacity` followed by `len`. `window` is history: the keys counted throughout and at some time
during a `len`, and whether another `set_ttl` overlapped one. Deferred hits only influence the
choice of victims and are absent.

`SoakTest` runs the main thread of the example: prime the sentinel; then in rounds sample `len`,
`capacity` and `eviction_count`, check them, re-insert the sentinel and read it back. The example's workers insert
and get on a fixed table; here a worker makes calls of every kind on shards that also grow, so the checks are put to
a harder test than the example itself does. `MaxEpoch` bounds the insertions per shard, `MaxSize` automatic growth,
`MaxTick` the rounds.

### TypedPulseMap and FuzzSequences

An entry handle, an iterator and a running `extend` hold a borrow of the map. `borrow` is that borrow; Rust's
rules are the guards: nothing else happens while a handle or `extend` is outstanding, lookups go on beside an iterator.
Keys and values stand for their encodings; `Undecodable` are those that a custom
`from_bytes` refuses. `seen` collects what an iterator has yielded. An iteration step is one `next` of `TypedIter`,
which may pass several pairs that do not decode.

In `FuzzSequences` every operation of the target is one action per call it makes on the map, and the
assertions set `panicked`. A byte stream is any sequence of operations; the dummy keys of `AdvanceEpoch` are
also ordinary keys, as they can be in the stream.

### Codec, PackedMeta, SlotBytes and BucketBytes

These hold what the other modules abstract from: bits and bytes. Shifts and masks are quotients and
remainders by powers of two. All widths are constants with the relations the code relies on
(`PackedAssumption`, `CodecAssumption`, `SlotAssumption`): the header of a slot is a mode bit, two lengths and a zero bit, key and
value areas hold the lengths those bits can express, and the slab form has the same size. Loops (over the slots of a word,
over the bytes of an integer) are recursive functions. `WellTyped` says which values a type has. A slab entry has
its buffer, capacity and two lengths, the last three cut to `U32Size` values as the casts `as u32` cut them; a copy beyond the buffer would be lost.

`BucketBytes` is one bucket without TTL. Insertions and removals own it (`&mut`); `on_access` runs in
any number of threads: load, compare-exchange, and a retry that may also be
spurious. That is what `meta.rs` offers and its loom test asks for, not what the maps need today: the raw map is not `Sync`, and the concurrent one
calls it under the bucket's lock. `meta` and `held` are history: the record that the same calls make of `MetaWord`'s fields, and the
typed pair written to each slot. `MaxHits` bounds the `on_access` calls between two writes.

## 3. What the runs show

| Run | Instance | Properties |
|---|---|---|
| `access_buffer_safety` | 3 threads, ring of 2, counters start 2 below the wrap at 8, loads up to 1 behind, 4 events, valid and invalid requests | `TypeOK`, `PayloadExclusive`, `RingInv`, `ClearEmpties`, `ImplementsEventQueue` |
| `access_buffer_liveness` | 2 threads, 3 events, loads up to 1 behind but not forever, fair | `EventuallyDrained` |
| `raw_structure` | 4 keys, 2 buckets of 2 slots, TTL 0 and 1, 3 insertions | `TypeOK`, `SlabOwned`, `CountExact`, `KeysUnique` |
| `raw_expiry` | 2 keys of a bucket of 1 slot, a third in another bucket whose insertions age them, TTL 0, 1, 2, MAX, 5 insertions | `ImplementsLossyMap` |
| `concurrent_grow` | 2 threads, 4 calls, automatic map growing from 1 bucket, explicit resizes to 2 and 3, one value that does not decode | `Coherent`, `SlabOwned`, `CountAccounts`, `HintsCurrent`, `ImplementsSharedCache` |
| `concurrent_evict` | 2 threads, 5 calls, 1 bucket of 2 slots, 3 keys, set_ttl, one value that does not decode | `TypeOK`, `CountAccounts`, `VictimColdest`, `ImplementsSharedCache` |
| `concurrent_calls` | 2 threads, 4 calls, 2 buckets, one slab key in each, a resize to 4, fair; deadlock is checked | `CallsReturn` |
| `fuzz_sequences` | 3 keys of one bucket of 2 slots, TTL 0 and 1, up to 2 dummies per advance | `NoPanic`, `ImplementsLossyMap`, `EvictionsCounted` |
| `typed` | 3 keys, 2 buckets of 2 slots, TTL 0 and 1, one value that does not decode, 3 insertions | `HandleCurrent`, `IterExact` |
| `layout` | bucket of 2 slots, bytes of 6 bits, slots of 6 bytes, 5 pairs of types, lengths below 9 in place of 2^32, 2 threads | `WordIsRecord`, `SearchesAgree`, `ReadsBack`, `LookupExact` |
| `sharded` | 2 shards of 1 bucket with 1 slot, growing; main thread and 1 worker; 3 keys, 2 rounds | `BucketsReachable`, `StatisticsSound`, `LenBracketed`, `TtlAgreed` |
| `sharded_ttl` | the same with 2 workers that only call `set_ttl`; **a violation is expected** | `TtlSameAcrossShards` |

- `ImplementsEventQueue`: an event is accepted at the head exchange and taken at the
  tail exchange; the callback gets exactly the recorded pair, once, in order.
- `ClearEmpties`: the bounded loop of single-attempt pops in `clear` never stops early under
  the write lock.
- `ImplementsLossyMap`: a lookup returns the value of the last insertion of that
  very key or nothing; an update costs nobody anything; a new key costs at most
  one key of its bucket, a live one only when the bucket is full and none of its entries has expired.
- `ImplementsSharedCache`: the concurrent map is linearizable to a cache of the same
  kind, with one exception that the contract spells out: a lookup of an
  entry without a TTL of its own loads the default TTL first and the epoch later, so with a
  concurrent `set_ttl` it may apply the old default to a newer epoch. Unlike the
  single-threaded map the concurrent one never prefers expired slots as victims.
  The contract lets a resize grow the table to the next power of two of its argument
  and no further, and an automatic one at most double it: the retry loop for
  overflowing buckets never runs a second time, because a larger mask splits
  old buckets and never merges them, provided every entry is in the bucket of
  its hash (`Coherent`). A resize decided on figures that another thread has
  overtaken does nothing.
- `SlabOwned` of the concurrent map is checked where it is at risk, in a table with several buckets: with one
  bucket its lock would order all frees and allocations, and only `raw_structure`'s question would be left.
- `CallsReturn`: the instance has the waits that could close a circle. A drained hit's bucket is not the insertion's
  own and is locked by the other thread; peek holds the slab mutex while the other thread, inside its own bucket, needs it; resize
  waits for both. Circles of three threads are not covered: three threads that make four calls of this set
  have more states than the run allows.
- `VictimColdest`: the victim is still the coldest entry when it is overwritten. This is what the
  bucket lock in the drain callback buys. (That the lock also keeps the plain load and store of the word from losing a hit
  is not visible here, since an update of the word is one step.)
- `HintsCurrent`: no hit outlives the layout it refers to.
- `NoPanic`: what the fuzz target samples, exhaustively for short sequences on a crowded bucket.
- `HandleCurrent`: `entry` decides with expiry and decoding taken into account, and
  since the borrow excludes other calls the decision still holds when the handle is used, also after `and_modify`,
  which advances the epoch.
- `IterExact`: a finished iteration has yielded every occupied pair that decodes, expired or not, once.
- `WordIsRecord`: bit operations on the word do to the fields what `MetaWord` says, and
  concurrent `on_access` calls take effect one after the other, none lost. The other modules may therefore use the record.
- `SearchesAgree`, `ReadsBack`, `LookupExact`: the scalar search, the vector search and the record agree; a typed
  pair comes back as written, inline or in a reused buffer; keys that differ only in trailing zeros, and the empty key
  beside cleared slots, are told apart.
- `BucketsReachable`: at every size a shard grows to, the keys routed to it reach all its buckets with all
  fingerprints. With the routing bits left in the hash, half of the buckets of a grown shard would stay empty.
- `LenBracketed`: `len` is at least the number of keys that were counted all the time and at most
  the number of those that were counted at some time while it ran.
- `StatisticsSound`: `len` sampled before `capacity` never exceeds it although shards grow in between, `eviction_count`
  never decreases, and the sentinel is never read back with another value. It needs the bucket lock to be held until the count has changed.
  The order is that of the soak test; `load_factor` takes the capacity first, and nothing is claimed of its quotient while shards grow.
  That the sentinel is still there when it is read is not claimed: the model leaves the choice of victims open.
- `TtlAgreed`: a `set_ttl` that no other one overlaps leaves its value in every shard. In `sharded` only the worker calls it, so
  the run shows that the loop reaches every shard; overlapping calls are the subject of `sharded_ttl`.

The finding. `get_ttl` of the sharded map is documented as "Current TTL setting (same across all
shards)" (`src/sharded.rs:145`). `sharded_ttl` shows that two overlapping calls of `set_ttl`, each of
which stores shard by shard, can end with the first value in one shard and the second in another; `get_ttl` then reports
shard 0's, and entries in the other shards expire by a different default until the next `set_ttl`.
`TtlAgreed` says what does hold.

The bounds. Two slots per bucket are the smallest number in which a victim is chosen,
a tombstone sits beside a live entry, and a free slot precedes an occupied one;
a ring of two is the smallest the code allows in which positions of two generations share a slot. One bit
each of frequency and recency give saturation, decay and ties. Three keys overfill
a bucket; two share the 7-bit fingerprint and the slab fingerprint, so that only
the key comparison tells them apart; short and long pairs exercise inline and slab slots. Four
calls suffice for two insertions that fill a bucket, one that decides to grow, and
one that overtakes it.
In the byte-level run the sizes keep the proportions of the code (lengths in two bits instead of three: keys up to 2 and
values up to 3 bytes inline), every kind of conversion occurs as a key or a value with its extreme values,
and pairs of 4 to 8 bytes, 8 being the longest that `U32Size` = 9 admits, reuse each other's buffers. One bit of fingerprint still gives equal, different and stale
fingerprints, and zero. With buckets of one slot in the sharded run an insertion already evicts, fills
and grows a shard; two shards suffice for a loop to be overtaken.
The safety runs of the threads use symmetry (threads are interchangeable; the liveness runs do not use it). The
raw, fuzz and typed runs use a VIEW without `ret` and `eviction_count`, which no action reads; that of the sharded run leaves
out results that nobody reads any more.

Fairness. `access_buffer_liveness` assumes that a call that has begun keeps running (weak
fairness of its steps; operating-system threads are not suspended forever) and
that inserts keep coming (strong fairness of beginning a drain). Without the
latter events may rightly stay queued. It also assumes that a thread which loads `tail` again and again does not get old values
only (strong fairness of `FreshLoad`): atomic stores become visible to loads in finite time. Without this TLC
finds a drain that is misled forever. Any finite number of stale loads is allowed, and nothing is asked of the loads of `head`. `concurrent_calls` assumes only that a
thread inside a call is not suspended forever; the spinlock gives no
fairness between contenders, and none is assumed: with finitely many calls nobody can be overtaken forever.
The epochs mutex is held for one access and nothing is locked under it, so it cannot be part of a circle and is not a lock in the model.

## 4. What is proved

Everything in this section holds for every value of the constants that the named assumptions admit.

| Theorem (module) | States |
|---|---|
| `RingCorrect`, `TypeCorrect`, `PayloadRaceFree` (`AccessBufferProofs`) | `RingInv`, `TypeOK`, `PayloadExclusive` always hold |
| `BufferImplementsQueue`, `ClearLeavesNothing` (`AccessBufferProofs`) | `ImplementsEventQueue`, `ClearEmpties` |
| `RawTypes`, `RawSlabOwned`, `RawCountExact`, `RawKeysUnique` (`PulseMapRawProofs`) | the four invariants of `raw_structure` |
| `RawImplementsLossyMap`, `RawEvictionsCounted` (`PulseMapRawProofs`) | `ImplementsLossyMap`, `EvictionsCounted` |
| `FuzzNoPanic`, `FuzzImplementsLossyMap`, `FuzzEvictionsCounted` (`PulseMapRawProofs`) | `NoPanic`, `ImplementsLossyMap`, `EvictionsCounted` under the fuzz target's calls |
| `TypedHandleCurrent`, `TypedIterExact` (`PulseMapRawProofs`) | `HandleCurrent`, `IterExact` |
| `SharedHintsCurrent` (`ConcurrentPulseMapProofs`) | `HintsCurrent` |
| `SharedSlabOwned`, `SharedVictimColdest`, `SharedCountAccounts`, `SharedTypes`, `SharedCoherent` (`ConcurrentPulseMapProofs`) | the safety invariants of `concurrent_grow` and `concurrent_evict` |
| `SharedImplementsCache` (`ConcurrentPulseMapRefinement`) | `ImplementsSharedCache` |
| `ShardInvariant` (`ShardedPulseMapProofs`) | `ShardInv`: lock exclusion, bucket occupancy and exact counters of every shard |
| `BytesWordIsRecord`, `BytesSearchesAgree`, `BytesReadsBack`, `BytesLookupExact` (`BucketBytesProofs`) | `WordIsRecord`, `SearchesAgree`, `ReadsBack`, `LookupExact` |
| `ShardedBucketsReachable`, `ShardedLenBracketed`, `ShardedTtlAgreed`, `SoakStatisticsSound` (`ShardedPulseMapProofs`) | `BucketsReachable`, `LenBracketed`, `TtlAgreed`, `StatisticsSound` |

`Arithmetic` (quotients and remainders, powers of two, loops) and `MapLemmas` (what the
operators of `MetaWord`, `SlabPool` and `Slot` return and preserve) hold the lemmas that several proofs cite.

### The access buffer

For any set of threads, any capacity of at least 2 that divides the modulus, any start of the counters, any
requests, any staleness with `Cap + Stale < Modulus`, and a modulus that two bits of slot number divide (`CapAssumption`, `ModulusAssumption`, `CallAssumption`).

`PayloadExclusive` is not inductive: nothing in it says why a producer that passed
the tag check may write. `RingInv` adds what the tags mean. Positions
`taken .. Len(log)-1` are accepted and unclaimed, and their tag tells whether
the payload is published; positions `Len(log) .. taken+Cap-1` are open, and
their tag tells whether the consumer of the previous generation has let go; a
thread that has passed a check may rely on it as long as its counter has not
moved (`Producers`, `Consumers`); no two threads hold the same position
(`Distinct`). The two windows together have `Cap` consecutive positions, hence
different ring slots; that, and that `At` is injective on windows shorter
than `Modulus`, are the arithmetic lemmas (`AtInjective`, `SlotInjective`,
`SlotSteps`). One lemma per action then shows that the invariant is kept, together with the plain
types it needs (`Shapes`; the two are `Protocol`). `NoLap` is used where
a compare-exchange succeeds: it excludes a loaded value that matches again only
because the counter went all the way round.

`TypeCorrect` is stronger than `Shapes`: payloads are words, which is true only because push refuses an event that
would not fit. Beside `QueueInv` (below) its invariant has `WordInv`, that stored and loaded payloads are words, and that a
call's event passed the check or is none; `EncodeFits` says that the encoding of a valid event is below the modulus.

Refinement. The successful exchange of the head is `Accept` (`RingInv` in the next state says that there was room),
that of the tail is `Take`, the callback is `Deliver`, and every other step is a stutter. That reading the payload is one
rests on `Consumers`, which says the word is the encoding of the claimed event, and on
`EncodeDecode`; `QueueInv` adds that only events which passed push's check are under way, so that they do decode to themselves.

`ClearEmpties` needs two more invariants. `Claimed`: an accepted event without a published payload has a producer at
work. `Clearing`: the clearing thread is alone, has loaded the current tail, and has iterations left for the
events that wait, one more while it is between a claim and the end of its iteration. So when its check of the tag
fails there is no event: an unpublished one would have a producer, who would be inside a call.

### The single-threaded map

For any number of buckets and of slots, any ranges of frequency and recency, any hashes, fingerprints, keys, values and
inline limits, and `MaxEpoch < Modulus`: fewer insertions than a 64-bit counter has values (`MetaAssumption`, `RawAssumption`).

`RawInv` joins the four invariants, which need each other: an update frees the slab entry of its old value, which
preserves ownership only if no other slot has that index; the count stays exact only if a
new key takes a slot of its own. It adds `SlotsRight` (an occupied slot holds a pair, or the index of a slab
entry with the fingerprint of that entry's key) and `StampsPast` (no stamp lies in the future; without it the
wrapping difference of epochs would not be the age).

Refinement: the contract's map is read off the slots by `Entry`. An update changes only its key; an
insertion of a new key takes the first slot that is free or expired, and the coldest one only if there is none, so it costs at
most the key of the slot it takes; lookups return what `Entry` says because
a fingerprint match is confirmed by the key and a key has one slot. That a lookup skips an expired entry is
where `StampsPast` is used.

### Clients of the single-threaded map

The same assumptions, and those of the clients: `DummyVal` is a value, the dummy keys are keys, the pairs given to `extend` are
pairs, 0 is a TTL a caller may pass, and `NoValue` is not a value (`FuzzAssumption`, `TypedAssumption`).

Both proofs start from one description of a call in terms of the contract: `Found(k)` is what a lookup of `k` returns now, and each
method either leaves it, sets it for its own key, or makes it nothing for another one (`Kept`).

`NoPanic` is not inductive, since the shadow map appears in it only through the assertion of the moment. `FuzzInv` adds
`ShadowRight`, that an entry in the map has the value the shadow has for its key, so a key the shadow has dropped is absent, and
`StepRight`, which says for each operation made of several calls what the first call has established: a key that was just
removed is absent, a peek's result is what the following get must return. Each step of the target is a step of the map or
leaves it alone, so the map's refinement carries over.

`TypedInv` says what each kind of borrow knows (`BorrowRight`). An occupied handle has the value that `Found`
gives, a vacant one is of a key that is not found or does not decode, and that is kept because nothing else happens while
a handle is out; `and_modify` inserts, which advances the epoch, and re-establishes it for the new value. An iterator at bucket `b`, slot `s` has
yielded exactly the decodable pairs at places before `(b, s)`, without repetition (`Yielded`); `KeysUnique` makes
places and pairs correspond, and lookups beside it change priorities only.

### The concurrent map

For any finite set of threads, any sets of keys, values and calls, any initial power of two of buckets, growing automatically or
not, any buffer capacity and batch, and fewer calls than the epoch has values (`SharedAssumption`, `MetaAssumption`).
The proof is in three layers, each of which uses the previous one as an invariant.

1. `ControlInv`, the lock discipline: the number of buckets is a power of two (`Size`); which call is at which step
   (`CallsRight`); a bucket's lock is held exactly by the thread whose step is inside that bucket's critical section, and
   the readers of the table are exactly the threads between entering and leaving (`Locked`); queued hits name places of the present
   layout (`Hinted`). `Hinted` survives a resize because the writer waits for all readers and clears the buffer
   first. It gives `HintsCurrent`.
2. `TableInv`, the contents. Between an insertion's match and its write a slot may be marked full while its slab
   entry has already been freed, so neither `SlabOwned` nor uniqueness of keys holds of all occupied slots. The invariant
   speaks of the `Settled` ones, the occupied slots that no thread has given up: each slab index belongs to one of
   them or is free, each is filed under the bucket and fingerprint of its key (`Filed`), no two have the same key
   (`KeysApart`), and what a thread found under its bucket lock is still there (`ThreadRight`). The resize step
   is the long part: entries keep their order within a new bucket, so places by rank are distinct, and a bucket of the
   larger table gets entries of one old bucket only, because the new size is a multiple of the old one (`Filed` and `Size`); so
   no bucket overflows and the retry is never taken. From `TableInv` follow `SlabOwned`, `VictimColdest` and the
   rest of `TypeOK`. `CountInv` relates the counter to the occupied slots and the threads between a change
   of a slot and its count. `StoreRight` says that outside the critical section of a
   commit the slots of a bucket show the history variable `store`; it gives `Coherent`.
3. `CallInv` and the refinement. `Seen(t)` is what the contract sees of a call. An insertion takes effect at its stamp,
   a removal at its tombstone, a lookup when it finds nothing or decides on the age; a tick, a loaded lifetime, `set_ttl` and a growing resize are steps
   of the contract too, and all other steps are stutters. `CallInv` carries what these need from one
   step to the next: ticks never outnumber calls (`TicksCounted`) and stamps lie in the past, so the
   wrapping difference is the age; a resize decided on earlier figures asks for at most twice the present
   size (`WantedSize`); a call has no result before its end (`Unanswered`); and between the choice of a slot
   and the stamp the entries that will be lost are ones the contract lets the insertion evict, the others
   being as recorded (`Pending`).

What the proof uses of the access buffer is `EventQueue`, which `BufferImplementsQueue` shows the ring to implement.

### The sharded map and the soak test

For any number of shards and any widths of the hash fields that are powers of two (`HashAssumption`), any finite set of keys with any hashes,
any number of slots, an initial power of two of buckets, automatic growth or not (`ShardedAssumption`), and any set of threads whose
calls are well formed; that no worker inserts the sentinel is the one thing asked of the workload, and the example's workers keep
to it (`SoakAssumption`).

`ShardInv` has four parts. `LocksRight`: two threads inside critical sections of the same shard work on keys of different buckets.
`MatesRight`: no bucket holds more entries than it has slots. `CountsRight`: the counter of a shard equals the
number of its keys in `Counted`, the keys that are present and not waiting to be counted, or removed and not yet subtracted.
`ShardTypes` adds which call is at which stage. They need each other: an insertion that evicts changes `Counted` by a swap
only because the lock keeps the victim's own count settled, and a resize may set the counter to the number of entries only because nobody is
between a write and its count while the table is locked. Every action is first shown to be of one of eight kinds by what it does to entries,
sizes and counters (a quiet step, a find, a judgement, a write, a count, a removal, its subtraction, a
growth), and the invariant is shown for the kinds.

- `BucketsReachable` is arithmetic on top: for a power of two of buckets up to `BucketBits`, and any bucket, shard and fingerprint,
  a hash with these fields is put together (`Assembled`). Beyond `BucketBits` (2^53 buckets per shard in the code) the hash has no
  bits left to tell buckets apart and the property is false, so the theorem has the hypothesis `Addressable`. Automatic
  growth doubles a table that is three quarters full, so it would take about 2^54 entries in one shard to leave that range.
- `LenBracketed` and `TtlAgreed` rest on `WindowsRight`: while a `len` is at shard `s`, what it has summed is between the keys
  of earlier shards counted throughout and those counted at some time; while a `set_ttl` that is alone so far is at `s`, the shards before `s`
  have its value.
- `StatisticsSound` relates samples taken at different times. `MonRight` says, for each place of the main thread, what
  its samples mean by then: the `len` sampled is at most the capacity now, since every shard's
  counter is at most its slots when it is read (`CountFits`, by counting entries per bucket) and sizes only grow (`Onward`); the last
  `eviction_count` is at most the present sum; the sentinel, if present, has the value of the current round. Sums over shards are the
  cardinalities of sets of pairs (`Cells`), which gives their monotonicity without induction over the shards.

### The bytes of a bucket

For any number of slots and threads; any widths of fingerprint, frequency and recency, with as many lanes as
slots at least (`MetaAssumption`, `PackedAssumption`); bytes of any width (`CodecAssumption`), with lengths, key and value areas in the proportions of
the code (`SlotAssumption`); any types and any well-typed samples of them, and any hash whose fields fit (`BytesAssumption`, which
also asks that a slab index has room for as many entries as the bucket has slots, and that the bytes of a pair are fewer than
`U32Size`, 2^32 in the code).

- The word. `Stands(w, m)` says that `w` is a natural number whose every field is that of the record `m`. Writing a field changes
  that field and no other (`FieldWritten`), because fields do not overlap (`Places`): a field above is not changed
  by a difference below it (`BitsAbove`), nor one below by a multiple of a higher power (`BitsUnder`). Hence every setter keeps
  `Stands`. `on_access` is a loop over the slots; after `n` rounds the word stands for the record `Visited(m, s, n)`, in which
  the slots below `n` have decayed, and after the last that is `OnAccess`. That the compare-exchange succeeds only on
  the word it was computed from makes the concurrent calls serial. `WordInv` gives `WordIsRecord`; `SearchesAgree`
  follows, the victim again by a loop: the best of the slots below `n` (`Coldest`).
- The conversions. After `n` bytes `from_le_bytes` has summed the number modulo `Limit(n)` (`LittleEndian`); two's complement and the
  other kinds add case distinctions (`RoundTrip`). What can be decoded is encoded injectively, which is why equal key bytes mean equal
  keys.
- Slots and buffers. The header's fields are recovered (`InlineHeader`), then each stretch of bytes, by comparing it byte by byte with
  what was copied there (`InlineRead`, `SlabRead`). A reused buffer holds its new pair whatever is behind it
  (`RewriteHolds`); lengths and capacity are not cut because the pair is below the limit (`U32Is`).
- The bucket. `ReadsBack` is not inductive: it does not say that freeing or reusing one slot's entry leaves the others alone, nor
  that the index fits its bytes. `ByteInv` adds `PoolRight`: every entry of the pool has exactly one owner or is free once. When nothing is
  free and a slot needs an entry, the entries have distinct owners among the other slots, so the pool is smaller than
  the bucket (`PoolBound`), and no index is truncated.

The recursive functions are shown to exist without an induction principle for data: the least number of rounds for which a loop has no run would not be the
least (`LoopRuns`), and each loop's meaning is shown the same way.

### Only model-checked

- Liveness and deadlock (`EventuallyDrained`, `CallsReturn`): outside what the prover can do.
- `TtlSameAcrossShards`, which does not hold: the run `sharded_ttl` gives the counterexample.

## 5. Not modelled

- The hash function and `str::from_utf8`: third-party and standard library, represented by what
  their callers use.
- Allocation and release of memory (`Drop` of the slab pool, the `Box` and `Vec` of buckets), and lock poisoning
  after a panic: no state of the maps depends on them.
- Pairs of 2^32 bytes and more in the slab. `alloc` and `rewrite` cast lengths and capacity to `u32`, so such a
  pair would not be read back; the model has the casts, and `BytesAssumption` excludes those pairs.
- The wrap of the epoch counter: `MaxEpoch < Modulus` says that fewer insertions happen than a `u64` counts. The wrapping difference
  of the expiry check is modelled, its values are reached up to the TTLs' boundaries only.
- `Debug` and `Display`: formatting of statistics. The number of buckets `From<HashMap>` computes: a constant here.
- The soak test's resident-size check, clock, command line and report; the other examples, benches,
  the evaluation and the qemu test: they measure time, memory and hit ratios.
- The composition of the byte-level bucket with the concurrent map. The record of
  `MetaWord` and the slots of `Slot` stand between them: `WordIsRecord`, `ReadsBack` and `LookupExact` are what
  the maps assume of a bucket.

## 6. Plan

1. Done: `AccessBuffer` with proofs, `PulseMapRaw`, `ConcurrentPulseMap` and their contracts.
2. Done: sharding, the typed layer, iterators, the byte level, and the two clients that test the
   maps from outside.
3. Done: the access buffer, the single-threaded map and the concurrent map: their safety invariants and that they
   implement their contracts.
4. Done: the clients of the single-threaded map, the sharded map and the soak test: every safety property that
   their runs check.
5. Done: the byte level, for all widths. Every safety property that a passing run checks is now a theorem.
6. Left: refinement of the maps' `Slot` and `MetaWord` by the bytes as one composed
   specification, so that section 5's last item becomes a theorem as well.
