------------------------- MODULE ConcurrentPulseMap -------------------------
(***************************************************************************)
(* The thread-safe map of src/sync.rs.  A call runs in steps; a step makes *)
(* one access to state that other threads can change at that moment: an    *)
(* atomic counter, the event queue, the slab pool behind its mutex, a lock.*)
(* What a thread does to its bucket under the bucket's lock joins the next *)
(* such access, and releasing locks joins the last.                        *)
(*                                                                         *)
(* A bucket is locked by a spinlock; the table by a read-write lock that   *)
(* resize takes for writing, so that a resize is one step.  The epochs     *)
(* mutex is held for one access only; the slab mutex also only for one     *)
(* access, except by peek, which keeps it while it checks for expiry.      *)
(* Hits travel through the queue that module EventQueue describes and      *)
(* AccessBuffer implements.                                                *)
(***************************************************************************)
EXTENDS MetaWord, Slot, FiniteSets

CONSTANTS Threads, NoThread,
          Hash, H2,        \* hash bits of each key
          StartBuckets,    \* a power of two
          AutoResize,      \* with_auto_resize or new
          Calls,           \* the calls that threads make
          Undecodable,     \* values whose bytes V::from_bytes refuses
          Modulus,         \* 2^64: epochs and TTLs are u64 values
          BufferCap,       \* 4096: capacity of the access buffer
          DrainBatch,      \* 64: events an insert applies at most
          MaxDoublings,    \* bound on the retries of one resize
          MaxCalls,        \* bound on the number of calls
          NoEntry, NoValue

ASSUME SharedAssumption ==
    /\ \E i \in 0 .. StartBuckets : StartBuckets = 2^i
    /\ AutoResize \in BOOLEAN
    /\ \A k \in Keys : Hash[k] \in Nat /\ H2[k] \in Nat
    /\ {BufferCap, DrainBatch, MaxDoublings, MaxCalls, Modulus} \subseteq Nat
    /\ MaxCalls < Modulus
    /\ IsFiniteSet(Threads) /\ NoThread \notin Threads
    /\ NoEntry \notin [val : Values, epoch : Nat, ttl : Nat]
    /\ \A c \in Calls :
          /\ c.op \in {"insert", "get", "peek", "remove", "set_ttl", "resize"}
          /\ c.op \notin {"set_ttl", "resize"} => c.key \in Keys
          /\ c.op = "insert" => c.val \in Values
          /\ c.n \in 0 .. (Modulus - 1)

VARIABLES num_buckets, meta, slots, epochs,     \* MapInner
          locks,           \* holder of every bucket's spinlock
          readers,         \* threads that hold the table for reading
          slab_pool, slab_holder,
          count, eviction_count, current_epoch, default_ttl,
          buffer, hand,    \* queued hits, and the one each thread applies
          pc, call,        \* next step and arguments of each thread's call
          slot, how,       \* where an insertion writes, and why there
          seen,            \* a loaded value: the lifetime, or the size wanted
          left,            \* events a thread may still drain
          res,             \* result of each thread's last call
          made,            \* number of calls begun
          store            \* history: the entries as of the last commits

table    == <<num_buckets, meta, slots, epochs, slab_pool>>
counters == <<count, eviction_count, current_epoch, default_ttl>>
guards   == <<locks, readers, slab_holder>>
hints    == <<buffer, hand>>
frame    == <<call, made>>
vars == <<table, counters, guards, hints, frame, pc, slot, how, seen, left, res, store>>

Hints == INSTANCE EventQueue
    WITH queue <- buffer, Capacity <- BufferCap, Events <- Nat \X Nat \X Nat

BucketIds   == 0 .. (num_buckets - 1)
Index(k, n) == Hash[k] % n
Bucket(k)   == Index(k, num_buckets)
Home(t)     == Bucket(call[t].key)
Never       == Modulus - 1    \* u64::MAX
-----------------------------------------------------------------------------
NoCall == [op |-> "none", key |-> NoValue, val |-> NoValue, n |-> 0]

Init ==
    /\ num_buckets = StartBuckets
    /\ meta = [b \in BucketIds |-> EmptyMeta]
    /\ slots = [b \in BucketIds |-> [s \in SlotIds |-> EmptySlot]]
    /\ epochs = [b \in BucketIds |-> [s \in SlotIds |-> [epoch |-> 0, ttl |-> 0]]]
    /\ locks = [b \in BucketIds |-> NoThread]
    /\ readers = {}
    /\ slab_pool = NewPool /\ slab_holder = NoThread
    /\ count = 0 /\ eviction_count = 0 /\ current_epoch = 0 /\ default_ttl = 0
    /\ Hints!Init
    /\ pc = [t \in Threads |-> "idle"]
    /\ call = [t \in Threads |-> NoCall]
    /\ slot = [t \in Threads |-> 0]
    /\ how = [t \in Threads |-> "none"]
    /\ seen = [t \in Threads |-> 0]
    /\ left = [t \in Threads |-> 0]
    /\ res = [t \in Threads |-> NoValue]
    /\ made = 0
    /\ store = [k \in Keys |-> NoEntry]

Goto(t, l) == pc' = [pc EXCEPT ![t] = l]
Op(t)      == call[t].op

(* The guards of a call on bucket b are dropped, in one step with the last *)
(* access; scratch registers are reset.                                    *)
Leave(t) ==
    /\ Goto(t, "idle")
    /\ locks' = [locks EXCEPT ![Home(t)] = NoThread]
    /\ readers' = readers \ {t}
    /\ slab_holder' = IF slab_holder = t THEN NoThread ELSE slab_holder
    /\ slot' = [slot EXCEPT ![t] = 0]
    /\ how' = [how EXCEPT ![t] = "none"]
    /\ seen' = [seen EXCEPT ![t] = 0]
    /\ left' = [left EXCEPT ![t] = 0]

registers == <<slot, how, seen, left, res>>

Begin(t, c) ==
    /\ pc[t] = "idle" /\ made < MaxCalls
    /\ made' = made + 1
    /\ call' = [call EXCEPT ![t] = c]
    /\ Goto(t, CASE c.op = "insert"  -> IF AutoResize THEN "check" ELSE "tick"
                 [] c.op = "set_ttl" -> "set_ttl"
                 [] c.op = "resize"  -> "grow"
                 [] OTHER -> "enter")
    /\ seen' = [seen EXCEPT ![t] = IF c.op = "resize" THEN c.n ELSE 0]
    /\ res' = [res EXCEPT ![t] = NoValue]
    /\ UNCHANGED <<table, counters, guards, hints, slot, how, left, store>>

SetTtl(t) ==
    /\ pc[t] = "set_ttl"
    /\ default_ttl' = call[t].n
    /\ Goto(t, "idle")
    /\ UNCHANGED <<table, count, eviction_count, current_epoch, guards, hints,
                   frame, registers, store>>
-----------------------------------------------------------------------------
(* Resize.  Occupied slots are visited bucket by bucket and slot by slot;  *)
(* each entry goes to the first free slot of its new bucket, so an entry's *)
(* rank among those with the same new bucket is its new slot.              *)
Occupied == {p \in BucketIds \X SlotIds : p[2] \in FullSlots(meta[p[1]])}
Before(p, q) == p[1] < q[1] \/ (p[1] = q[1] /\ p[2] < q[2])
Rank(p, S)   == Cardinality({q \in S : Before(q, p)})
KeyAt(p)     == SlotKey(slots[p[1]][p[2]], slab_pool)
ValueAt(p)   == SlotValue(slots[p[1]][p[2]], slab_pool)

(* Variant: growth takes the bucket from the next higher hash bits.        *)
MovesToShifted(n, b) == {p \in Occupied : (Hash[KeyAt(p)] \div 2) % n = b}

MovesTo(n, b) == {p \in Occupied : Index(KeyAt(p), n) = b}
Moved(n, b, s) == {p \in MovesTo(n, b) : Rank(p, MovesTo(n, b)) = s}
The(S) == CHOOSE p \in S : TRUE

(* The table with n buckets; slab entries are allocated in a new pool.     *)
Rehashed(n) ==
    LET ids     == 0 .. (n - 1)
        spilled == {p \in Occupied : ~Fits(KeyAt(p), ValueAt(p))}
        from(b, s) == Moved(n, b, s)
        place(p) == IF Fits(KeyAt(p), ValueAt(p)) THEN InlineSlot(KeyAt(p), ValueAt(p))
                    ELSE SlabSlot(KeyAt(p), Rank(p, spilled) + 1)
        word(b)  ==
          [state |-> [s \in SlotIds |-> IF from(b, s) = {} THEN "Empty" ELSE "Full"],
           h2 |-> [s \in SlotIds |-> IF from(b, s) = {} THEN 0 ELSE H2[KeyAt(The(from(b, s)))]],
           freq |-> [s \in SlotIds |-> 0],
           recency |-> [s \in SlotIds |-> IF from(b, s) = {} THEN 0 ELSE 1]]
    IN  [meta |-> [b \in ids |-> word(b)],
         slots |-> [b \in ids |-> [s \in SlotIds |->
                      IF from(b, s) = {} THEN EmptySlot ELSE place(The(from(b, s)))]],
         epochs |-> [b \in ids |-> [s \in SlotIds |->
                       IF from(b, s) = {} THEN [epoch |-> 0, ttl |-> 0]
                       ELSE LET p == The(from(b, s)) IN epochs[p[1]][p[2]]]],
         pool |-> [entries |-> [i \in 1 .. Cardinality(spilled) |->
                                  LET p == The({q \in spilled : Rank(q, spilled) = i - 1})
                                  IN  [key |-> KeyAt(p), val |-> ValueAt(p)]],
                   free |-> <<>>]]

(* A bucket that overflows makes resize start over with twice the size.    *)
FitsIn(n)  == \A b \in 0 .. (n - 1) : Cardinality(MovesTo(n, b)) <= SlotsPerBucket
NewSize(n) == LET sizes == {m \in {n * 2^i : i \in 0 .. MaxDoublings} : FitsIn(m)}
              IN  {m \in sizes : \A j \in sizes : m <= j}

(* max(1).next_power_of_two()                                              *)
PowerOfTwo(n) == CHOOSE p \in {2^i : i \in 0 .. n} :
                    p >= n /\ \A i \in 0 .. n : 2^i >= n => p <= 2^i

AfterGrow(t) == /\ Goto(t, IF Op(t) = "insert" THEN "tick" ELSE "idle")
                /\ seen' = [seen EXCEPT ![t] = 0]

(* Variant: resize does not look at the size it finds under the lock.      *)
NeverGrown(t) == FALSE

(* Another thread may have resized in the meantime.                        *)
AlreadyGrown(t) == num_buckets >= PowerOfTwo(seen[t])

GrowSkip(t) ==
    /\ pc[t] = "grow" /\ readers = {}
    /\ AlreadyGrown(t)
    /\ AfterGrow(t)
    /\ UNCHANGED <<table, counters, guards, hints, frame, slot, how, left, res, store>>

(* Variant: the access buffer is not cleared.                              *)
NotCleared == buffer

(* access_buffer.clear(), under the write lock.                            *)
Cleared == <<>>

(* The queued hits name places of the old layout and are discarded.        *)
Grow(t) ==
    /\ pc[t] = "grow" /\ readers = {}
    /\ ~AlreadyGrown(t)
    /\ \E n \in NewSize(PowerOfTwo(seen[t])) :
          LET new == Rehashed(n) IN
          /\ num_buckets' = n
          /\ meta' = new.meta /\ slots' = new.slots
          /\ epochs' = new.epochs /\ slab_pool' = new.pool
          /\ locks' = [b \in 0 .. (n - 1) |-> NoThread]
    /\ buffer' = Cleared
    /\ count' = Cardinality(Occupied)
    /\ AfterGrow(t)
    /\ UNCHANGED <<eviction_count, current_epoch, default_ttl, readers,
                   slab_holder, hand, frame, slot, how, left, res, store>>
-----------------------------------------------------------------------------
(* insert_internal.  An automatic map first compares the load with 3/4;    *)
(* the size it saw may be out of date when it calls resize.                *)
CheckLoad(t) ==
    /\ pc[t] = "check"
    /\ IF 4 * count > 3 * num_buckets * SlotsPerBucket
       THEN Goto(t, "grow") /\ seen' = [seen EXCEPT ![t] = 2 * num_buckets]
       ELSE Goto(t, "tick") /\ UNCHANGED seen
    /\ UNCHANGED <<table, counters, guards, hints, frame, slot, how, left, res, store>>

Tick(t) ==
    /\ pc[t] = "tick"
    /\ current_epoch' = current_epoch + 1
    /\ Goto(t, "enter")
    /\ UNCHANGED <<table, count, eviction_count, default_ttl, guards, hints,
                   frame, registers, store>>

(* inner.read(): a resize is one step, so a reader never finds a writer.   *)
Enter(t) ==
    /\ pc[t] = "enter"
    /\ readers' = readers \cup {t}
    /\ IF Op(t) = "insert"
       THEN Goto(t, "drain") /\ left' = [left EXCEPT ![t] = DrainBatch]
       ELSE Goto(t, "lock") /\ UNCHANGED left
    /\ UNCHANGED <<table, counters, locks, slab_holder, hints, frame,
                   slot, how, seen, res, store>>

(* drain: pop may refuse at any time, when it is contended.                *)
DrainTake(t) ==
    /\ pc[t] = "drain" /\ left[t] > 0
    /\ Hints!Take(t)
    /\ Goto(t, "apply")
    /\ UNCHANGED <<table, counters, guards, frame, registers, store>>

DrainEnd(t) ==
    /\ pc[t] = "drain"
    /\ Goto(t, "lock")
    /\ left' = [left EXCEPT ![t] = 0]
    /\ UNCHANGED <<table, counters, guards, hints, frame, slot, how, seen, res, store>>

(* Variants: the hit is applied without the target bucket's lock; its      *)
(* guard outlives the callback.                                            *)
TargetUnguarded(t, b) == UNCHANGED locks
TargetGuardKept(t, b) == /\ locks[b] = NoThread
                         /\ locks' = [locks EXCEPT ![b] = t]

(* The callback's guard: taken and dropped around on_access.               *)
TargetGuard(t, b) == locks[b] = NoThread /\ UNCHANGED locks

(* The callback of drain: the hit is applied to its target.                *)
Apply(t) ==
    /\ pc[t] = "apply"
    /\ LET e == hand[t][1]
       IN  /\ TargetGuard(t, e[1])
           /\ meta' = [meta EXCEPT ![e[1]] = OnAccess(@, e[2])]
    /\ Hints!Deliver(t)
    /\ left' = [left EXCEPT ![t] = @ - 1]
    /\ Goto(t, "drain")
    /\ UNCHANGED <<num_buckets, slots, epochs, slab_pool, counters, readers,
                   slab_holder, frame, slot, how, seen, res, store>>

(* BucketGuard::new on the bucket of the call's key.                       *)
Acquire(t) ==
    /\ pc[t] = "lock"
    /\ locks[Home(t)] = NoThread
    /\ locks' = [locks EXCEPT ![Home(t)] = t]
    /\ Goto(t, "match")
    /\ UNCHANGED <<table, counters, readers, slab_holder, hints, frame, registers, store>>

(* The slot of bucket b that holds key k, as a set.                        *)
SlotOf(b, k) == First({s \in MatchMask(meta[b], H2[k]) :
                          MatchesKey(slots[b][s], k, slab_pool)})
Found(t) == SlotOf(Home(t), call[t].key)

(* A step that needs the slab mutex waits for its holder.                  *)
SlabFree       == slab_holder = NoThread
Candidates(t)  == MatchMask(meta[Home(t)], H2[call[t].key])
MatchGuard(t)  == Candidates(t) # {} => SlabFree

(* The slot an insertion writes to: the key's own, a free one, or the      *)
(* policy's victim.  Slab contents of the slot are freed at once.          *)
Target(t) ==
    LET m == meta[Home(t)] IN
    CASE Found(t) # {}        -> <<"update", Found(t)>>
      [] Found(t) = {} /\ FindFreeSlot(m) # {} -> <<"fresh", FindFreeSlot(m)>>
      [] OTHER                -> <<"evict", FindEvictTarget(m)>>

InsertMatch(t) ==
    /\ pc[t] = "match" /\ Op(t) = "insert"
    /\ MatchGuard(t)
    /\ how' = [how EXCEPT ![t] = Target(t)[1]]
    /\ \E s \in Target(t)[2] :
          LET old == slots[Home(t)][s] IN
          /\ slot' = [slot EXCEPT ![t] = s]
          /\ IF Target(t)[1] = "fresh" THEN UNCHANGED slab_pool
             ELSE /\ old.mode = 1 => SlabFree
                  /\ slab_pool' = Release(slab_pool, old)
    /\ eviction_count' = eviction_count + (IF Target(t)[1] = "evict" THEN 1 ELSE 0)
    /\ Goto(t, "write")
    /\ UNCHANGED <<num_buckets, meta, slots, epochs, count, current_epoch,
                   default_ttl, guards, hints, frame, seen, left, res, store>>

(* Variant: an overwritten slab slot keeps its index and takes it off the  *)
(* free list again, as if nobody had allocated since it was freed.         *)
WriteInPlace(t) ==
    /\ pc[t] = "write"
    /\ LET b == Home(t)
           s == slot[t]
           k == call[t].key
           v == call[t].val
           i == slots[b][s].idx
           reuses == how[t] # "fresh" /\ slots[b][s].mode = 1 /\ ~Fits(k, v)
       IN  /\ ~Fits(k, v) => SlabFree
           /\ slots' = [slots EXCEPT ![b][s] =
                 IF reuses THEN SlabSlot(k, i) ELSE WrittenSlot(slab_pool, k, v)]
           /\ slab_pool' =
                 IF reuses
                 THEN [entries |-> [slab_pool.entries EXCEPT ![i] = [key |-> k, val |-> v]],
                       free |-> SelectSeq(slab_pool.free, LAMBDA j : j # i)]
                 ELSE PoolAfterWrite(slab_pool, k, v)
           /\ meta' = [meta EXCEPT ![b] =
                 IF how[t] = "update" THEN OnAccess(@, s)
                 ELSE OnInsert(SetH2(SetState(@, s, "Full"), s, H2[k]), s)]
    /\ Goto(t, "stamp")
    /\ UNCHANGED <<num_buckets, epochs, counters, guards, hints, frame, registers, store>>

(* The pair is written, in the slot or in a slab entry, and the metadata   *)
(* word is updated: a hit for an update, a new occupant otherwise.         *)
Write(t) ==
    /\ pc[t] = "write"
    /\ LET b == Home(t)
           s == slot[t]
           k == call[t].key
           v == call[t].val
       IN  /\ ~Fits(k, v) => SlabFree
           /\ slots' = [slots EXCEPT ![b][s] = WrittenSlot(slab_pool, k, v)]
           /\ slab_pool' = PoolAfterWrite(slab_pool, k, v)
           /\ meta' = [meta EXCEPT ![b] =
                 IF how[t] = "update" THEN OnAccess(@, s)
                 ELSE OnInsert(SetH2(SetState(@, s, "Full"), s, H2[k]), s)]
    /\ Goto(t, "stamp")
    /\ UNCHANGED <<num_buckets, epochs, counters, guards, hints, frame, registers, store>>

(* The entry that a lookup of k would find in bucket b.                    *)
EntryIn(b, k) ==
    LET found == SlotOf(b, k)
        s     == The(found)
    IN  IF found = {} THEN NoEntry
        ELSE [val |-> SlotValue(slots[b][s], slab_pool),
              epoch |-> epochs[b][s].epoch, ttl |-> epochs[b][s].ttl]

(* History: the bucket of the call becomes visible as it is after the step. *)
Commit(t) == store' = [k \in Keys |-> IF Bucket(k) = Home(t) THEN EntryIn(Home(t), k)'
                                      ELSE store[k]]

(* stamp_epoch: later insertions may have advanced the epoch meanwhile.    *)
Stamp(t) ==
    /\ pc[t] = "stamp"
    /\ epochs' = [epochs EXCEPT ![Home(t)][slot[t]] =
                     [epoch |-> current_epoch, ttl |-> call[t].n]]
    /\ Goto(t, "settle")
    /\ UNCHANGED <<num_buckets, meta, slots, slab_pool, counters, guards, hints,
                   frame, registers>>
    /\ Commit(t)

(* Variant: an insertion that overwrites a slot is counted too.            *)
CountsAny(t) == 1

(* Only a slot that was free adds to the count.                            *)
Counts(t) == IF how[t] = "fresh" THEN 1 ELSE 0

InsertEnd(t) ==
    /\ pc[t] = "settle"
    /\ count' = count + Counts(t)
    /\ Leave(t)
    /\ UNCHANGED <<table, eviction_count, current_epoch, default_ttl, hints,
                   frame, res, store>>
-----------------------------------------------------------------------------
(* get and peek.  peek takes the slab mutex for every candidate; get only  *)
(* for candidates in slab mode with the right fingerprint.                 *)
LookupGuard(t) ==
    LET visited == {s \in Candidates(t) : \A f \in Found(t) : s <= f}
        old(s)  == slots[Home(t)][s]
    IN  \/ SlabFree
        \/ Op(t) = "peek" /\ Candidates(t) = {}
        \/ Op(t) = "get" /\ \A s \in visited :
                               old(s).mode = 1 => old(s).fp # ExtFp[call[t].key]

LookupMiss(t) ==
    /\ pc[t] = "match" /\ Op(t) \in {"get", "peek"}
    /\ LookupGuard(t)
    /\ Found(t) = {}
    /\ Leave(t)
    /\ UNCHANGED <<table, counters, hints, frame, res, store>>

(* is_expired, first half: the entry's lifetime, from the default if it    *)
(* has none of its own.                                                    *)
LookupFound(t) ==
    /\ pc[t] = "match" /\ Op(t) \in {"get", "peek"}
    /\ LookupGuard(t)
    /\ \E s \in Found(t) :
          LET own == epochs[Home(t)][s].ttl IN
          /\ slot' = [slot EXCEPT ![t] = s]
          /\ seen' = [seen EXCEPT ![t] = IF own = 0 THEN default_ttl ELSE own]
    /\ slab_holder' = IF Op(t) = "peek" THEN t ELSE slab_holder
    /\ Goto(t, "age")
    /\ UNCHANGED <<table, counters, locks, readers, hints, frame, how, left, res, store>>

(* is_expired, second half: the age at the epoch loaded now, wrapping.     *)
Expired(life, epoch, now) ==
    life \notin {0, Never} /\ (now + Modulus - epoch) % Modulus > life

Aged(t) == Expired(seen[t], epochs[Home(t)][slot[t]].epoch, current_epoch)

LookupExpired(t) ==
    /\ pc[t] = "age" /\ Aged(t)
    /\ Leave(t)
    /\ UNCHANGED <<table, counters, hints, frame, res, store>>

Value(t) == ValueAt(<<Home(t), slot[t]>>)

(* V::from_bytes: a custom type may refuse the bytes it finds.             *)
Decoded(v) == IF v \in Undecodable THEN NoValue ELSE v

PeekLive(t) ==
    /\ pc[t] = "age" /\ Op(t) = "peek" /\ ~Aged(t)
    /\ res' = [res EXCEPT ![t] = Decoded(Value(t))]
    /\ Leave(t)
    /\ UNCHANGED <<table, counters, hints, frame, store>>

GetLive(t) ==
    /\ pc[t] = "age" /\ Op(t) = "get" /\ ~Aged(t)
    /\ Goto(t, "push")
    /\ UNCHANGED <<table, counters, guards, hints, frame, registers, store>>

(* The hit is recorded, with the layout it refers to, or dropped.          *)
GetPush(t) ==
    /\ pc[t] = "push"
    /\ \/ Hints!Accept(<<Home(t), slot[t], num_buckets>>)
       \/ UNCHANGED hints
    /\ Goto(t, "copy")
    /\ UNCHANGED <<table, counters, guards, frame, registers, store>>

GetCopy(t) ==
    /\ pc[t] = "copy"
    /\ slots[Home(t)][slot[t]].mode = 1 => SlabFree
    /\ res' = [res EXCEPT ![t] = Decoded(Value(t))]
    /\ Leave(t)
    /\ UNCHANGED <<table, counters, hints, frame, store>>
-----------------------------------------------------------------------------
(* remove: the slab entry is freed, the slot becomes a tombstone, and the  *)
(* key is uncounted before the guards are dropped.                         *)
RemoveFound(t) ==
    /\ pc[t] = "match" /\ Op(t) = "remove"
    /\ MatchGuard(t)
    /\ \E s \in Found(t) :
          LET b == Home(t) IN
          /\ slab_pool' = Release(slab_pool, slots[b][s])
          /\ meta' = [meta EXCEPT ![b] = SetState(@, s, "Tombstone")]
          /\ slots' = [slots EXCEPT ![b][s] = EmptySlot]
    /\ res' = [res EXCEPT ![t] = TRUE]
    /\ Goto(t, "uncount")
    /\ UNCHANGED <<num_buckets, epochs, counters, guards, hints, frame,
                   slot, how, seen, left>>
    /\ Commit(t)

RemoveEnd(t) ==
    /\ pc[t] = "uncount"
    /\ count' = count - 1
    /\ Leave(t)
    /\ UNCHANGED <<table, eviction_count, current_epoch, default_ttl, hints,
                   frame, res, store>>

RemoveMissing(t) ==
    /\ pc[t] = "match" /\ Op(t) = "remove"
    /\ MatchGuard(t)
    /\ Found(t) = {}
    /\ res' = [res EXCEPT ![t] = FALSE]
    /\ Leave(t)
    /\ UNCHANGED <<table, counters, hints, frame, store>>
-----------------------------------------------------------------------------
Insert(t) == CheckLoad(t) \/ Tick(t) \/ DrainTake(t) \/ DrainEnd(t) \/ Apply(t)
                \/ InsertMatch(t) \/ Write(t) \/ Stamp(t) \/ InsertEnd(t)
Lookup(t) == LookupMiss(t) \/ LookupFound(t) \/ LookupExpired(t) \/ PeekLive(t)
                \/ GetLive(t) \/ GetPush(t) \/ GetCopy(t)
Remove(t) == RemoveFound(t) \/ RemoveEnd(t) \/ RemoveMissing(t)

Step(t) == Enter(t) \/ Acquire(t) \/ Insert(t) \/ Lookup(t) \/ Remove(t)
              \/ SetTtl(t) \/ GrowSkip(t) \/ Grow(t)

(* The calls of this instance are used up and all have returned.           *)
Finished == /\ made = MaxCalls /\ \A t \in Threads : pc[t] = "idle"
            /\ UNCHANGED vars

Next == \/ \E t \in Threads : Step(t) \/ \E c \in Calls : Begin(t, c)
        \/ Finished

Spec == Init /\ [][Next]_vars

(* A thread inside a call is not suspended forever.                        *)
FairSpec == Spec /\ \A t \in Threads : WF_vars(Step(t))
-----------------------------------------------------------------------------
Labels == {"idle", "check", "grow", "tick", "enter", "drain", "apply", "lock",
           "match", "write", "stamp", "settle", "age", "push", "copy",
           "uncount", "set_ttl"}

(* Every variable has its type; metadata fields fit their bits and len()   *)
(* never goes below zero.                                                  *)
TypeOK ==
    /\ \E i \in 0 .. num_buckets : num_buckets = 2^i
    /\ meta \in [BucketIds -> MetaWords(Nat)]
    /\ slots \in [BucketIds -> [SlotIds -> SlotTypes]]
    /\ epochs \in [BucketIds -> [SlotIds -> [epoch : Nat, ttl : Nat]]]
    /\ locks \in [BucketIds -> Threads \cup {NoThread}]
    /\ readers \subseteq Threads
    /\ slab_pool \in [entries : Seq([key : Keys, val : Values]), free : Seq(Nat)]
    /\ slab_holder \in Threads \cup {NoThread}
    /\ <<count, eviction_count, current_epoch, default_ttl>> \in Nat \X Nat \X Nat \X Nat
    /\ buffer \in Seq(BucketIds \X SlotIds \X Nat)
    /\ pc \in [Threads -> Labels]
    /\ slot \in [Threads -> SlotIds]
    /\ how \in [Threads -> {"none", "update", "fresh", "evict"}]
    /\ seen \in [Threads -> Nat] /\ left \in [Threads -> Nat]
    /\ made \in 0 .. MaxCalls

(* A bucket in the middle of an insertion, between freeing and stamping.   *)
Torn(b) == \E t \in Threads : locks[b] = t /\ pc[t] \in {"write", "stamp"}

(* Outside the middle of an insertion every bucket holds exactly what was  *)
(* last committed to it: slab indices freed and reused by other threads,   *)
(* drained hits, rehashes and stale resize decisions never change, lose or *)
(* duplicate an entry of a bucket they do not hold (sync.rs, insert,       *)
(* remove and resize).                                                     *)
Coherent ==
    \A b \in BucketIds : ~Torn(b) =>
        /\ \A k \in Keys : Bucket(k) = b => EntryIn(b, k) = store[k]
        /\ \A s \in FullSlots(meta[b]) : SlotOf(b, KeyAt(<<b, s>>)) = {s}

(* Slab indices are owned linearly although free and alloc take the mutex  *)
(* separately and a thread in another bucket may be given the freed index  *)
(* in between (sync.rs, insert_internal): every entry is on the free list  *)
(* once, or referenced by one occupied slot other than the one that an     *)
(* insertion has just given up.                                            *)
GivenUp == {<<Home(t), slot[t]>> : t \in {u \in Threads : pc[u] = "write" /\ how[u] # "fresh"}}

SlabOwned ==
    LET refs    == {p \in Occupied \ GivenUp : slots[p[1]][p[2]].mode = 1}
        idx(p)  == slots[p[1]][p[2]].idx
        free    == slab_pool.free
    IN  /\ \A p, q \in refs : idx(p) = idx(q) => p = q
        /\ \A i, j \in DOMAIN free : free[i] = free[j] => i = j
        /\ {idx(p) : p \in refs} \cap {free[i] : i \in DOMAIN free} = {}
        /\ {idx(p) : p \in refs} \cup {free[i] : i \in DOMAIN free}
              = DOMAIN slab_pool.entries

(* len() is off by exactly the insertions and removals in flight, so it is *)
(* exact whenever nobody is inside a call, whatever resize stores in it.   *)
CountAccounts ==
    count + Cardinality({t \in Threads : how[t] = "fresh" /\ pc[t] \in {"stamp", "settle"}})
        = Cardinality(Occupied) + Cardinality({t \in Threads : pc[t] = "uncount"})

(* An event, queued or being applied, names a place of the present layout: *)
(* no hit recorded before a resize is applied after it (sync.rs, resize).  *)
HintsCurrent ==
    /\ \A i \in DOMAIN buffer : buffer[i][3] = num_buckets
    /\ \A t \in Threads : hand[t] # <<>> => hand[t][1][3] = num_buckets

(* The victim chosen before the old entry is freed is still the coldest    *)
(* entry of its bucket when it is overwritten: no drained hit promotes it  *)
(* in between (sync.rs, the guard in drain's callback).                    *)
VictimColdest ==
    \A t \in Threads : (pc[t] = "write" /\ how[t] = "evict")
        => FindEvictTarget(meta[Home(t)]) = {slot[t]}

(* How far a call has come, as its callers can tell.                       *)
Stage(t) ==
    CASE pc[t] = "age" -> "sampled"
      [] pc[t] \in {"check", "grow", "tick", "set_ttl"} -> "called"
      [] pc[t] \in {"enter", "lock", "match"} /\ Op(t) # "insert" -> "called"
      [] pc[t] \in {"enter", "drain", "apply", "lock", "match", "write", "stamp"}
           /\ Op(t) = "insert" -> "ticked"
      [] OTHER -> "done"

Cache == INSTANCE SharedCache
    WITH Ways <- SlotsPerBucket, Size0 <- StartBuckets,
         epoch <- current_epoch, ttl <- default_ttl, size <- num_buckets,
         call <- [t \in Threads |->
                    [req |-> call[t], stage |-> Stage(t),
                     sample |-> IF pc[t] = "age" THEN seen[t] ELSE 0,
                     res |-> IF pc[t] \in {"push", "copy"} THEN Decoded(Value(t)) ELSE res[t]]]

(* Every call takes effect at one instant while it runs, as if alone: get  *)
(* and peek return what was last committed for that very key or nothing,   *)
(* nothing only if the key was absent, older than its lifetime, or has a   *)
(* value that does not decode; an insertion costs at most one key, of the  *)
(* same full bucket; resize loses nothing, never shrinks the table and     *)
(* never needs to grow it further than asked, and a resize decided on      *)
(* stale figures does nothing.                                             *)
ImplementsSharedCache == Cache!Spec

(* Every call returns: no order in which threads take the table lock, the  *)
(* bucket locks (their own and, when they drain, a foreign one) and the    *)
(* slab mutex leaves one of them waiting forever (sync.rs, insert_internal *)
(* and peek).                                                              *)
CallsReturn == \A t \in Threads : (pc[t] # "idle") ~> (pc[t] = "idle")
=============================================================================
