-------------------------- MODULE ShardedPulseMap ---------------------------
(***************************************************************************)
(* The sharded map of src/sharded.rs.  Every shard is a ConcurrentPulseMap *)
(* and appears here as its contract SharedCache describes it: an insertion *)
(* ticks the shard's epoch and later takes effect at one instant, a lookup *)
(* finds its entry and then judges its age, any rival of a full bucket may *)
(* be the victim.  What is added is what several shards make of it: the    *)
(* routing of keys, the loops that visit one shard after the other while   *)
(* other threads go on, and the counters those loops read.                 *)
(***************************************************************************)
EXTENDS HashBits, FiniteSets

CONSTANTS Threads, Keys,
          Hash,        \* the 64-bit hash of each key
          Ways,        \* entries of a bucket, 4 in the code
          Size0,       \* buckets_per_shard, a power of two
          AutoResize,  \* new or with_auto_resize
          Never,       \* u64::MAX
          MaxEpoch,    \* bound on the insertions into each shard
          MaxSize,     \* bound on automatic growth
          NoEntry, NoValue

ASSUME ShardedAssumption ==
    /\ \A k \in Keys : Hash[k] \in HashValues
    /\ IsFiniteSet(Keys) /\ Ways \in Nat \ {0} /\ AutoResize \in BOOLEAN
    /\ Size0 \in Nat /\ IsPowerOfTwo(Size0)
    /\ NoEntry \notin [val : Nat, epoch : Nat, ttl : Nat]

VARIABLES store,       \* the entry of each key
          epoch, ttl,  \* per shard: insertions begun, default TTL
          size,        \* per shard: number of buckets
          count, evictions,
          call,        \* per thread: its call and how far it is
          window       \* history: what a call in progress has overlapped

shardVars == <<store, epoch, ttl, size, count, evictions>>
vars      == <<shardVars, call, window>>

LastShard == NumShards - 1
ShardOf(k)  == ShardFor(Hash[k])
Index(k, n) == BucketHash(Hash[k]) % n
SameBucket(j, k) == /\ ShardOf(j) = ShardOf(k)
                    /\ Index(j, size[ShardOf(j)]) = Index(k, size[ShardOf(k)])

Present(k) == store[k] # NoEntry
Request(op, k, v, n) == [op |-> op, key |-> k, val |-> v, n |-> n]

Init == /\ store = [k \in Keys |-> NoEntry]
        /\ epoch = [s \in Shards |-> 0] /\ ttl = [s \in Shards |-> 0]
        /\ size = [s \in Shards |-> Size0]
        /\ count = [s \in Shards |-> 0] /\ evictions = [s \in Shards |-> 0]
        /\ call = [t \in Threads |-> [req |-> Request("none", NoValue, 0, 0), stage |-> "done",
                                      shard |-> 0, acc |-> 0, res |-> NoValue]]
        /\ window = [t \in Threads |-> [low |-> {}, high |-> {}, alone |-> TRUE]]
-----------------------------------------------------------------------------
At(t, op, stage)  == call[t].req.op = op /\ call[t].stage = stage
Becomes(t, stage) == call' = [call EXCEPT ![t].stage = stage]
Answers(t, r)     == call' = [call EXCEPT ![t].stage = "done", ![t].res = r,
                                          ![t].shard = 0, ![t].acc = 0]
NextShard(t, a)   == call' = [call EXCEPT ![t].shard = @ + 1, ![t].acc = a]

(* The bound on insertions, those that have not ticked yet included.       *)
MayInsert(s) == epoch[s] + Cardinality({t \in Threads :
                    /\ call[t].req.op = "insert" /\ ShardOf(call[t].req.key) = s
                    /\ call[t].stage \in {"called", "loaded", "checked"}}) < MaxEpoch[s]

Invoke(t, c) ==
    /\ call[t].stage = "done"
    /\ c.op = "insert" => MayInsert(ShardOf(c.key))
    /\ call' = [call EXCEPT ![t] = [req |-> c, stage |-> "called", shard |-> 0,
                                    acc |-> 0, res |-> NoValue]]
    /\ UNCHANGED shardVars

(* Variant: the count is changed after the bucket has been unlocked.       *)
UnlockedEarly(t) == call[t].stage = "found"

(* A thread keeps the bucket lock, and the table lock for reading, from    *)
(* the moment a call takes effect until it has been counted, and from the  *)
(* moment a lookup finds its entry until it has judged it.                 *)
Holds(t)     == call[t].stage \in {"put", "dropped", "found"}
Locked(k)    == \E t \in Threads : Holds(t) /\ SameBucket(call[t].req.key, k)
InUse(s)     == \E t \in Threads : Holds(t) /\ ShardOf(call[t].req.key) = s

RivalsIn(k, n) == {j \in Keys \ {k} : /\ Present(j) /\ ShardOf(j) = ShardOf(k)
                                      /\ Index(j, n) = Index(k, n)}
Fits(s, n)     == \A k \in Keys : Present(k) /\ ShardOf(k) = s =>
                                      Cardinality(RivalsIn(k, n)) < Ways

(* resize of one shard to n buckets, n a power of two: a table that is as  *)
(* large already stays; the rehash doubles again until no bucket overflows *)
(* and sets the count to the number of entries it moved.                   *)
Grown(s, n) ==
    IF size[s] >= n THEN UNCHANGED <<size, count>>
    ELSE /\ \E i \in 0 .. n :
               /\ Fits(s, n * 2^i) /\ \A j \in 0 .. (i - 1) : ~Fits(s, n * 2^j)
               /\ size' = [size EXCEPT ![s] = n * 2^i]
         /\ count' = [count EXCEPT ![s] =
                         Cardinality({k \in Keys : Present(k) /\ ShardOf(k) = s})]

(* An insertion into an automatic shard reads the load, and resizes later. *)
CheckLoad(t) ==
    /\ At(t, "insert", "called")
    /\ LET s == ShardOf(call[t].req.key)
           high == 4 * count[s] > 3 * size[s] * Ways /\ size[s] < MaxSize
       IN  IF AutoResize /\ high
           THEN call' = [call EXCEPT ![t].stage = "loaded", ![t].acc = 2 * size[s]]
           ELSE Becomes(t, "checked")
    /\ UNCHANGED shardVars

AutoGrow(t) ==
    /\ At(t, "insert", "loaded")
    /\ LET s == ShardOf(call[t].req.key) IN ~InUse(s) /\ Grown(s, call[t].acc)
    /\ call' = [call EXCEPT ![t].stage = "checked", ![t].acc = 0]
    /\ UNCHANGED <<store, epoch, ttl, evictions>>

Tick(t) ==
    LET s == ShardOf(call[t].req.key) IN
    /\ At(t, "insert", "checked")
    /\ epoch' = [epoch EXCEPT ![s] = @ + 1]
    /\ Becomes(t, "ticked")
    /\ UNCHANGED <<store, ttl, size, count, evictions>>

Victims(k) ==
    LET rivals == RivalsIn(k, size[ShardOf(k)])
    IN  IF Present(k) \/ Cardinality(rivals) < Ways THEN {{}} ELSE {{j} : j \in rivals}

(* Variant: a key that replaced another is counted as well.                *)
CountsEvictions(k, lost) == ~Present(k)

TakesFreeSlot(k, lost) == ~Present(k) /\ lost = {}

(* The pair is written; only a key that took a free slot is still to be    *)
(* counted.                                                                *)
Put(t) ==
    LET c == call[t].req
        s == ShardOf(c.key)
    IN  /\ At(t, "insert", "ticked") /\ ~Locked(c.key)
        /\ \E lost \in Victims(c.key) :
              /\ store' = [j \in Keys |->
                    IF j = c.key THEN [val |-> c.val, epoch |-> epoch[s], ttl |-> c.n]
                    ELSE IF j \in lost THEN NoEntry ELSE store[j]]
              /\ evictions' = [evictions EXCEPT ![s] = @ + Cardinality(lost)]
              /\ IF TakesFreeSlot(c.key, lost) THEN Becomes(t, "put") ELSE Answers(t, NoValue)
        /\ UNCHANGED <<epoch, ttl, size, count>>

Count(t) ==
    /\ At(t, "insert", "put")
    /\ count' = [count EXCEPT ![ShardOf(call[t].req.key)] = @ + 1]
    /\ Answers(t, NoValue)
    /\ UNCHANGED <<store, epoch, ttl, size, evictions>>

(* get, peek and contains_key, which is a peek.                            *)
Find(t) ==
    /\ At(t, "get", "called") /\ ~Locked(call[t].req.key)
    /\ LET e == store[call[t].req.key]
           s == ShardOf(call[t].req.key)
       IN  IF e = NoEntry THEN Answers(t, NoValue)
           ELSE call' = [call EXCEPT ![t].stage = "found",
                                     ![t].acc = IF e.ttl = 0 THEN ttl[s] ELSE e.ttl]
    /\ UNCHANGED shardVars

Judge(t) ==
    /\ At(t, "get", "found")
    /\ LET e == store[call[t].req.key]
           life == call[t].acc
           old  == epoch[ShardOf(call[t].req.key)] > e.epoch + life
       IN  Answers(t, IF life \notin {0, Never} /\ old THEN NoValue ELSE e.val)
    /\ UNCHANGED shardVars

Remove(t) ==
    LET k == call[t].req.key IN
    /\ At(t, "remove", "called") /\ ~Locked(k)
    /\ store' = [store EXCEPT ![k] = NoEntry]
    /\ IF Present(k) THEN Becomes(t, "dropped") ELSE Answers(t, FALSE)
    /\ UNCHANGED <<epoch, ttl, size, count, evictions>>

Uncount(t) ==
    /\ At(t, "remove", "dropped")
    /\ count' = [count EXCEPT ![ShardOf(call[t].req.key)] = @ - 1]
    /\ Answers(t, TRUE)
    /\ UNCHANGED <<store, epoch, ttl, size, evictions>>
-----------------------------------------------------------------------------
(* Variant: the loop leaves out the last shard.                            *)
EndsBeforeLast(t, a, r) == IF call[t].shard = LastShard - 1 THEN Answers(t, r) ELSE NextShard(t, a)

(* One turn of a loop over the shards: a is carried on, r is the result.   *)
Turn(t, a, r) == IF call[t].shard = LastShard THEN Answers(t, r) ELSE NextShard(t, a)

SetTtl(t) ==
    /\ At(t, "set_ttl", "called")
    /\ ttl' = [ttl EXCEPT ![call[t].shard] = call[t].req.n]
    /\ Turn(t, 0, NoValue)
    /\ UNCHANGED <<store, epoch, size, count, evictions>>

ResizeAll(t) ==
    /\ At(t, "resize_all", "called") /\ ~InUse(call[t].shard)
    /\ Grown(call[t].shard, call[t].req.n)
    /\ Turn(t, 0, NoValue)
    /\ UNCHANGED <<store, epoch, ttl, evictions>>

(* The statistics are sums over the shards, current_epoch is a maximum.    *)
(* load_factor is a call of capacity followed by one of len.               *)
Stat(op, s) == CASE op = "len" -> count[s]
                 [] op = "capacity" -> size[s] * Ways
                 [] op = "eviction_count" -> evictions[s]
                 [] op = "current_epoch" -> epoch[s]

Stats(t) ==
    /\ call[t].stage = "called"
    /\ \E op \in {"len", "capacity", "eviction_count", "current_epoch"} :
          /\ call[t].req.op = op
          /\ LET x == Stat(op, call[t].shard)
                 a == IF op # "current_epoch" THEN call[t].acc + x
                      ELSE IF x > call[t].acc THEN x ELSE call[t].acc
             IN  Turn(t, a, a)
    /\ UNCHANGED shardVars

IsEmpty(t) ==
    /\ At(t, "is_empty", "called")
    /\ IF count[call[t].shard] # 0 THEN Answers(t, FALSE) ELSE Turn(t, 0, TRUE)
    /\ UNCHANGED shardVars

GetTtl(t) ==
    /\ At(t, "get_ttl", "called")
    /\ Answers(t, ttl[0])
    /\ UNCHANGED shardVars

(* The keys that the counters count at this moment.                        *)
Counted == LET at(stage) == {call[t].req.key : t \in {u \in Threads : call[u].stage = stage}}
           IN  ({k \in Keys : Present(k)} \ at("put")) \cup at("dropped")

Running(t, op) == call[t].req.op = op /\ call[t].stage # "done"

(* While len is summing: the keys counted all the time and at some time.   *)
(* While set_ttl is looping: whether another set_ttl overlapped it.        *)
Watch ==
    window' = [t \in Threads |->
        [low  |-> IF ~Running(t, "len")' THEN {}
                  ELSE Counted' \cap (IF Running(t, "len") THEN window[t].low ELSE Keys),
         high |-> IF ~Running(t, "len")' THEN {} ELSE Counted' \cup window[t].high,
         alone |-> ~Running(t, "set_ttl")' \/
                      (window[t].alone /\ \A u \in Threads \ {t} : ~Running(u, "set_ttl")')]]

Step(t) == \/ CheckLoad(t) \/ AutoGrow(t) \/ Tick(t) \/ Put(t) \/ Count(t) \/ Find(t) \/ Judge(t)
           \/ Remove(t) \/ Uncount(t) \/ SetTtl(t) \/ ResizeAll(t) \/ Stats(t)
           \/ IsEmpty(t) \/ GetTtl(t)
-----------------------------------------------------------------------------
(* Whatever size a shard has grown to, keys with every fingerprint reach   *)
(* every one of its buckets: no bit of the hash is used up by the routing  *)
(* and used again for the bucket (bucket_hash).                            *)
BucketsReachable ==
    \A s \in Shards :
        {<<BucketHash(h) % size[s], H2(h)>> : h \in {g \in HashValues : ShardFor(g) = s}}
            = (0 .. (size[s] - 1)) \X (0 .. (H2Size - 1))

(* len() adds up counters read at different moments while other threads    *)
(* insert, evict and remove.  Still it counts every key that was in the    *)
(* map all the time and no key that never was.                             *)
LenBracketed ==
    [][\A t \in Threads :
          At(t, "len", "called") /\ call'[t].stage = "done" =>
             /\ Cardinality(window[t].low) <= call'[t].res
             /\ call'[t].res <= Cardinality(window[t].high)]_vars

(* A set_ttl that no other set_ttl overlaps leaves its value in every      *)
(* shard, whatever else runs meanwhile.                                    *)
TtlAgreed ==
    [][\A t \in Threads :
          /\ At(t, "set_ttl", "called") /\ call'[t].stage = "done" /\ window[t].alone
          => \A s \in Shards : ttl'[s] = call[t].req.n]_vars

(* What get_ttl's comment says: the TTL is the same across all shards,     *)
(* whenever no set_ttl is under way.                                       *)
TtlSameAcrossShards ==
    (\A t \in Threads : ~Running(t, "set_ttl")) => \A s \in Shards : ttl[s] = ttl[0]
=============================================================================
