---------------------------- MODULE SharedCache -----------------------------
(***************************************************************************)
(* What the concurrent map promises to the threads that share it.  Every   *)
(* call takes effect at one instant between its beginning and its return:  *)
(* an insertion (after it has advanced the epoch), a removal, a change of  *)
(* the default TTL, a lookup.  Only a lookup that depends on the default   *)
(* TTL has two instants: it samples the default first and compares the age *)
(* with it later.  Growing the table forgets nothing.                      *)
(***************************************************************************)
EXTENDS Naturals, FiniteSets

CONSTANTS Threads, Keys, Calls,
          Hash,      \* hash bits that select the bucket of a key
          Ways,      \* how many entries a bucket holds
          Never,     \* the TTL that never expires
          Undecodable,  \* values whose bytes V::from_bytes refuses
          NoEntry,   \* the key is not in the map
          NoValue,   \* the result of a miss
          Size0      \* number of buckets at first

VARIABLES store,     \* the entry of each key
          epoch,     \* number of insertions that have begun
          ttl,       \* the map's default TTL, 0 when disabled
          size,      \* number of buckets
          call       \* the last call of each thread and how far it is

vars == <<store, epoch, ttl, size, call>>

Idle == [op |-> "none", key |-> NoValue, val |-> NoValue, n |-> 0]

Init == /\ store = [k \in Keys |-> NoEntry]
        /\ epoch = 0 /\ ttl = 0 /\ size = Size0
        /\ call = [t \in Threads |-> [req |-> Idle, stage |-> "done",
                                      sample |-> 0, res |-> NoValue]]

Present(k) == store[k] # NoEntry
Doing(t, op, stage) == call[t].req.op = op /\ call[t].stage = stage
Becomes(t, stage)   == call' = [call EXCEPT ![t].stage = stage]
Answers(t, r)       == call' = [call EXCEPT ![t].stage = "done", ![t].res = r,
                                            ![t].sample = 0]

Invoke(t, c) ==
    /\ call[t].stage = "done"
    /\ call' = [call EXCEPT ![t] = [req |-> c, stage |-> "called",
                                    sample |-> 0, res |-> NoValue]]
    /\ UNCHANGED <<store, epoch, ttl, size>>

Tick(t) ==
    /\ Doing(t, "insert", "called")
    /\ epoch' = epoch + 1
    /\ Becomes(t, "ticked")
    /\ UNCHANGED <<store, ttl, size>>

(* Keys that an insertion of k forgets: none if k is present or its bucket *)
(* has room, else exactly one of the others in its bucket.                 *)
Rivals(k)  == {j \in Keys \ {k} : Present(j) /\ Hash[j] % size = Hash[k] % size}
Victims(k) == IF Present(k) \/ Cardinality(Rivals(k)) < Ways THEN {{}}
              ELSE {{j} : j \in Rivals(k)}

Put(t) ==
    /\ Doing(t, "insert", "ticked")
    /\ LET c == call[t].req IN
       \E lost \in Victims(c.key) :
          store' = [j \in Keys |->
                      IF j = c.key THEN [val |-> c.val, epoch |-> epoch, ttl |-> c.n]
                      ELSE IF j \in lost THEN NoEntry ELSE store[j]]
    /\ Answers(t, NoValue)
    /\ UNCHANGED <<epoch, ttl, size>>

(* A lookup that finds no entry ends; one that finds an entry notes its    *)
(* lifetime and decides later.                                             *)
Miss(t) ==
    /\ Doing(t, "get", "called") \/ Doing(t, "peek", "called")
    /\ ~Present(call[t].req.key)
    /\ Answers(t, NoValue)
    /\ UNCHANGED <<store, epoch, ttl, size>>

Sample(t) ==
    /\ Doing(t, "get", "called") \/ Doing(t, "peek", "called")
    /\ Present(call[t].req.key)
    /\ LET e == store[call[t].req.key]
       IN  call' = [call EXCEPT ![t].stage = "sampled",
                                ![t].sample = IF e.ttl = 0 THEN ttl ELSE e.ttl]
    /\ UNCHANGED <<store, epoch, ttl, size>>

Decoded(v) == IF v \in Undecodable THEN NoValue ELSE v

Lookup(t) ==
    /\ call[t].stage = "sampled"
    /\ LET e    == store[call[t].req.key]
           life == call[t].sample
       IN  Answers(t, IF life \notin {0, Never} /\ epoch > e.epoch + life
                      THEN NoValue ELSE Decoded(e.val))
    /\ UNCHANGED <<store, epoch, ttl, size>>

Remove(t) ==
    /\ Doing(t, "remove", "called")
    /\ store' = [store EXCEPT ![call[t].req.key] = NoEntry]
    /\ Answers(t, Present(call[t].req.key))
    /\ UNCHANGED <<epoch, ttl, size>>

SetTtl(t) ==
    /\ Doing(t, "set_ttl", "called")
    /\ ttl' = call[t].req.n
    /\ Answers(t, NoValue)
    /\ UNCHANGED <<store, epoch, size>>

(* resize never shrinks the table, and no retry takes it beyond the next   *)
(* power of two; an insertion of an automatic map at most doubles it.      *)
Resize(t) ==
    /\ Doing(t, "resize", "called")
    /\ LET n == call[t].req.n IN
       IF size >= n THEN UNCHANGED size
       ELSE size' \in {m \in {size * 2^i : i \in 0 .. n} : n <= m /\ m < 2 * n}
    /\ Answers(t, NoValue)
    /\ UNCHANGED <<store, epoch, ttl>>

Double(t) ==
    /\ Doing(t, "insert", "called")
    /\ size' = 2 * size
    /\ UNCHANGED <<store, epoch, ttl, call>>

Next == \E t \in Threads :
           \/ \E c \in Calls : Invoke(t, c)
           \/ Tick(t) \/ Put(t) \/ Miss(t) \/ Sample(t) \/ Lookup(t)
           \/ Remove(t) \/ SetTtl(t) \/ Resize(t) \/ Double(t)

Spec == Init /\ [][Next]_vars
=============================================================================
