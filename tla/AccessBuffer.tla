---------------------------- MODULE AccessBuffer ----------------------------
(***************************************************************************)
(* The sequence-tagged ring buffer of src/engine/access_buffer.rs, through *)
(* which get() records hits and insert() later applies them.  Any number   *)
(* of threads push and drain concurrently; every atomic access of push and *)
(* pop is a step of its own.  A thread's program counter names the next    *)
(* atomic access it will make.                                             *)
(*                                                                         *)
(* The counters are usize values: they wrap at Modulus.  The history       *)
(* variables log, taken and idx count without wrapping; no guard of the    *)
(* algorithm reads them (only the two bounds do).                          *)
(***************************************************************************)
EXTENDS Naturals, Sequences, FiniteSets

CONSTANTS Threads,     \* threads that call push, drain or clear
          NoThread,    \* nobody holds the resize lock
          Cap,         \* length of the ring, a power of two, at least 2
          Modulus,     \* 2^w, the number of usize values
          Start,       \* value of head and tail when the history begins
          Requests,    \* <<bucket, slot>> pairs that callers try to record
          DrainBatch,  \* max_events of one drain
          Stale,       \* how many values a Relaxed load may lag behind
          MaxPushes    \* bound on the number of accepted events

ASSUME CapAssumption == Cap \in Nat /\ Cap >= 2
ASSUME ModulusAssumption ==
    /\ Modulus \in Nat /\ Start \in Nat /\ Stale \in Nat
    /\ Modulus % Cap = 0 /\ Modulus % 4 = 0
    /\ Start < Modulus
    /\ Cap + Stale < Modulus
ASSUME CallAssumption ==
    /\ Requests \subseteq Nat \X Nat
    /\ DrainBatch \in Nat \ {0} /\ MaxPushes \in Nat
    /\ NoThread \notin Threads

VARIABLES head, tail,  \* the two shared counters
          seq, data,   \* sequence tag and payload of every ring slot
          pc,          \* next atomic access of each thread
          pos,         \* the counter value a thread loaded
          arg,         \* the request a pushing thread records
          val,         \* the payload word a popping thread read
          left,        \* iterations left in a thread's drain loop
          excl,        \* the thread that holds the map's resize lock
          log,         \* history: every accepted event, in claim order
          taken,       \* history: how many of them consumers have claimed
          idx          \* history: pos[t] before wrapping, relative to Start

shared == <<head, tail, seq, data>>
local  == <<pc, pos, arg, val, left, excl, idx>>
vars   == <<head, tail, seq, data, pc, pos, arg, val, left, excl,
            log, taken, idx>>
-----------------------------------------------------------------------------
Slots == 0 .. (Cap - 1)

(* Value of a counter that started at Start and was incremented k times.   *)
At(k) == (Start + k) % Modulus

(* usize::wrapping_add                                                     *)
WrappingAdd(p, n) == (p + n) % Modulus

(* position & mask                                                         *)
Slot(p) == p % Cap

(* An event fits in one word: four slots per bucket, bucket index in the   *)
(* upper bits.                                                             *)
Valid(r)  == r[2] < 4 /\ r[1] <= (Modulus - 1) \div 4
Encode(r) == r[1] * 4 + r[2]
Decode(w) == <<w \div 4, w % 4>>
Recordable == {r \in Requests : Valid(r)}

PushLabels == {"push_check", "push_cas", "push_store", "push_publish"}
PopLabels  == {"pop_load", "pop_check", "pop_cas", "pop_read", "pop_release",
               "callback"}

Init ==
    /\ head = Start /\ tail = Start
    /\ seq = [i \in Slots |-> At((i + Modulus - Start) % Cap)]
    /\ data = [i \in Slots |-> 0]
    /\ pc = [t \in Threads |-> "idle"]
    /\ pos = [t \in Threads |-> 0]
    /\ arg = [t \in Threads |-> <<0, 0>>]
    /\ val = [t \in Threads |-> 0]
    /\ left = [t \in Threads |-> 0]
    /\ excl = NoThread
    /\ log = <<>> /\ taken = 0
    /\ idx = [t \in Threads |-> 0]

(* A Relaxed load of a counter incremented k times returns its value or a  *)
(* recent one; under the resize lock every earlier store is visible.       *)
Visible(t, k) == {j \in 0 .. k : k <= j + (IF excl = t THEN 0 ELSE Stale)}

(* Bounds.  At most MaxPushes events are accepted, counting the pushes     *)
(* that may still succeed; and no thread stays inside one call while the   *)
(* head counter goes through all its Modulus values.                       *)
MorePushes ==
    Len(log) + Cardinality({u \in Threads : pc[u] \in {"push_check", "push_cas"}})
        < MaxPushes
NoLap == \A u \in Threads : pc[u] # "idle" => Len(log) + 1 < idx[u] + Modulus

Goto(t, l) == pc' = [pc EXCEPT ![t] = l]

(* The call ends; clear also gives up the resize lock.                     *)
Return(t) ==
    /\ Goto(t, "idle")
    /\ pos' = [pos EXCEPT ![t] = 0]
    /\ arg' = [arg EXCEPT ![t] = <<0, 0>>]
    /\ val' = [val EXCEPT ![t] = 0]
    /\ left' = [left EXCEPT ![t] = 0]
    /\ idx' = [idx EXCEPT ![t] = 0]
    /\ excl' = IF excl = t THEN NoThread ELSE excl

(* Push and drain are called under the map's read lock.                    *)
MayEnter(t) == pc[t] = "idle" /\ excl = NoThread
-----------------------------------------------------------------------------
(* Variant: push records the event without looking whether it fits.        *)
BeginPushUnchecked(t, r) ==
    /\ MayEnter(t)
    /\ MorePushes
    /\ Goto(t, "push_check")
    /\ arg' = [arg EXCEPT ![t] = r]
    /\ \E k \in Visible(t, Len(log)) :
          /\ idx' = [idx EXCEPT ![t] = k]
          /\ pos' = [pos EXCEPT ![t] = At(k)]
    /\ UNCHANGED <<shared, val, left, excl, log, taken>>

(* push: an event that does not fit is refused at once and nothing         *)
(* changes; otherwise the head counter is loaded.                          *)
BeginPush(t, r) ==
    /\ MayEnter(t)
    /\ MorePushes
    /\ Valid(r)
    /\ Goto(t, "push_check")
    /\ arg' = [arg EXCEPT ![t] = r]
    /\ \E k \in Visible(t, Len(log)) :
          /\ idx' = [idx EXCEPT ![t] = k]
          /\ pos' = [pos EXCEPT ![t] = At(k)]
    /\ UNCHANGED <<shared, val, left, excl, log, taken>>

(* Variant: push takes the head position without looking at the slot's tag. *)
PushCheckUntagged(t) ==
    /\ pc[t] = "push_check"
    /\ Goto(t, "push_cas")
    /\ UNCHANGED <<shared, pos, arg, val, left, excl, log, taken, idx>>

PushCheck(t) ==
    /\ pc[t] = "push_check"
    /\ seq[Slot(pos[t])] = pos[t]
    /\ Goto(t, "push_cas")
    /\ UNCHANGED <<shared, pos, arg, val, left, excl, log, taken, idx>>

(* The compare_exchange succeeds: position pos[t] belongs to t.            *)
PushCas(t) ==
    /\ pc[t] = "push_cas"
    /\ head = pos[t]
    /\ NoLap
    /\ head' = WrappingAdd(pos[t], 1)
    /\ log' = Append(log, arg[t])
    /\ Goto(t, "push_store")
    /\ UNCHANGED <<tail, seq, data, pos, arg, val, left, excl, taken, idx>>

(* Full ring, unreleased slot, or lost race: push returns false.           *)
PushGiveUp(t) ==
    /\ \/ pc[t] = "push_check" /\ seq[Slot(pos[t])] # pos[t]
       \/ pc[t] = "push_cas" /\ head # pos[t]
    /\ Return(t)
    /\ UNCHANGED <<shared, log, taken>>

PushStore(t) ==
    /\ pc[t] = "push_store"
    /\ data' = [data EXCEPT ![Slot(pos[t])] = Encode(arg[t])]
    /\ Goto(t, "push_publish")
    /\ UNCHANGED <<head, tail, seq, pos, arg, val, left, excl, log, taken, idx>>

(* Variant: the tag is published with an addition that does not wrap.      *)
PushPublishUnwrapped(t) ==
    /\ pc[t] = "push_publish"
    /\ seq' = [seq EXCEPT ![Slot(pos[t])] = pos[t] + 1]
    /\ Return(t)
    /\ UNCHANGED <<head, tail, data, log, taken>>

PushPublish(t) ==
    /\ pc[t] = "push_publish"
    /\ seq' = [seq EXCEPT ![Slot(pos[t])] = WrappingAdd(pos[t], 1)]
    /\ Return(t)
    /\ UNCHANGED <<head, tail, data, log, taken>>
-----------------------------------------------------------------------------
(* drain(max_events) and clear(): a loop of pops.                          *)
BeginDrain(t) ==
    /\ MayEnter(t)
    /\ Goto(t, "pop_load")
    /\ left' = [left EXCEPT ![t] = DrainBatch]
    /\ idx' = [idx EXCEPT ![t] = taken]
    /\ UNCHANGED <<shared, pos, arg, val, excl, log, taken>>

(* Variant: clear pops one event too few.                                  *)
BeginClearShort(t) ==
    /\ MayEnter(t)
    /\ \A u \in Threads : pc[u] = "idle"
    /\ excl' = t
    /\ Goto(t, "pop_load")
    /\ left' = [left EXCEPT ![t] = Cap - 1]
    /\ idx' = [idx EXCEPT ![t] = taken]
    /\ UNCHANGED <<shared, pos, arg, val, log, taken>>

(* Resize takes the write lock, so no other thread is inside a call.       *)
BeginClear(t) ==
    /\ MayEnter(t)
    /\ \A u \in Threads : pc[u] = "idle"
    /\ excl' = t
    /\ Goto(t, "pop_load")
    /\ left' = [left EXCEPT ![t] = Cap]
    /\ idx' = [idx EXCEPT ![t] = taken]
    /\ UNCHANGED <<shared, pos, arg, val, log, taken>>

PopLoad(t) ==
    /\ pc[t] = "pop_load"
    /\ Goto(t, "pop_check")
    /\ \E k \in Visible(t, taken) :
          /\ idx' = [idx EXCEPT ![t] = k]
          /\ pos' = [pos EXCEPT ![t] = At(k)]
    /\ UNCHANGED <<shared, arg, val, left, excl, log, taken>>

PopCheck(t) ==
    /\ pc[t] = "pop_check"
    /\ seq[Slot(pos[t])] = WrappingAdd(pos[t], 1)
    /\ Goto(t, "pop_cas")
    /\ UNCHANGED <<shared, pos, arg, val, left, excl, log, taken, idx>>

(* Variant: tail is advanced by a plain store instead of compare_exchange. *)
PopCasBlind(t) ==
    /\ pc[t] = "pop_cas"
    /\ tail' = WrappingAdd(pos[t], 1)
    /\ taken' = taken + 1
    /\ Goto(t, "pop_read")
    /\ UNCHANGED <<head, seq, data, pos, arg, val, left, excl, log, idx>>

(* Variant: claiming the tail position already gives the slot back.        *)
PopCasReleases(t) ==
    /\ pc[t] = "pop_cas"
    /\ tail = pos[t]
    /\ tail' = WrappingAdd(pos[t], 1)
    /\ taken' = taken + 1
    /\ seq' = [seq EXCEPT ![Slot(pos[t])] = WrappingAdd(pos[t], Cap)]
    /\ Goto(t, "pop_read")
    /\ UNCHANGED <<head, data, pos, arg, val, left, excl, log, idx>>

PopCas(t) ==
    /\ pc[t] = "pop_cas"
    /\ tail = pos[t]
    /\ tail' = WrappingAdd(pos[t], 1)
    /\ taken' = taken + 1
    /\ Goto(t, "pop_read")
    /\ UNCHANGED <<head, seq, data, pos, arg, val, left, excl, log, idx>>

(* Empty, unpublished or contended: pop returns None and the loop ends.    *)
PopGiveUp(t) ==
    /\ \/ pc[t] = "pop_check" /\ seq[Slot(pos[t])] # WrappingAdd(pos[t], 1)
       \/ pc[t] = "pop_cas" /\ tail # pos[t]
    /\ Return(t)
    /\ UNCHANGED <<shared, log, taken>>

PopRead(t) ==
    /\ pc[t] = "pop_read"
    /\ val' = [val EXCEPT ![t] = data[Slot(pos[t])]]
    /\ Goto(t, "pop_release")
    /\ UNCHANGED <<shared, pos, arg, left, excl, log, taken, idx>>

(* The slot is handed to its next generation before the callback runs.     *)
PopRelease(t) ==
    /\ pc[t] = "pop_release"
    /\ seq' = [seq EXCEPT ![Slot(pos[t])] = WrappingAdd(pos[t], Cap)]
    /\ Goto(t, "callback")
    /\ UNCHANGED <<head, tail, data, pos, arg, val, left, excl, log, taken, idx>>

(* f(bucket, slot) is called with Decode(val[t]); then the loop goes on.   *)
Callback(t) ==
    /\ pc[t] = "callback"
    /\ left[t] > 1
    /\ left' = [left EXCEPT ![t] = @ - 1]
    /\ val' = [val EXCEPT ![t] = 0]
    /\ pos' = [pos EXCEPT ![t] = 0]
    /\ idx' = [idx EXCEPT ![t] = taken]
    /\ Goto(t, "pop_load")
    /\ UNCHANGED <<shared, arg, excl, log, taken>>

LastCallback(t) ==
    /\ pc[t] = "callback"
    /\ left[t] = 1
    /\ Return(t)
    /\ UNCHANGED <<shared, log, taken>>
-----------------------------------------------------------------------------
Push(t) == PushCheck(t) \/ PushCas(t) \/ PushGiveUp(t) \/ PushStore(t)
              \/ PushPublish(t)
Pop(t)  == PopLoad(t) \/ PopCheck(t) \/ PopCas(t) \/ PopGiveUp(t)
              \/ PopRead(t) \/ PopRelease(t) \/ Callback(t) \/ LastCallback(t)

Next == \E t \in Threads :
           \/ \E r \in Requests : BeginPush(t, r)
           \/ Push(t)
           \/ BeginDrain(t)
           \/ BeginClear(t)
           \/ Pop(t)

Spec == Init /\ [][Next]_vars

(* A load of tail that returns the latest value.                           *)
FreshLoad(t) == PopLoad(t) /\ idx'[t] = taken

(* A call that has begun keeps running, and inserts, each of which drains  *)
(* once, keep coming: that is the workload the buffer is built for.  Loads *)
(* may be stale any number of times, but a store becomes visible in finite *)
(* time: a thread that keeps loading tail does not get old values only.    *)
FairSpec == /\ Spec
            /\ \A t \in Threads : WF_vars(Push(t)) /\ WF_vars(Pop(t))
                                    /\ SF_vars(BeginDrain(t)) /\ SF_vars(FreshLoad(t))
-----------------------------------------------------------------------------
Labels == {"idle"} \cup PushLabels \cup PopLabels

Words == 0 .. (Modulus - 1)

(* Counters, tags, positions and payloads are usize values through every   *)
(* wrap: no encoding overflows the word, because the history holds only    *)
(* events that passed push's validity check (access_buffer.rs, push).      *)
TypeOK ==
    /\ head \in Words /\ tail \in Words
    /\ seq \in [Slots -> Words] /\ data \in [Slots -> Words]
    /\ pc \in [Threads -> Labels]
    /\ pos \in [Threads -> Words]
    /\ arg \in [Threads -> Recordable \cup {<<0, 0>>}]
    /\ val \in [Threads -> Words]
    /\ left \in [Threads -> Nat]
    /\ excl \in Threads \cup {NoThread}
    /\ log \in Seq(Recordable)
    /\ taken \in Nat
    /\ idx \in [Threads -> Nat]

(* Between its claim and its publication (producer) or release (consumer)  *)
(* a thread has the payload of its ring slot to itself: nobody else writes *)
(* or reads that slot's data word (access_buffer.rs, push and pop).        *)
OwnsPayload(t) ==
    pc[t] \in {"push_store", "push_publish", "pop_read", "pop_release"}

PayloadExclusive ==
    \A t, u \in Threads :
        (t # u /\ OwnsPayload(t) /\ OwnsPayload(u))
            => Slot(pos[t]) # Slot(pos[u])

(* Advancing tail alone never permits reuse: at most Cap events are        *)
(* accepted and unclaimed, and tail never overtakes head, whatever values  *)
(* the Relaxed loads returned and wherever the counters wrap.              *)
Bounded == taken <= Len(log) /\ Len(log) <= taken + Cap

(* The tag of the ring slot that position k uses.                          *)
Tag(k) == seq[Slot(At(k))]

Counters == /\ head = At(Len(log)) /\ tail = At(taken)
            /\ Bounded

Loaded ==
    \A t \in Threads : pc[t] # "idle" =>
        /\ idx[t] <= Len(log) /\ Len(log) < idx[t] + Modulus
        /\ pc[t] # "pop_load" => pos[t] = At(idx[t])
        /\ pc[t] \in PushLabels => Valid(arg[t])
        /\ pc[t] \in PopLabels => idx[t] <= taken

BusyTags ==
    \A k \in taken .. (Len(log) - 1) :
        \/ Tag(k) = At(k)
        \/ Tag(k) = At(k + 1) /\ data[Slot(At(k))] = Encode(log[k + 1])

FreeTags ==
    \A k \in Len(log) .. (taken + Cap - 1) :
        \/ Tag(k) = At(k)
        \/ k >= Cap /\ Tag(k) = At(k - Cap + 1)

Producing(t) == pc[t] \in {"push_store", "push_publish"}
Consuming(t) == pc[t] \in {"pop_read", "pop_release"}

Producers ==
    \A t \in Threads :
        /\ (pc[t] = "push_cas" /\ idx[t] = Len(log)) => Tag(idx[t]) = At(idx[t])
        /\ Producing(t) =>
              /\ taken <= idx[t] /\ idx[t] < Len(log)
              /\ Tag(idx[t]) = At(idx[t])
              /\ log[idx[t] + 1] = arg[t]
        /\ pc[t] = "push_publish" => data[Slot(At(idx[t]))] = Encode(arg[t])

Consumers ==
    \A t \in Threads :
        /\ (pc[t] = "pop_cas" /\ idx[t] = taken) => Tag(idx[t]) = At(idx[t] + 1)
        /\ (Consuming(t) \/ pc[t] = "callback") => idx[t] < taken
        /\ Consuming(t) => Tag(idx[t]) = At(idx[t] + 1)
        /\ pc[t] = "pop_read" => data[Slot(At(idx[t]))] = Encode(log[idx[t] + 1])
        /\ pc[t] \in {"pop_release", "callback"} => val[t] = Encode(log[idx[t] + 1])

Distinct ==
    \A t, u \in Threads :
        /\ (Producing(t) /\ Producing(u) /\ idx[t] = idx[u]) => t = u
        /\ (Consuming(t) /\ Consuming(u) /\ idx[t] = idx[u]) => t = u

(* The protocol of the tags, inductive given the types.  Positions         *)
(* taken .. Len(log)-1 are accepted and unclaimed: their tag says whether  *)
(* the payload is published, and a published payload is the recorded       *)
(* event.  Positions Len(log) .. taken+Cap-1 are open: their tag says      *)
(* whether the consumer of the previous generation has let go.  A thread   *)
(* that passed a tag check may trust it while its counter has not moved.   *)
RingInv == /\ Counters /\ Loaded /\ BusyTags /\ FreeTags
           /\ Producers /\ Consumers /\ Distinct

(* When clear() returns, under the resize lock, no event recorded before   *)
(* it is left: its loop of single-attempt pops never stops early, so no    *)
(* index of the old bucket layout survives a rehash.                       *)
ClearEmpties ==
    [][\A t \in Threads : (excl = t /\ excl' # t) => taken = Len(log)]_vars

(* The buffer implements the lossy first-in first-out event queue: events  *)
(* are accepted when push's compare_exchange succeeds, taken when pop's    *)
(* does, and the callback gets exactly the event that was recorded, once.  *)
Hand(t) == CASE pc[t] = "pop_read" -> <<log[idx[t] + 1]>>
             [] pc[t] \in {"pop_release", "callback"} -> <<Decode(val[t])>>
             [] OTHER -> <<>>

Abstract == INSTANCE EventQueue
    WITH Capacity <- Cap,
         Events <- Recordable,
         queue <- SubSeq(log, taken + 1, Len(log)),
         hand <- [t \in Threads |-> Hand(t)]

ImplementsEventQueue == Abstract!Spec

(* Every accepted event is eventually claimed by some drain: neither stale *)
(* loads of head and tail, as long as they are not stale forever, nor a    *)
(* lost compare_exchange, nor the wrap of the counters can wedge the ring. *)
EventuallyDrained ==
    \A k \in 1 .. MaxPushes : (Len(log) >= k) ~> (taken >= k)
=============================================================================
