----------------------------- MODULE MapLemmas ------------------------------
(***************************************************************************)
(* Facts about the parts that both maps are built from: the choice of a    *)
(* slot, the metadata word, the slab pool and the slots themselves.        *)
(***************************************************************************)
EXTENDS MetaWord, Slot, Arithmetic

-----------------------------------------------------------------------------
(* Choosing the first slot of a set.                                       *)

(* First yields a member, and only one.                                    *)
LEMMA FirstMember ==
    ASSUME NEW S \in SUBSET Nat, NEW s \in First(S)
    PROVE  s \in S /\ First(S) = {s}
<1>1. s \in S /\ \A r \in S : s <= r BY DEF First
<1>2. ASSUME NEW q \in First(S) PROVE q = s
  <2>1. q \in S /\ q <= s /\ s <= q BY <1>1, <1>2 DEF First
  <2> QED BY <2>1, <1>1
<1> QED BY <1>1, <1>2

(* A loop over the slots finds something if there is something to find.    *)
LEMMA FirstExists ==
    ASSUME NEW S \in SUBSET Nat, S # {}
    PROVE  \E s \in S : First(S) = {s}
<1>1. PICK s \in S : \A r \in S : s <= r BY Least
<1>2. s \in First(S) BY <1>1 DEF First
<1> QED BY <1>2, FirstMember
-----------------------------------------------------------------------------
(* The metadata word.                                                      *)

(* Slots are numbered by naturals and there are SlotsPerBucket of them.    *)
LEMMA SlotIdsNat == SlotIds \subseteq Nat /\ IsFiniteSet(SlotIds)
                    /\ Cardinality(SlotIds) = SlotsPerBucket
BY MetaAssumption, FS_Interval DEF SlotIds

(* The word of a new bucket.                                              *)
LEMMA EmptyMetaIs == EmptyMeta \in MetaWords(Nat) /\ FullSlots(EmptyMeta) = {}
BY MetaAssumption DEF EmptyMeta, MetaWords, FullSlots, SlotStates

(* A hit changes priorities only.                                          *)
LEMMA OnAccessIs ==
    ASSUME NEW m \in MetaWords(Nat), NEW s \in SlotIds
    PROVE  /\ OnAccess(m, s) \in MetaWords(Nat)
           /\ OnAccess(m, s).state = m.state
           /\ OnAccess(m, s).h2 = m.h2
           /\ FullSlots(OnAccess(m, s)) = FullSlots(m)
<1> DEFINE freq == [m.freq EXCEPT ![s] = IF @ < MaxFreq THEN @ + 1 ELSE MaxFreq]
           recency == [r \in SlotIds |->
                         CASE r = s -> MaxRecency
                           [] r # s /\ m.state[r] = "Full" /\ m.recency[r] > 0
                                -> m.recency[r] - 1
                           [] OTHER -> m.recency[r]]
<1>1. freq \in [SlotIds -> 0 .. MaxFreq] BY MetaAssumption DEF MetaWords
<1>2. recency \in [SlotIds -> 0 .. MaxRecency]
  <2>1. \A r \in SlotIds : m.recency[r] \in 0 .. MaxRecency BY DEF MetaWords
  <2>2. \A r \in SlotIds : recency[r] \in 0 .. MaxRecency BY <2>1, MetaAssumption
  <2> QED BY <2>2
<1>3. OnAccess(m, s) = [m EXCEPT !.freq = freq, !.recency = recency] BY DEF OnAccess
<1> HIDE DEF freq, recency
<1>4. OnAccess(m, s) = [state |-> m.state, h2 |-> m.h2, freq |-> freq, recency |-> recency]
  BY <1>3 DEF MetaWords
<1> QED BY <1>1, <1>2, <1>4 DEF MetaWords, FullSlots

Occupy(m, s, h) == OnInsert(SetH2(SetState(m, s, "Full"), s, h), s)

(* A slot is given to a new key.                                           *)
LEMMA OccupyIs ==
    ASSUME NEW m \in MetaWords(Nat), NEW s \in SlotIds, NEW h \in Nat
    PROVE  /\ Occupy(m, s, h) \in MetaWords(Nat)
           /\ Occupy(m, s, h).h2 = [m.h2 EXCEPT ![s] = h]
           /\ FullSlots(Occupy(m, s, h)) = FullSlots(m) \cup {s}
<1>1. Occupy(m, s, h) = [state |-> [m.state EXCEPT ![s] = "Full"], h2 |-> [m.h2 EXCEPT ![s] = h],
                         freq |-> [m.freq EXCEPT ![s] = 0],
                         recency |-> [m.recency EXCEPT ![s] = 1]]
  <2>1. SetState(m, s, "Full") = [state |-> [m.state EXCEPT ![s] = "Full"], h2 |-> m.h2,
                                   freq |-> m.freq, recency |-> m.recency]
    BY DEF SetState, MetaWords
  <2> DEFINE st == [m.state EXCEPT ![s] = "Full"]
             hs == [m.h2 EXCEPT ![s] = h]
             u  == [state |-> st, h2 |-> m.h2, freq |-> m.freq, recency |-> m.recency]
             w  == [state |-> st, h2 |-> hs, freq |-> m.freq, recency |-> m.recency]
  <2>2. SetH2(u, s, h) = w BY DEF SetH2
  <2>3. OnInsert(w, s) = [state |-> st, h2 |-> hs, freq |-> [m.freq EXCEPT ![s] = 0],
                          recency |-> [m.recency EXCEPT ![s] = 1]]
    <3>1. w \in [state : [SlotIds -> SlotStates], h2 : [SlotIds -> Nat],
                 freq : [SlotIds -> 0 .. MaxFreq], recency : [SlotIds -> 0 .. MaxRecency]]
      BY DEF MetaWords, SlotStates
    <3>2. w.state = st /\ w.h2 = hs /\ w.freq = m.freq /\ w.recency = m.recency OBVIOUS
    <3> HIDE DEF w, st, hs
    <3> DEFINE fr == [w.freq EXCEPT ![s] = 0]
               re == [w.recency EXCEPT ![s] = 1]
    <3>3. OnInsert(w, s) = [w EXCEPT !.freq = fr, !.recency = re] BY DEF OnInsert
    <3> HIDE DEF fr, re
    <3>4. OnInsert(w, s) = [state |-> w.state, h2 |-> w.h2, freq |-> fr, recency |-> re]
      BY <3>1, <3>3
    <3> QED BY <3>2, <3>4 DEF fr, re
  <2>4. SetState(m, s, "Full") = u BY <2>1
  <2> HIDE DEF u, w, st, hs
  <2>5. Occupy(m, s, h) = OnInsert(w, s) BY <2>2, <2>4 DEF Occupy
  <2> QED BY <2>3, <2>5 DEF st, hs
<1>2. Occupy(m, s, h) \in MetaWords(Nat) BY <1>1, MetaAssumption DEF MetaWords, SlotStates
<1>3. FullSlots(Occupy(m, s, h)) = FullSlots(m) \cup {s} BY <1>1 DEF MetaWords, FullSlots
<1> QED BY <1>1, <1>2, <1>3

(* A slot is given up.                                                     *)
LEMMA TombstoneIs ==
    ASSUME NEW m \in MetaWords(Nat), NEW s \in SlotIds
    PROVE  /\ SetState(m, s, "Tombstone") \in MetaWords(Nat)
           /\ SetState(m, s, "Tombstone").h2 = m.h2
           /\ FullSlots(SetState(m, s, "Tombstone")) = FullSlots(m) \ {s}
BY MetaAssumption DEF SetState, MetaWords, FullSlots, SlotStates
-----------------------------------------------------------------------------
(* The slab pool.  live is the set of indices that slots refer to.         *)
Pools == [entries : Seq([key : Keys, val : Values]), free : Seq(Nat)]

OnFreeList(p) == {p.free[i] : i \in DOMAIN p.free}

PoolOwned(p, live) ==
    /\ \A i, j \in DOMAIN p.free : p.free[i] = p.free[j] => i = j
    /\ live \cap OnFreeList(p) = {}
    /\ live \cup OnFreeList(p) = DOMAIN p.entries

(* A new pool is empty.                                                    *)
LEMMA NewPoolIs == NewPool \in Pools /\ PoolOwned(NewPool, {})
BY DEF NewPool, Pools, PoolOwned, OnFreeList

(* The stack of the free list: pushing and popping keep it duplicate free. *)
LEMMA PushUnique ==
    ASSUME NEW f \in Seq(Nat), NEW i \in Nat,
           \A a, b \in DOMAIN f : f[a] = f[b] => a = b,
           i \notin {f[a] : a \in DOMAIN f}
    PROVE  LET g == <<i>> \o f
           IN  /\ g \in Seq(Nat)
               /\ \A a, b \in DOMAIN g : g[a] = g[b] => a = b
               /\ {g[a] : a \in DOMAIN g} = {f[a] : a \in DOMAIN f} \cup {i}
<1> DEFINE g == <<i>> \o f
           n == Len(f)
<1>1. /\ n \in Nat /\ DOMAIN f = 1 .. n /\ g \in Seq(Nat) /\ DOMAIN g = 1 .. (n + 1)
      /\ g[1] = i /\ \A a \in 2 .. (n + 1) : g[a] = f[a - 1]
  OBVIOUS
<1> HIDE DEF g, n
<1>2. \A a \in 2 .. (n + 1) : a - 1 \in DOMAIN f /\ g[a] = f[a - 1] /\ g[a] # i
  <2> TAKE a \in 2 .. (n + 1)
  <2>1. a - 1 \in DOMAIN f /\ g[a] = f[a - 1] BY <1>1
  <2> QED BY <2>1
<1>3. \A a \in DOMAIN f : a + 1 \in 2 .. (n + 1) /\ g[a + 1] = f[a] BY <1>1
<1>4. ASSUME NEW a \in DOMAIN g, NEW b \in DOMAIN g, g[a] = g[b] PROVE a = b
  <2>1. CASE a = 1 \/ b = 1 BY <2>1, <1>1, <1>2, <1>4
  <2>2. CASE a # 1 /\ b # 1
    <3>1. a \in 2 .. (n + 1) /\ b \in 2 .. (n + 1) BY <2>2, <1>1
    <3>2. a - 1 = b - 1 BY <3>1, <1>2, <1>4
    <3> QED BY <3>1, <3>2
  <2> QED BY <2>1, <2>2
<1>5. ASSUME NEW a \in DOMAIN g PROVE g[a] \in {f[x] : x \in DOMAIN f} \cup {i}
  <2>1. CASE a = 1 BY <2>1, <1>1
  <2>2. CASE a # 1
    <3>1. a \in 2 .. (n + 1) BY <2>2, <1>1
    <3>2. a - 1 \in DOMAIN f /\ g[a] = f[a - 1] BY <3>1, <1>2
    <3> QED BY <3>2
  <2> QED BY <2>1, <2>2
<1>6. ASSUME NEW a \in DOMAIN f PROVE f[a] \in {g[x] : x \in DOMAIN g}
  <2>1. a + 1 \in DOMAIN g /\ g[a + 1] = f[a] BY <1>1, <1>3
  <2> QED BY <2>1
<1>7. i \in {g[x] : x \in DOMAIN g} BY <1>1
<1>8. {g[a] : a \in DOMAIN g} = {f[a] : a \in DOMAIN f} \cup {i} BY <1>5, <1>6, <1>7
<1> QED BY <1>1, <1>4, <1>8 DEF g

(* Popping takes one index off the list and keeps it duplicate free.       *)
LEMMA PopUnique ==
    ASSUME NEW f \in Seq(Nat), f # <<>>,
           \A a, b \in DOMAIN f : f[a] = f[b] => a = b
    PROVE  LET g == Tail(f)
           IN  /\ g \in Seq(Nat) /\ Head(f) \in {f[a] : a \in DOMAIN f}
               /\ \A a, b \in DOMAIN g : g[a] = g[b] => a = b
               /\ {g[a] : a \in DOMAIN g} = {f[a] : a \in DOMAIN f} \ {Head(f)}
<1> DEFINE g == Tail(f)
           n == Len(f)
<1>1. /\ n \in Nat /\ n >= 1 /\ DOMAIN f = 1 .. n /\ g \in Seq(Nat) /\ DOMAIN g = 1 .. (n - 1)
      /\ Head(f) = f[1] /\ \A a \in 1 .. (n - 1) : g[a] = f[a + 1]
  OBVIOUS
<1> HIDE DEF g, n
<1>2. \A a \in 1 .. (n - 1) : a + 1 \in DOMAIN f /\ g[a] = f[a + 1] /\ g[a] # f[1]
  <2> TAKE a \in 1 .. (n - 1)
  <2>1. a + 1 \in DOMAIN f /\ 1 \in DOMAIN f /\ a + 1 # 1 BY <1>1
  <2>2. f[a + 1] # f[1] BY <2>1
  <2> QED BY <2>1, <2>2, <1>1
<1>3. \A a \in 2 .. n : a - 1 \in 1 .. (n - 1) /\ g[a - 1] = f[a] BY <1>1
<1>4. ASSUME NEW a \in DOMAIN g, NEW b \in DOMAIN g, g[a] = g[b] PROVE a = b
  <2>1. a + 1 = b + 1 BY <1>1, <1>2, <1>4
  <2> QED BY <2>1, <1>1
<1>5. ASSUME NEW a \in DOMAIN g PROVE g[a] \in {f[x] : x \in DOMAIN f} \ {f[1]}
  <2>1. a + 1 \in DOMAIN f /\ g[a] = f[a + 1] /\ g[a] # f[1] BY <1>1, <1>2
  <2> QED BY <2>1
<1>6. ASSUME NEW a \in DOMAIN f, f[a] # f[1] PROVE f[a] \in {g[x] : x \in DOMAIN g}
  <2>1. a \in 2 .. n BY <1>1, <1>6
  <2>2. a - 1 \in DOMAIN g /\ g[a - 1] = f[a] BY <2>1, <1>1, <1>3
  <2> QED BY <2>2
<1>7. {g[a] : a \in DOMAIN g} = {f[a] : a \in DOMAIN f} \ {f[1]} BY <1>5, <1>6
<1>8. f[1] \in {f[a] : a \in DOMAIN f} BY <1>1
<1> QED BY <1>1, <1>4, <1>7, <1>8 DEF g

(* free: the index moves from the slots to the free list.                  *)
LEMMA FreeIs ==
    ASSUME NEW p \in Pools, NEW live, PoolOwned(p, live), NEW i \in live
    PROVE  /\ Free(p, i) \in Pools
           /\ Free(p, i).entries = p.entries
           /\ PoolOwned(Free(p, i), live \ {i})
<1> DEFINE f == p.free
           g == <<i>> \o f
<1>1. /\ f \in Seq(Nat) /\ p = [entries |-> p.entries, free |-> f]
      /\ p.entries \in Seq([key : Keys, val : Values])
  BY DEF Pools
<1>2. i \in DOMAIN p.entries /\ i \notin OnFreeList(p) BY DEF PoolOwned
<1>3. i \in Nat
  <2> DEFINE e == p.entries
  <2>1. e \in Seq([key : Keys, val : Values]) /\ i \in DOMAIN e BY <1>1, <1>2
  <2> HIDE DEF e
  <2> QED BY <2>1
<1>4. \A a, b \in DOMAIN f : f[a] = f[b] => a = b BY DEF PoolOwned
<1>5. i \notin {f[a] : a \in DOMAIN f} BY <1>2 DEF OnFreeList
<1>6. Free(p, i) = [entries |-> p.entries, free |-> g]
  <2>1. p \in [entries : Seq([key : Keys, val : Values]), free : Seq(Nat)] BY DEF Pools
  <2> HIDE DEF g
  <2>2. [p EXCEPT !.free = g] = [entries |-> p.entries, free |-> g] BY <2>1
  <2> QED BY <2>2 DEF Free, g
<1> HIDE DEF f
<1>7. /\ g \in Seq(Nat)
      /\ \A a, b \in DOMAIN g : g[a] = g[b] => a = b
      /\ {g[a] : a \in DOMAIN g} = {f[a] : a \in DOMAIN f} \cup {i}
  BY <1>1, <1>3, <1>4, <1>5, PushUnique
<1> HIDE DEF g
<1>8. Free(p, i) \in Pools BY <1>1, <1>6, <1>7 DEF Pools
<1>9. OnFreeList(Free(p, i)) = OnFreeList(p) \cup {i}
  <2>1. OnFreeList(Free(p, i)) = {g[a] : a \in DOMAIN g} BY <1>6 DEF OnFreeList
  <2>2. OnFreeList(p) = {f[a] : a \in DOMAIN f} BY DEF OnFreeList, f
  <2> QED BY <2>1, <2>2, <1>7
<1>10. PoolOwned(Free(p, i), live \ {i}) BY <1>2, <1>6, <1>7, <1>9 DEF PoolOwned
<1> QED BY <1>6, <1>8, <1>10

(* alloc: an index that no slot refers to; the other entries stay.         *)
LEMMA AllocIs ==
    ASSUME NEW p \in Pools, NEW live, PoolOwned(p, live), NEW k \in Keys, NEW v \in Values
    PROVE  LET i == AllocIdx(p)
               q == Alloc(p, k, v)
           IN  /\ i \in Nat /\ i \notin live
               /\ q \in Pools
               /\ q.entries[i] = [key |-> k, val |-> v]
               /\ \A j \in live : q.entries[j] = p.entries[j]
               /\ PoolOwned(q, live \cup {i})
<1> DEFINE i == AllocIdx(p)
           q == Alloc(p, k, v)
           new == [key |-> k, val |-> v]
           f == p.free
           e == p.entries
           E == [key : Keys, val : Values]
<1>0. e \in Seq(E) /\ f \in Seq(Nat) /\ new \in E /\ p = [entries |-> e, free |-> f]
  BY DEF Pools
<1>1. CASE f = <<>>
  <2>1. i = Len(e) + 1 BY <1>1 DEF AllocIdx
  <2>2. q = [entries |-> Append(e, new), free |-> f] BY <1>1, <1>0 DEF Alloc
  <2>3. OnFreeList(p) = {} /\ OnFreeList(q) = {} BY <1>1, <2>2 DEF OnFreeList
  <2>4. live = DOMAIN e BY <2>3 DEF PoolOwned
  <2> HIDE DEF e, f, E, new, i
  <2>5. /\ Append(e, new) \in Seq(E) /\ i \in Nat /\ i \notin DOMAIN e
        /\ DOMAIN Append(e, new) = DOMAIN e \cup {i}
        /\ \A j \in DOMAIN e : Append(e, new)[j] = e[j]
        /\ Append(e, new)[i] = new
    BY <1>0, <2>1
  <2>6. q \in Pools BY <2>2, <2>5, <1>0 DEF Pools, E
  <2>7. DOMAIN q.free = {} BY <1>1, <2>2
  <2>8. PoolOwned(q, live \cup {i})
    <3>1. live \cup {i} = DOMAIN q.entries BY <2>2, <2>4, <2>5
    <3> QED BY <2>3, <2>7, <3>1 DEF PoolOwned
  <2> HIDE DEF q
  <2> QED BY <2>2, <2>4, <2>5, <2>6, <2>8 DEF i, q, e, new
<1>2. CASE f # <<>>
  <2>1. i = Head(f) BY <1>2 DEF AllocIdx
  <2>2. q = [entries |-> [e EXCEPT ![i] = new], free |-> Tail(f)]
    BY <1>2 DEF Alloc, AllocIdx
  <2>3. \A a, b \in DOMAIN f : f[a] = f[b] => a = b BY DEF PoolOwned
  <2> DEFINE g == Tail(f)
  <2> HIDE DEF e, f, E, new, i
  <2>4. /\ g \in Seq(Nat) /\ i \in {f[a] : a \in DOMAIN f}
        /\ \A a, b \in DOMAIN g : g[a] = g[b] => a = b
        /\ {g[a] : a \in DOMAIN g} = {f[a] : a \in DOMAIN f} \ {i}
    BY <1>0, <1>2, <2>1, <2>3, PopUnique
  <2> HIDE DEF g
  <2>5. q.free = g /\ q.entries = [e EXCEPT ![i] = new] BY <2>2 DEF g
  <2>6. i \in OnFreeList(p) /\ OnFreeList(q) = OnFreeList(p) \ {i}
    <3>1. OnFreeList(p) = {f[a] : a \in DOMAIN f} BY DEF OnFreeList, f
    <3>2. OnFreeList(q) = {g[a] : a \in DOMAIN g} BY <2>5 DEF OnFreeList
    <3> QED BY <3>1, <3>2, <2>4
  <2>7. i \notin live /\ i \in DOMAIN e /\ live \subseteq DOMAIN e BY <2>6 DEF PoolOwned, e
  <2>8. /\ [e EXCEPT ![i] = new] \in Seq(E) /\ i \in Nat
        /\ DOMAIN [e EXCEPT ![i] = new] = DOMAIN e
        /\ \A j \in DOMAIN e : [e EXCEPT ![i] = new][j] = IF j = i THEN new ELSE e[j]
    BY <1>0, <2>7
  <2>9. q \in Pools BY <2>2, <2>4, <2>8 DEF Pools, E, g
  <2>10. live \cup {i} \cup OnFreeList(q) = DOMAIN q.entries
    BY <2>5, <2>6, <2>7, <2>8 DEF PoolOwned, e
  <2>11. PoolOwned(q, live \cup {i})
    <3> HIDE DEF q
    <3> QED BY <2>4, <2>5, <2>6, <2>7, <2>10 DEF PoolOwned
  <2> HIDE DEF q
  <2> QED BY <2>5, <2>7, <2>8, <2>9, <2>11 DEF i, q, e, new
<1> QED BY <1>1, <1>2
-----------------------------------------------------------------------------
(* Slots and the pool together.  sl gives the slots of every bucket; occ   *)
(* is the set of places <<bucket, slot>> whose contents count.             *)
At(sl, o)       == sl[o[1]][o[2]]
Refs(sl, occ)   == {o \in occ : At(sl, o).mode = 1}
Live(sl, occ)   == {At(sl, o).idx : o \in Refs(sl, occ)}

Owned(sl, occ, p) ==
    /\ \A o, q \in Refs(sl, occ) : At(sl, o).idx = At(sl, q).idx => o = q
    /\ PoolOwned(p, Live(sl, occ))

(* A slot with contents: a pair, or an index with the key's fingerprint.   *)
RightSlot(c, p) ==
    \/ c.mode = 0 /\ c.key \in Keys /\ c.val \in Values
    \/ c.mode = 1 /\ c.fp = ExtFp[p.entries[c.idx].key]

(* What the references of a slot are depends on its contents only.         *)
LEMMA OwnedSame ==
    ASSUME NEW sl, NEW sl2, NEW occ, NEW p, \A o \in occ : At(sl2, o) = At(sl, o),
           Owned(sl, occ, p)
    PROVE  Owned(sl2, occ, p) /\ Live(sl2, occ) = Live(sl, occ)
<1>1. Refs(sl2, occ) = Refs(sl, occ) BY DEF Refs
<1>2. \A o \in Refs(sl, occ) : At(sl2, o) = At(sl, o) BY DEF Refs
<1>3. Live(sl2, occ) = Live(sl, occ) BY <1>1, <1>2 DEF Live
<1> QED BY <1>1, <1>2, <1>3 DEF Owned

(* The keys and values of slots that refer to live entries are in range.   *)
LEMMA ContentsIn ==
    ASSUME NEW sl, NEW occ, NEW p \in Pools, Owned(sl, occ, p),
           NEW o \in occ, RightSlot(At(sl, o), p)
    PROVE  SlotKey(At(sl, o), p) \in Keys /\ SlotValue(At(sl, o), p) \in Values
<1>1. CASE At(sl, o).mode = 0 BY <1>1 DEF RightSlot, SlotKey, SlotValue
<1>2. CASE At(sl, o).mode # 0
  <2>1. o \in Refs(sl, occ) BY <1>2 DEF RightSlot, Refs
  <2>2. At(sl, o).idx \in DOMAIN p.entries BY <2>1 DEF Owned, PoolOwned, Live
  <2>3. p.entries[At(sl, o).idx] \in [key : Keys, val : Values]
    <3> DEFINE e == p.entries
               i == At(sl, o).idx
               E == [key : Keys, val : Values]
    <3>1. e \in Seq(E) /\ i \in DOMAIN e BY <2>2 DEF Pools
    <3> HIDE DEF e, i, E
    <3>2. e[i] \in E BY <3>1
    <3> QED BY <3>2 DEF e, i, E
  <2> QED BY <1>2, <2>3 DEF SlotKey, SlotValue
<1> QED BY <1>1, <1>2

(* Giving up the contents of one place.                                    *)
LEMMA ReleaseIs ==
    ASSUME NEW sl, NEW occ, NEW p \in Pools, Owned(sl, occ, p),
           NEW o \in occ, RightSlot(At(sl, o), p)
    PROVE  LET q == Release(p, At(sl, o))
           IN  q \in Pools /\ q.entries = p.entries /\ Owned(sl, occ \ {o}, q)
<1> DEFINE rest == occ \ {o}
<1>1. CASE At(sl, o).mode = 1
  <2> DEFINE i == At(sl, o).idx
  <2>1. o \in Refs(sl, occ) BY <1>1 DEF Refs
  <2>2. i \in Live(sl, occ) BY <2>1 DEF Live
  <2>3. Refs(sl, rest) = Refs(sl, occ) \ {o} BY DEF Refs
  <2>4. Live(sl, rest) = Live(sl, occ) \ {i}
    <3>1. \A q \in Refs(sl, rest) : At(sl, q).idx # i BY <2>1, <2>3 DEF Owned
    <3> QED BY <2>3, <3>1 DEF Live
  <2>5. /\ Free(p, i) \in Pools /\ Free(p, i).entries = p.entries
        /\ PoolOwned(Free(p, i), Live(sl, occ) \ {i})
    BY <2>2, FreeIs DEF Owned
  <2>6. Owned(sl, rest, Free(p, i)) BY <2>3, <2>4, <2>5 DEF Owned
  <2> QED BY <1>1, <2>5, <2>6 DEF Release
<1>2. CASE At(sl, o).mode # 1
  <2>1. Refs(sl, rest) = Refs(sl, occ) BY <1>2 DEF Refs
  <2>2. Live(sl, rest) = Live(sl, occ) BY <2>1 DEF Live
  <2>3. Owned(sl, rest, p) BY <2>1, <2>2 DEF Owned
  <2> QED BY <1>2, <2>3 DEF Release
<1> QED BY <1>1, <1>2

(* The slots become sl2 by writing a pair to one more place.               *)
Writes(sl, sl2, occ, p, x, k, v) ==
    /\ p \in Pools /\ Owned(sl, occ, p)
    /\ x \notin occ /\ k \in Keys /\ v \in Values
    /\ \A o \in occ : At(sl2, o) = At(sl, o)
    /\ At(sl2, x) = WrittenSlot(p, k, v)

(* The pair can be read back, the other slots' entries stay, and every     *)
(* index is still owned once.                                              *)
Written(sl, sl2, occ, p, x, k, v) ==
    LET q == PoolAfterWrite(p, k, v)
        c == WrittenSlot(p, k, v)
    IN  /\ q \in Pools /\ c \in SlotTypes
        /\ Owned(sl2, occ \cup {x}, q)
        /\ \A i \in Live(sl, occ) : q.entries[i] = p.entries[i]
        /\ RightSlot(c, q) /\ SlotKey(c, q) = k /\ SlotValue(c, q) = v

(* What a write of a pair to a free place leaves behind.                   *)
LEMMA WriteIs ==
    ASSUME NEW sl, NEW sl2, NEW occ, NEW p, NEW x, NEW k, NEW v,
           Writes(sl, sl2, occ, p, x, k, v)
    PROVE  Written(sl, sl2, occ, p, x, k, v)
<1> USE DEF Writes
<1> DEFINE all == occ \cup {x}
<1>1. Owned(sl2, occ, p) /\ Live(sl2, occ) = Live(sl, occ) BY OwnedSame
<1>2. CASE Fits(k, v)
  <2>1. PoolAfterWrite(p, k, v) = p /\ WrittenSlot(p, k, v) = [mode |-> 0, key |-> k, val |-> v]
    BY <1>2 DEF PoolAfterWrite, WrittenSlot, InlineSlot
  <2>2. Refs(sl2, all) = Refs(sl2, occ) BY <2>1 DEF Refs
  <2>3. Live(sl2, all) = Live(sl2, occ) BY <2>2 DEF Live
  <2>4. Owned(sl2, all, p) BY <2>2, <2>3, <1>1 DEF Owned
  <2>5. WrittenSlot(p, k, v) \in SlotTypes BY <2>1 DEF SlotTypes
  <2>6. RightSlot(WrittenSlot(p, k, v), p) BY <2>1 DEF RightSlot
  <2> QED BY <2>1, <2>4, <2>5, <2>6 DEF SlotKey, SlotValue, Written
<1>3. CASE ~Fits(k, v)
  <2> DEFINE i == AllocIdx(p)
             q == Alloc(p, k, v)
  <2>1. /\ PoolAfterWrite(p, k, v) = q
        /\ WrittenSlot(p, k, v) = [mode |-> 1, fp |-> ExtFp[k], idx |-> i]
    BY <1>3 DEF PoolAfterWrite, WrittenSlot, SlabSlot
  <2>2. /\ i \in Nat /\ i \notin Live(sl, occ) /\ q \in Pools
        /\ q.entries[i] = [key |-> k, val |-> v]
        /\ \A j \in Live(sl, occ) : q.entries[j] = p.entries[j]
        /\ PoolOwned(q, Live(sl, occ) \cup {i})
    BY AllocIs DEF Owned
  <2> HIDE DEF i, q
  <2>3. At(sl2, x).mode = 1 /\ At(sl2, x).idx = i BY <2>1
  <2>4. Refs(sl2, all) = Refs(sl2, occ) \cup {x} BY <2>3 DEF Refs
  <2>5. Live(sl2, all) = Live(sl2, occ) \cup {i} BY <2>3, <2>4 DEF Live
  <2>6. \A o \in Refs(sl2, occ) : At(sl2, o).idx # i BY <2>2, <1>1 DEF Live
  <2>7. Owned(sl2, all, q) BY <2>2, <2>3, <2>4, <2>5, <2>6, <1>1 DEF Owned
  <2>8. WrittenSlot(p, k, v) \in SlotTypes BY <2>1, <2>2 DEF SlotTypes
  <2>9. RightSlot(WrittenSlot(p, k, v), q) BY <2>1, <2>2 DEF RightSlot
  <2> QED BY <2>1, <2>2, <2>7, <2>8, <2>9 DEF SlotKey, SlotValue, Written
<1> QED BY <1>2, <1>3

(* A place whose entry, if it has one, stays keeps its key and value.      *)
LEMMA ContentsStay ==
    ASSUME NEW sl, NEW occ, NEW p, NEW q, NEW o \in occ,
           \A i \in Live(sl, occ) : q.entries[i] = p.entries[i],
           RightSlot(At(sl, o), p)
    PROVE  /\ SlotKey(At(sl, o), q) = SlotKey(At(sl, o), p)
           /\ SlotValue(At(sl, o), q) = SlotValue(At(sl, o), p)
           /\ RightSlot(At(sl, o), q)
<1>1. CASE At(sl, o).mode = 0 BY <1>1 DEF RightSlot, SlotKey, SlotValue
<1>2. CASE At(sl, o).mode = 1
  <2>1. At(sl, o).idx \in Live(sl, occ) BY <1>2 DEF Live, Refs
  <2> QED BY <1>2, <2>1 DEF RightSlot, SlotKey, SlotValue
<1> QED BY <1>1, <1>2 DEF RightSlot

(* A slot with contents matches exactly the key it holds.                  *)
LEMMA MatchesIs ==
    ASSUME NEW c, NEW p, NEW k, RightSlot(c, p)
    PROVE  MatchesKey(c, k, p) <=> SlotKey(c, p) = k
BY DEF RightSlot, MatchesKey, SlotKey
=============================================================================
