------------------------- MODULE AccessBufferProofs -------------------------
(***************************************************************************)
(* Proofs about AccessBuffer for every number of threads, every ring       *)
(* length of at least 2, every number of words that the length and four    *)
(* divide, every start of the counters and every staleness of the loads.   *)
(***************************************************************************)
EXTENDS AccessBuffer, Arithmetic, SequenceTheorems

-----------------------------------------------------------------------------
(* What the algorithm needs to know about counter values and ring slots.   *)

(* Counter values are usize values and index existing slots.               *)
LEMMA AtType ==
    ASSUME NEW k \in Nat
    PROVE  /\ At(k) \in 0 .. (Modulus - 1)
           /\ At(k) \in Nat
           /\ Slot(At(k)) \in Slots
           /\ Slot(At(k)) = (Start + k) % Cap
<1>1. Start + k \in Nat /\ Modulus > 0 /\ Cap > 0 /\ Cap \in Nat /\ Modulus \in Nat
      /\ Modulus % Cap = 0
  BY CapAssumption, ModulusAssumption
<1>2. At(k) \in 0 .. (Modulus - 1) BY <1>1, DivMod DEF At
<1>3. Slot(At(k)) = (Start + k) % Cap BY <1>1, RemainderNested DEF At, Slot
<1>4. (Start + k) % Cap \in 0 .. (Cap - 1) BY <1>1, DivMod
<1> QED BY <1>1, <1>2, <1>3, <1>4 DEF Slots

(* wrapping_add moves a counter value on.                                  *)
LEMMA AtAdd ==
    ASSUME NEW k \in Nat, NEW n \in Nat
    PROVE  WrappingAdd(At(k), n) = At(k + n)
<1>1. Start + k \in Nat /\ Modulus \in Nat /\ Modulus > 0
  BY CapAssumption, ModulusAssumption
<1>2. (((Start + k) % Modulus) + n) % Modulus = ((Start + k) + n) % Modulus
  BY <1>1, RemainderAdd
<1>3. (Start + k) + n = Start + (k + n) BY ModulusAssumption
<1> QED BY <1>2, <1>3 DEF At, WrappingAdd

(* Two positions less than Modulus apart have different counter values.    *)
LEMMA AtInjective ==
    ASSUME NEW j \in Nat, NEW k \in Nat, j < k + Modulus, k < j + Modulus,
           At(j) = At(k)
    PROVE  j = k
<1>1. Start + j \in Nat /\ Start + k \in Nat /\ Modulus \in Nat /\ Modulus > 0
      /\ Start + j < (Start + k) + Modulus /\ Start + k < (Start + j) + Modulus
  BY CapAssumption, ModulusAssumption
<1>2. Start + j = Start + k BY <1>1, RemainderWindow DEF At
<1> QED BY <1>2, ModulusAssumption

(* Two positions less than Cap apart use different slots.                  *)
LEMMA SlotInjective ==
    ASSUME NEW j \in Nat, NEW k \in Nat, j < k + Cap, k < j + Cap,
           Slot(At(j)) = Slot(At(k))
    PROVE  j = k
<1>1. Start + j \in Nat /\ Start + k \in Nat /\ Cap \in Nat /\ Cap > 0
      /\ Start + j < (Start + k) + Cap /\ Start + k < (Start + j) + Cap
  BY CapAssumption, ModulusAssumption
<1>2. (Start + j) % Cap = (Start + k) % Cap BY AtType
<1>3. Start + j = Start + k BY <1>1, <1>2, RemainderWindow
<1> QED BY <1>3, ModulusAssumption

(* Neighbouring positions use different slots; one generation later the    *)
(* slot is the same.                                                       *)
LEMMA SlotSteps ==
    ASSUME NEW k \in Nat
    PROVE  /\ Slot(At(k + 1)) # Slot(At(k))
           /\ Slot(At(k + Cap)) = Slot(At(k))
<1>1. k + 1 \in Nat /\ k + 1 < k + Cap /\ k < (k + 1) + Cap /\ k # k + 1
      /\ Cap \in Nat /\ Cap > 0 /\ k + Cap \in Nat /\ Start \in Nat
  BY CapAssumption, ModulusAssumption
<1>2. Slot(At(k + 1)) # Slot(At(k)) BY <1>1, SlotInjective
<1> DEFINE p == Start + k
           a == p \div Cap
           r == p % Cap
<1>3. p \in Nat /\ a \in Nat /\ p = Cap * a + r /\ r \in 0 .. (Cap - 1)
      /\ Start + (k + Cap) = p + Cap
  BY <1>1, DivMod
<1> HIDE DEF p, a, r
<1>4. Cap * (a + 1) = Cap * a + Cap BY <1>1, <1>3
<1>5. p + Cap = Cap * (a + 1) + r /\ a + 1 \in Int /\ p + Cap \in Nat
  BY <1>1, <1>3, <1>4
<1>6. (p + Cap) % Cap = r
  <2> DEFINE b == a + 1
  <2>1. b \in Int /\ p + Cap = Cap * b + r BY <1>5
  <2> HIDE DEF b
  <2> QED BY <2>1, <1>1, <1>3, <1>5, RemainderIs
<1>7. Slot(At(k + Cap)) = r BY <1>1, <1>3, <1>6, AtType
<1>8. Slot(At(k)) = r BY <1>1, AtType DEF p, r
<1> QED BY <1>2, <1>7, <1>8

(* The tags that new() writes: every one of the first Cap positions finds  *)
(* its slot open.                                                          *)
LEMMA InitialTags ==
    ASSUME NEW k \in 0 .. (Cap - 1)
    PROVE  (Slot(At(k)) + Modulus - Start) % Cap = k
<1>1. Cap \in Nat /\ Cap > 0 /\ Modulus \in Nat /\ Start \in Nat /\ k \in Nat
      /\ Start < Modulus /\ Modulus % Cap = 0 /\ Start + k \in Nat
  BY CapAssumption, ModulusAssumption
<1> DEFINE i == Slot(At(k))
           a == (Start + k) \div Cap
           g == Modulus \div Cap
           q == i + Modulus - Start
           c == g - a
<1>2. i \in 0 .. (Cap - 1) /\ a \in Nat /\ Start + k = Cap * a + i
  BY <1>1, AtType, DivMod DEF Slots
<1>3. g \in Nat /\ Modulus = Cap * g BY <1>1, DivMod
<1> HIDE DEF i, a, g
<1>4. Cap * c = Cap * g - Cap * a BY <1>1, <1>2, <1>3
<1>5. q = Cap * c + k /\ c \in Int /\ q \in Nat BY <1>1, <1>2, <1>3, <1>4
<1> HIDE DEF q, c
<1>6. q % Cap = k BY <1>1, <1>5, RemainderIs
<1> QED BY <1>6 DEF q, i
-----------------------------------------------------------------------------
(* The invariant.                                                          *)

(* What the tag protocol needs of the types: payloads and events are any   *)
(* numbers here; that they fit their word is shown below.                  *)
Shapes ==
    /\ head \in 0 .. (Modulus - 1) /\ tail \in 0 .. (Modulus - 1)
    /\ seq \in [Slots -> 0 .. (Modulus - 1)]
    /\ data \in [Slots -> Nat]
    /\ pc \in [Threads -> Labels]
    /\ pos \in [Threads -> 0 .. (Modulus - 1)]
    /\ arg \in [Threads -> Nat \X Nat]
    /\ val \in [Threads -> Nat]
    /\ left \in [Threads -> Nat]
    /\ excl \in Threads \cup {NoThread}
    /\ log \in Seq(Nat \X Nat)
    /\ taken \in Nat
    /\ idx \in [Threads -> Nat]

(* The inductive invariant: the conjuncts of RingInv and the types they    *)
(* rest on.                                                                *)
Protocol == /\ Shapes /\ Counters /\ Loaded /\ BusyTags /\ FreeTags
            /\ Producers /\ Consumers /\ Distinct

(* An event is encoded in a natural number and decoded to itself.          *)
LEMMA EncodeDecode ==
    ASSUME NEW r \in Nat \X Nat
    PROVE  Encode(r) \in Nat /\ (Valid(r) => Decode(Encode(r)) = r)
<1>1. r[1] \in Nat /\ r[2] \in Nat /\ r = <<r[1], r[2]>> OBVIOUS
<1>2. Encode(r) \in Nat BY <1>1 DEF Encode
<1>3. ASSUME r[2] < 4
      PROVE  (r[1] * 4 + r[2]) \div 4 = r[1] /\ (r[1] * 4 + r[2]) % 4 = r[2]
  <2>1. \A x, y \in Nat : y < 4 => (x * 4 + y) \div 4 = x /\ (x * 4 + y) % 4 = y
    OBVIOUS
  <2> QED BY <2>1, <1>1, <1>3, Zenon
<1> QED BY <1>1, <1>2, <1>3 DEF Encode, Decode, Valid

(* The state in which new() leaves the buffer.                             *)
LEMMA InitInv == Init => Protocol
<1> SUFFICES ASSUME Init PROVE Protocol OBVIOUS
<1> USE DEF Init
<1>0. Cap \in Nat /\ Cap >= 2 /\ Modulus \in Nat /\ Start \in Nat /\ Start < Modulus
      /\ Cap < Modulus
  BY CapAssumption, ModulusAssumption
<1>1. \A i \in Slots : (i + Modulus - Start) % Cap \in Nat
  <2> TAKE i \in Slots
  <2>1. i + Modulus - Start \in Nat BY <1>0 DEF Slots
  <2> QED BY <2>1, <1>0, DivMod
<1>2. Shapes
  <2>1. seq \in [Slots -> 0 .. (Modulus - 1)] BY <1>1, AtType
  <2> QED BY <2>1, <1>0 DEF Shapes, Labels
<1>3. At(0) = Start
  <2> DEFINE q == Start \div Modulus
  <2>0. Modulus > 0 BY <1>0
  <2>1. q \in Nat /\ Start = Modulus * q + (Start % Modulus)
        /\ Start % Modulus \in 0 .. (Modulus - 1)
    <3> HIDE DEF Init
    <3> QED BY <1>0, <2>0, DivMod
  <2> HIDE DEF q
  <2>2. q >= 1 => Modulus * q >= Modulus BY <2>1, <1>0
  <2>3. q = 0 BY <2>1, <2>2, <1>0
  <2>4. Start % Modulus = Start BY <2>1, <2>3, <1>0
  <2> QED BY <2>4, <1>0 DEF At
<1>4. Counters BY <1>0, <1>3 DEF Counters, Bounded
<1>5. Loaded /\ Producers /\ Consumers /\ Distinct
  BY DEF Loaded, Producers, Consumers, Distinct, Producing, Consuming
<1>6. BusyTags BY DEF BusyTags
<1>7. FreeTags
  <2> SUFFICES ASSUME NEW k \in 0 .. (Cap - 1) PROVE Tag(k) = At(k)
    BY <1>0 DEF FreeTags
  <2>1. Slot(At(k)) \in Slots BY AtType
  <2>2. Tag(k) = At((Slot(At(k)) + Modulus - Start) % Cap) BY <2>1 DEF Tag
  <2> QED BY <2>2, InitialTags
<1> QED BY <1>2, <1>4, <1>5, <1>6, <1>7 DEF Protocol

(* Facts about the constants, in the form the step lemmas use.             *)
LEMMA Constants ==
    /\ Cap \in Nat /\ Cap >= 2 /\ Modulus \in Nat /\ Stale \in Nat
    /\ Cap + Stale < Modulus
    /\ Requests \subseteq Nat \X Nat /\ DrainBatch \in Nat
    /\ NoThread \notin Threads
BY CapAssumption, ModulusAssumption, CallAssumption

(* Tags are only ever set to counter values.                               *)
LEMMA TagUpdate ==
    ASSUME NEW f \in [Slots -> 0 .. (Modulus - 1)], NEW i, NEW k \in Nat
    PROVE  [f EXCEPT ![i] = At(k)] \in [Slots -> 0 .. (Modulus - 1)]
BY AtType

(* Moving both ends of a window by one keeps its width.                    *)
LEMMA WindowShift ==
    ASSUME NEW a \in Nat, NEW b \in Nat, a < b + Modulus, b < a + Modulus
    PROVE  /\ a + 1 \in Nat /\ b + 1 \in Nat
           /\ a + 1 < (b + 1) + Modulus /\ b + 1 < (a + 1) + Modulus
BY Constants

(* A step that touches neither the ring nor the history preserves what     *)
(* the invariant says about them.                                          *)
LEMMA RingUnchanged ==
    ASSUME Protocol, UNCHANGED <<head, tail, seq, data, log, taken>>
    PROVE  Counters' /\ BusyTags' /\ FreeTags'
BY DEF Protocol, Counters, Bounded, BusyTags, FreeTags, Tag

(* The end of a call: t leaves, nothing else changes.                      *)
LEMMA ReturnInv ==
    ASSUME Protocol, NEW t \in Threads, Return(t),
           UNCHANGED <<head, tail, seq, data, log, taken>>
    PROVE  Protocol'
<1> USE DEF Protocol
<1>1. Shapes'
  <2>1. arg' \in [Threads -> Nat \X Nat]
    <3>1. <<0, 0>> \in Nat \X Nat OBVIOUS
    <3> QED BY <3>1 DEF Shapes, Return
  <2>2. pc' \in [Threads -> Labels] BY DEF Shapes, Return, Goto, Labels
  <2>3. pos' \in [Threads -> 0 .. (Modulus - 1)] BY Constants DEF Shapes, Return
  <2>4. excl' \in Threads \cup {NoThread} BY DEF Shapes, Return
  <2>5. val' \in [Threads -> Nat] /\ left' \in [Threads -> Nat] /\ idx' \in [Threads -> Nat]
    BY DEF Shapes, Return
  <2> QED BY <2>1, <2>2, <2>3, <2>4, <2>5 DEF Shapes
<1>2. Loaded' BY DEF Shapes, Loaded, Return, Goto, PushLabels, PopLabels
<1>3. Producers' BY DEF Shapes, Producers, Producing, Return, Goto, Tag
<1>4. Consumers' BY DEF Shapes, Consumers, Consuming, Return, Goto, Tag
<1>5. Distinct' BY DEF Shapes, Distinct, Producing, Consuming, Return, Goto
<1> QED BY <1>1, <1>2, <1>3, <1>4, <1>5, RingUnchanged

(* What a thread learns from loading a counter.                            *)
LEMMA VisibleBounds ==
    ASSUME NEW t, NEW n \in Nat, NEW k \in Visible(t, n)
    PROVE  k \in Nat /\ k <= n /\ n <= k + Stale
BY Constants DEF Visible
-----------------------------------------------------------------------------
(* One lemma per action: it preserves the invariant.                       *)

(* push loads the head counter. *)
LEMMA BeginPushInv ==
    ASSUME Protocol, NEW t \in Threads, NEW r \in Requests, BeginPush(t, r)
    PROVE  Protocol'
<1> USE DEF Protocol, BeginPush, shared
<1>0. Len(log) \in Nat /\ taken \in Nat /\ idx[t] \in Nat BY DEF Shapes
<1>a. PICK k \in Visible(t, Len(log)) : /\ idx' = [idx EXCEPT ![t] = k]
                             /\ pos' = [pos EXCEPT ![t] = At(k)]
  OBVIOUS
<1>b. k \in Nat /\ k <= Len(log) /\ Len(log) <= k + Stale BY <1>0, VisibleBounds
<1>c. At(k) \in 0 .. (Modulus - 1) BY <1>b, AtType
<1>d. k <= Len(log) /\ Len(log) < k + Modulus
  BY <1>0, <1>b, Constants DEF Counters, Bounded
<1>1. Shapes' BY Constants, <1>a, <1>b, <1>c, <1>d DEF Shapes, Goto, Labels, PushLabels, PopLabels
<1>2. Loaded'
  <2> SUFFICES ASSUME NEW u \in Threads, pc'[u] # "idle"
               PROVE  /\ idx'[u] <= Len(log') /\ Len(log') < idx'[u] + Modulus
                      /\ pc'[u] # "pop_load" => pos'[u] = At(idx'[u])
                      /\ pc'[u] \in PushLabels => Valid(arg'[u])
                      /\ pc'[u] \in PopLabels => idx'[u] <= taken'
    BY DEF Loaded
  <2>1. CASE u = t
    BY <2>1, <1>0, Constants, <1>a, <1>b, <1>c, <1>d DEF Shapes, Loaded, Goto, Counters, Bounded, PushLabels, PopLabels
  <2>2. CASE u # t BY <2>2, <1>a, <1>b, <1>c, <1>d DEF Shapes, Loaded, Goto
  <2> QED BY <2>1, <2>2
<1>3. Producers' BY Constants, <1>a, <1>b, <1>c, <1>d DEF Shapes, Loaded, Producers, Producing, Goto, Tag
<1>4. Consumers' BY AtAdd, <1>a, <1>b, <1>c, <1>d DEF Shapes, Loaded, Consumers, Consuming, Goto, Tag, PopLabels
<1>5. Distinct' BY <1>a, <1>b, <1>c, <1>d DEF Shapes, Distinct, Producing, Consuming, Goto
<1> QED BY <1>1, <1>2, <1>3, <1>4, <1>5, RingUnchanged

(* push finds the tag it expects. *)
LEMMA PushCheckInv ==
    ASSUME Protocol, NEW t \in Threads, PushCheck(t)
    PROVE  Protocol'
<1> USE DEF Protocol, PushCheck, shared
<1>0. Len(log) \in Nat /\ taken \in Nat /\ idx[t] \in Nat BY DEF Shapes
<1>1. Shapes' BY Constants DEF Shapes, Goto, Labels, PushLabels, PopLabels
<1>2. Loaded'
  <2> SUFFICES ASSUME NEW u \in Threads, pc'[u] # "idle"
               PROVE  /\ idx'[u] <= Len(log') /\ Len(log') < idx'[u] + Modulus
                      /\ pc'[u] # "pop_load" => pos'[u] = At(idx'[u])
                      /\ pc'[u] \in PushLabels => Valid(arg'[u])
                      /\ pc'[u] \in PopLabels => idx'[u] <= taken'
    BY DEF Loaded
  <2>1. CASE u = t
    BY <2>1, <1>0, Constants DEF Shapes, Loaded, Goto, Counters, Bounded, PushLabels, PopLabels
  <2>2. CASE u # t BY <2>2 DEF Shapes, Loaded, Goto
  <2> QED BY <2>1, <2>2
<1>3. Producers' BY Constants DEF Shapes, Loaded, Producers, Producing, Goto, Tag
<1>4. Consumers' BY AtAdd DEF Shapes, Loaded, Consumers, Consuming, Goto, Tag, PopLabels
<1>5. Distinct' BY DEF Shapes, Distinct, Producing, Consuming, Goto
<1> QED BY <1>1, <1>2, <1>3, <1>4, <1>5, RingUnchanged

(* drain starts its loop. *)
LEMMA BeginDrainInv ==
    ASSUME Protocol, NEW t \in Threads, BeginDrain(t)
    PROVE  Protocol'
<1> USE DEF Protocol, BeginDrain, shared
<1>0. Len(log) \in Nat /\ taken \in Nat /\ idx[t] \in Nat BY DEF Shapes
<1>1. Shapes' BY Constants DEF Shapes, Goto, Labels, PushLabels, PopLabels
<1>2. Loaded'
  <2> SUFFICES ASSUME NEW u \in Threads, pc'[u] # "idle"
               PROVE  /\ idx'[u] <= Len(log') /\ Len(log') < idx'[u] + Modulus
                      /\ pc'[u] # "pop_load" => pos'[u] = At(idx'[u])
                      /\ pc'[u] \in PushLabels => Valid(arg'[u])
                      /\ pc'[u] \in PopLabels => idx'[u] <= taken'
    BY DEF Loaded
  <2>1. CASE u = t
    BY <2>1, <1>0, Constants DEF Shapes, Loaded, Goto, Counters, Bounded, PushLabels, PopLabels
  <2>2. CASE u # t BY <2>2 DEF Shapes, Loaded, Goto
  <2> QED BY <2>1, <2>2
<1>3. Producers' BY Constants DEF Shapes, Loaded, Producers, Producing, Goto, Tag
<1>4. Consumers' BY AtAdd DEF Shapes, Loaded, Consumers, Consuming, Goto, Tag, PopLabels
<1>5. Distinct' BY DEF Shapes, Distinct, Producing, Consuming, Goto
<1> QED BY <1>1, <1>2, <1>3, <1>4, <1>5, RingUnchanged

(* clear starts its loop, under the resize lock. *)
LEMMA BeginClearInv ==
    ASSUME Protocol, NEW t \in Threads, BeginClear(t)
    PROVE  Protocol'
<1> USE DEF Protocol, BeginClear, shared
<1>0. Len(log) \in Nat /\ taken \in Nat /\ idx[t] \in Nat BY DEF Shapes
<1>1. Shapes' BY Constants DEF Shapes, Goto, Labels, PushLabels, PopLabels
<1>2. Loaded'
  <2> SUFFICES ASSUME NEW u \in Threads, pc'[u] # "idle"
               PROVE  /\ idx'[u] <= Len(log') /\ Len(log') < idx'[u] + Modulus
                      /\ pc'[u] # "pop_load" => pos'[u] = At(idx'[u])
                      /\ pc'[u] \in PushLabels => Valid(arg'[u])
                      /\ pc'[u] \in PopLabels => idx'[u] <= taken'
    BY DEF Loaded
  <2>1. CASE u = t
    BY <2>1, <1>0, Constants DEF Shapes, Loaded, Goto, Counters, Bounded, PushLabels, PopLabels
  <2>2. CASE u # t BY <2>2 DEF Shapes, Loaded, Goto
  <2> QED BY <2>1, <2>2
<1>3. Producers' BY Constants DEF Shapes, Loaded, Producers, Producing, Goto, Tag
<1>4. Consumers' BY AtAdd DEF Shapes, Loaded, Consumers, Consuming, Goto, Tag, PopLabels
<1>5. Distinct' BY DEF Shapes, Distinct, Producing, Consuming, Goto
<1> QED BY <1>1, <1>2, <1>3, <1>4, <1>5, RingUnchanged

(* pop loads the tail counter. *)
LEMMA PopLoadInv ==
    ASSUME Protocol, NEW t \in Threads, PopLoad(t)
    PROVE  Protocol'
<1> USE DEF Protocol, PopLoad, shared
<1>0. Len(log) \in Nat /\ taken \in Nat /\ idx[t] \in Nat BY DEF Shapes
<1>a. PICK k \in Visible(t, taken) : /\ idx' = [idx EXCEPT ![t] = k]
                             /\ pos' = [pos EXCEPT ![t] = At(k)]
  OBVIOUS
<1>b. k \in Nat /\ k <= taken /\ taken <= k + Stale BY <1>0, VisibleBounds
<1>c. At(k) \in 0 .. (Modulus - 1) BY <1>b, AtType
<1>d. k <= Len(log) /\ Len(log) < k + Modulus
  BY <1>0, <1>b, Constants DEF Counters, Bounded
<1>1. Shapes' BY Constants, <1>a, <1>b, <1>c, <1>d DEF Shapes, Goto, Labels, PushLabels, PopLabels
<1>2. Loaded'
  <2> SUFFICES ASSUME NEW u \in Threads, pc'[u] # "idle"
               PROVE  /\ idx'[u] <= Len(log') /\ Len(log') < idx'[u] + Modulus
                      /\ pc'[u] # "pop_load" => pos'[u] = At(idx'[u])
                      /\ pc'[u] \in PushLabels => Valid(arg'[u])
                      /\ pc'[u] \in PopLabels => idx'[u] <= taken'
    BY DEF Loaded
  <2>1. CASE u = t
    BY <2>1, <1>0, Constants, <1>a, <1>b, <1>c, <1>d DEF Shapes, Loaded, Goto, Counters, Bounded, PushLabels, PopLabels
  <2>2. CASE u # t BY <2>2, <1>a, <1>b, <1>c, <1>d DEF Shapes, Loaded, Goto
  <2> QED BY <2>1, <2>2
<1>3. Producers' BY Constants, <1>a, <1>b, <1>c, <1>d DEF Shapes, Loaded, Producers, Producing, Goto, Tag
<1>4. Consumers' BY AtAdd, <1>a, <1>b, <1>c, <1>d DEF Shapes, Loaded, Consumers, Consuming, Goto, Tag, PopLabels
<1>5. Distinct' BY <1>a, <1>b, <1>c, <1>d DEF Shapes, Distinct, Producing, Consuming, Goto
<1> QED BY <1>1, <1>2, <1>3, <1>4, <1>5, RingUnchanged

(* pop finds a published payload. *)
LEMMA PopCheckInv ==
    ASSUME Protocol, NEW t \in Threads, PopCheck(t)
    PROVE  Protocol'
<1> USE DEF Protocol, PopCheck, shared
<1>0. Len(log) \in Nat /\ taken \in Nat /\ idx[t] \in Nat BY DEF Shapes
<1>a. WrappingAdd(pos[t], 1) = At(idx[t] + 1) /\ pos[t] = At(idx[t])
  BY <1>0, AtAdd DEF Loaded
<1>1. Shapes' BY Constants, <1>a DEF Shapes, Goto, Labels, PushLabels, PopLabels
<1>2. Loaded'
  <2> SUFFICES ASSUME NEW u \in Threads, pc'[u] # "idle"
               PROVE  /\ idx'[u] <= Len(log') /\ Len(log') < idx'[u] + Modulus
                      /\ pc'[u] # "pop_load" => pos'[u] = At(idx'[u])
                      /\ pc'[u] \in PushLabels => Valid(arg'[u])
                      /\ pc'[u] \in PopLabels => idx'[u] <= taken'
    BY DEF Loaded
  <2>1. CASE u = t
    BY <2>1, <1>0, Constants, <1>a DEF Shapes, Loaded, Goto, Counters, Bounded, PushLabels, PopLabels
  <2>2. CASE u # t BY <2>2, <1>a DEF Shapes, Loaded, Goto
  <2> QED BY <2>1, <2>2
<1>3. Producers' BY Constants, <1>a DEF Shapes, Loaded, Producers, Producing, Goto, Tag
<1>4. Consumers' BY AtAdd, <1>a DEF Shapes, Loaded, Consumers, Consuming, Goto, Tag, PopLabels
<1>5. Distinct' BY <1>a DEF Shapes, Distinct, Producing, Consuming, Goto
<1> QED BY <1>1, <1>2, <1>3, <1>4, <1>5, RingUnchanged

(* pop reads the payload. *)
LEMMA PopReadInv ==
    ASSUME Protocol, NEW t \in Threads, PopRead(t)
    PROVE  Protocol'
<1> USE DEF Protocol, PopRead, shared
<1>0. Len(log) \in Nat /\ taken \in Nat /\ idx[t] \in Nat BY DEF Shapes
<1>a. pos[t] = At(idx[t]) /\ Slot(pos[t]) \in Slots BY <1>0, AtType DEF Loaded
<1>1. Shapes' BY Constants, <1>a DEF Shapes, Goto, Labels, PushLabels, PopLabels
<1>2. Loaded'
  <2> SUFFICES ASSUME NEW u \in Threads, pc'[u] # "idle"
               PROVE  /\ idx'[u] <= Len(log') /\ Len(log') < idx'[u] + Modulus
                      /\ pc'[u] # "pop_load" => pos'[u] = At(idx'[u])
                      /\ pc'[u] \in PushLabels => Valid(arg'[u])
                      /\ pc'[u] \in PopLabels => idx'[u] <= taken'
    BY DEF Loaded
  <2>1. CASE u = t
    BY <2>1, <1>0, Constants, <1>a DEF Shapes, Loaded, Goto, Counters, Bounded, PushLabels, PopLabels
  <2>2. CASE u # t BY <2>2, <1>a DEF Shapes, Loaded, Goto
  <2> QED BY <2>1, <2>2
<1>3. Producers' BY Constants, <1>a DEF Shapes, Loaded, Producers, Producing, Goto, Tag
<1>4. Consumers' BY AtAdd, <1>a DEF Shapes, Loaded, Consumers, Consuming, Goto, Tag, PopLabels
<1>5. Distinct' BY <1>a DEF Shapes, Distinct, Producing, Consuming, Goto
<1> QED BY <1>1, <1>2, <1>3, <1>4, <1>5, RingUnchanged

(* the loop goes on after a callback. *)
LEMMA CallbackInv ==
    ASSUME Protocol, NEW t \in Threads, Callback(t)
    PROVE  Protocol'
<1> USE DEF Protocol, Callback, shared
<1>0. Len(log) \in Nat /\ taken \in Nat /\ idx[t] \in Nat BY DEF Shapes
<1>a. left[t] \in Nat /\ left[t] - 1 \in Nat
  <2>1. left[t] \in Nat /\ left[t] > 1 BY DEF Shapes
  <2> HIDE DEF Protocol, Callback
  <2> QED BY <2>1
<1>b. left' \in [Threads -> Nat] BY <1>a DEF Shapes
<1>c. pos' \in [Threads -> 0 .. (Modulus - 1)] BY Constants DEF Shapes
<1>1. Shapes' BY Constants, <1>a, <1>b, <1>c DEF Shapes, Goto, Labels, PushLabels, PopLabels
<1>2. Loaded'
  <2> SUFFICES ASSUME NEW u \in Threads, pc'[u] # "idle"
               PROVE  /\ idx'[u] <= Len(log') /\ Len(log') < idx'[u] + Modulus
                      /\ pc'[u] # "pop_load" => pos'[u] = At(idx'[u])
                      /\ pc'[u] \in PushLabels => Valid(arg'[u])
                      /\ pc'[u] \in PopLabels => idx'[u] <= taken'
    BY DEF Loaded
  <2>1. CASE u = t
    BY <2>1, <1>0, Constants, <1>a, <1>b, <1>c DEF Shapes, Loaded, Goto, Counters, Bounded, PushLabels, PopLabels
  <2>2. CASE u # t BY <2>2, <1>a, <1>b, <1>c DEF Shapes, Loaded, Goto
  <2> QED BY <2>1, <2>2
<1>3. Producers' BY Constants, <1>a, <1>b, <1>c DEF Shapes, Loaded, Producers, Producing, Goto, Tag
<1>4. Consumers' BY AtAdd, <1>a, <1>b, <1>c DEF Shapes, Loaded, Consumers, Consuming, Goto, Tag, PopLabels
<1>5. Distinct' BY <1>a, <1>b, <1>c DEF Shapes, Distinct, Producing, Consuming, Goto
<1> QED BY <1>1, <1>2, <1>3, <1>4, <1>5, RingUnchanged

(* push returns false. *)
LEMMA PushGiveUpInv ==
    ASSUME Protocol, NEW t \in Threads, PushGiveUp(t)
    PROVE  Protocol'
BY ReturnInv DEF PushGiveUp, shared

(* pop returns None. *)
LEMMA PopGiveUpInv ==
    ASSUME Protocol, NEW t \in Threads, PopGiveUp(t)
    PROVE  Protocol'
BY ReturnInv DEF PopGiveUp, shared

(* the loop ends after a callback. *)
LEMMA LastCallbackInv ==
    ASSUME Protocol, NEW t \in Threads, LastCallback(t)
    PROVE  Protocol'
BY ReturnInv DEF LastCallback, shared
-----------------------------------------------------------------------------
(* The actions that change the ring or the counters.                       *)

(* Facts about a thread that is past its load.                             *)
LEMMA Position ==
    ASSUME Protocol, NEW t \in Threads, pc[t] \notin {"idle", "pop_load"}
    PROVE  /\ idx[t] \in Nat /\ Len(log) \in Nat /\ taken \in Nat
           /\ taken <= Len(log) /\ Len(log) <= taken + Cap
           /\ pos[t] = At(idx[t])
           /\ Slot(At(idx[t])) \in Slots
           /\ idx[t] <= Len(log) /\ Len(log) < idx[t] + Modulus
<1>1. idx[t] \in Nat /\ Len(log) \in Nat /\ taken \in Nat BY DEF Protocol, Shapes
<1> QED BY <1>1, AtType DEF Protocol, Counters, Bounded, Loaded

(* Threads that have claimed different positions of the same kind, or a    *)
(* producer and a consumer, never share a ring slot.                       *)
LEMMA OwnersApart ==
    ASSUME Protocol, NEW t \in Threads, NEW u \in Threads, t # u,
           OwnsPayload(t), OwnsPayload(u)
    PROVE  Slot(At(idx[t])) # Slot(At(idx[u]))
<1> SUFFICES ASSUME Slot(At(idx[t])) = Slot(At(idx[u])) PROVE FALSE OBVIOUS
<1>1. /\ pc[t] \notin {"idle", "pop_load"} /\ pc[u] \notin {"idle", "pop_load"}
      /\ Producing(t) \/ Consuming(t)
      /\ Producing(u) \/ Consuming(u)
  BY DEF OwnsPayload, Producing, Consuming
<1>2. /\ idx[t] \in Nat /\ idx[u] \in Nat /\ Len(log) \in Nat
      /\ idx[t] <= Len(log) /\ Len(log) < idx[t] + Modulus
      /\ idx[u] <= Len(log) /\ Len(log) < idx[u] + Modulus
  BY <1>1, Position
<1>3. Tag(idx[t]) = Tag(idx[u]) BY DEF Tag
<1>4. idx[t] < idx[u] + Modulus /\ idx[u] < idx[t] + Modulus BY <1>2, Constants
<1>5. CASE Producing(t) /\ Producing(u)
  <2>1. At(idx[t]) = At(idx[u]) BY <1>3, <1>5 DEF Protocol, Producers
  <2>2. idx[t] = idx[u] BY <2>1, <1>2, <1>4, AtInjective
  <2> QED BY <2>2, <1>5 DEF Protocol, Distinct
<1>6. CASE Consuming(t) /\ Consuming(u)
  <2>1. At(idx[t] + 1) = At(idx[u] + 1) BY <1>3, <1>6 DEF Protocol, Consumers
  <2>2. idx[t] + 1 \in Nat /\ idx[u] + 1 \in Nat
        /\ idx[t] + 1 < (idx[u] + 1) + Modulus /\ idx[u] + 1 < (idx[t] + 1) + Modulus
    BY <1>2, <1>4, WindowShift
  <2>3. idx[t] + 1 = idx[u] + 1 BY <2>1, <2>2, AtInjective
  <2>4. idx[t] = idx[u] BY <2>3, <1>2
  <2> QED BY <2>4, <1>6 DEF Protocol, Distinct
<1>7. CASE Producing(t) /\ Consuming(u)
  <2>1. At(idx[t]) = At(idx[u] + 1) BY <1>3, <1>7 DEF Protocol, Producers, Consumers
  <2> QED BY <2>1, <1>2, SlotSteps
<1>8. CASE Consuming(t) /\ Producing(u)
  <2>1. At(idx[u]) = At(idx[t] + 1) BY <1>3, <1>8 DEF Protocol, Producers, Consumers
  <2> QED BY <2>1, <1>2, SlotSteps
<1> QED BY <1>1, <1>5, <1>6, <1>7, <1>8

(* push claims the head position: the ring has room for it.                *)
LEMMA PushCasInv ==
    ASSUME Protocol, NEW t \in Threads, PushCas(t)
    PROVE  Protocol'
<1> USE DEF Protocol, PushCas
<1> DEFINE n == Len(log)
<1>1. /\ idx[t] \in Nat /\ n \in Nat /\ taken \in Nat
      /\ taken <= n /\ n <= taken + Cap
      /\ pos[t] = At(idx[t]) /\ idx[t] <= n /\ n < idx[t] + Modulus
  BY Position
<1>2. idx[t] = n
  <2>1. At(idx[t]) = At(n) BY <1>1 DEF Counters
  <2>2. idx[t] < n + Modulus BY <1>1, Constants
  <2> HIDE DEF n
  <2> QED BY <2>1, <2>2, <1>1, AtInjective
<1>3. Tag(n) = At(n) BY <1>2 DEF Producers
<1>4. n < taken + Cap
  <2> SUFFICES ASSUME n = taken + Cap PROVE FALSE BY <1>1, Constants
  <2>1. Tag(taken) = At(taken) \/ Tag(taken) = At(taken + 1)
    BY <1>1, Constants DEF BusyTags
  <2>2. Tag(n) = Tag(taken) BY <1>1, SlotSteps DEF Tag
  <2>3. At(n) # At(taken) BY <1>1, Constants, AtInjective
  <2>4. At(n) # At(taken + 1)
    <3>1. taken + 1 \in Nat /\ n < (taken + 1) + Modulus /\ taken + 1 < n + Modulus
          /\ n # taken + 1
      <4> HIDE DEF Protocol, PushCas, n
      <4> QED BY <1>1, Constants
    <3> QED BY <3>1, <1>1, AtInjective
  <2> QED BY <1>3, <2>1, <2>2, <2>3, <2>4
<1>5. arg[t] \in Nat \X Nat /\ log \in Seq(Nat \X Nat) BY DEF Shapes
<1>6. /\ log' \in Seq(Nat \X Nat) /\ Len(log') = n + 1
      /\ \A j \in 1 .. n : log'[j] = log[j]
      /\ log'[n + 1] = arg[t]
  BY <1>5
<1>7. head' = At(n + 1) BY <1>1, <1>2, AtAdd
<1> HIDE DEF n
<1>8. Shapes'
  <2>1. head' \in 0 .. (Modulus - 1) BY <1>1, <1>7, AtType
  <2>2. pc' \in [Threads -> Labels]
    BY DEF Shapes, Goto, Labels, PushLabels, PopLabels
  <2> QED BY <2>1, <2>2, <1>6 DEF Shapes
<1>9. Counters' BY <1>1, <1>4, <1>6, <1>7, Constants DEF Counters, Bounded
<1>10. Loaded'
  <2> SUFFICES ASSUME NEW u \in Threads, pc'[u] # "idle"
               PROVE  /\ idx[u] <= n + 1 /\ n + 1 < idx[u] + Modulus
                      /\ pc'[u] # "pop_load" => pos[u] = At(idx[u])
                      /\ pc'[u] \in PushLabels => Valid(arg[u])
                      /\ pc'[u] \in PopLabels => idx[u] <= taken
    BY <1>6 DEF Loaded
  <2>1. pc[u] # "idle" BY DEF Goto, Shapes
  <2>2. n + 1 < idx[u] + Modulus BY <2>1 DEF NoLap, n
  <2>3. idx[u] \in Nat BY DEF Shapes
  <2>4. CASE u = t BY <2>2, <2>4, <1>1, <1>2 DEF Goto, Shapes, Loaded, PushLabels, PopLabels
  <2>5. CASE u # t
    <3>1. pc'[u] = pc[u] BY <2>5 DEF Goto, Shapes
    <3>2. idx[u] <= n BY <2>1 DEF Loaded, n
    <3>3. idx[u] <= n + 1 BY <3>2, <2>3, <1>1
    <3> QED BY <3>1, <3>3, <2>1, <2>2 DEF Loaded
  <2> QED BY <2>4, <2>5
<1>11. BusyTags'
  <2> SUFFICES ASSUME NEW k \in taken .. n
               PROVE  \/ Tag(k) = At(k)
                      \/ Tag(k) = At(k + 1) /\ data[Slot(At(k))] = Encode(log'[k + 1])
    BY <1>1, <1>6 DEF BusyTags, Tag
  <2>1. CASE k = n BY <2>1, <1>3
  <2>2. CASE k # n
    <3>1. k \in taken .. (n - 1) /\ k + 1 \in 1 .. n BY <2>2, <1>1
    <3> QED BY <3>1, <1>6 DEF BusyTags, n
  <2> QED BY <2>1, <2>2
<1>12. FreeTags' BY <1>1, <1>6, Constants DEF FreeTags, Tag, n
<1>13. Producers'
  <2> SUFFICES ASSUME NEW u \in Threads
               PROVE  /\ (pc'[u] = "push_cas" /\ idx[u] = n + 1) => Tag(idx[u]) = At(idx[u])
                      /\ (pc'[u] \in {"push_store", "push_publish"}) =>
                            /\ taken <= idx[u] /\ idx[u] < n + 1
                            /\ Tag(idx[u]) = At(idx[u])
                            /\ log'[idx[u] + 1] = arg[u]
                      /\ pc'[u] = "push_publish" => data[Slot(At(idx[u]))] = Encode(arg[u])
    BY <1>6 DEF Producers, Producing, Tag
  <2>1. idx[u] \in Nat BY DEF Shapes
  <2>2. CASE u = t BY <2>2, <1>1, <1>2, <1>3, <1>6 DEF Goto, Shapes
  <2>3. CASE u # t
    <3>1. pc'[u] = pc[u] BY <2>3 DEF Goto, Shapes
    <3>2. pc[u] # "idle" => idx[u] <= n BY DEF Loaded, n
    <3>3. Producing(u) => idx[u] + 1 \in 1 .. n BY <2>1, <1>1 DEF Producers, n
    <3>4. pc'[u] # "push_cas" \/ idx[u] # n + 1 BY <3>1, <3>2, <2>1, <1>1
    <3>5. Producing(u) => /\ taken <= idx[u] /\ idx[u] < n + 1
                          /\ log'[idx[u] + 1] = arg[u]
      <4>1. Producing(u) => taken <= idx[u] /\ idx[u] < n /\ log[idx[u] + 1] = arg[u]
        BY DEF Producers, n
      <4> HIDE DEF Protocol, PushCas
      <4>2. Producing(u) => log'[idx[u] + 1] = log[idx[u] + 1] BY <3>3, <1>6
      <4> HIDE DEF n
      <4> QED BY <4>1, <4>2, <2>1, <1>1
    <3> QED BY <3>1, <3>4, <3>5 DEF Producers, Producing
  <2> QED BY <2>2, <2>3
<1>14. Consumers'
  <2> SUFFICES ASSUME NEW u \in Threads
               PROVE  /\ (pc'[u] = "pop_cas" /\ idx[u] = taken) => Tag(idx[u]) = At(idx[u] + 1)
                      /\ (pc'[u] \in {"pop_read", "pop_release", "callback"}) => idx[u] < taken
                      /\ (pc'[u] \in {"pop_read", "pop_release"}) => Tag(idx[u]) = At(idx[u] + 1)
                      /\ pc'[u] = "pop_read" => data[Slot(At(idx[u]))] = Encode(log'[idx[u] + 1])
                      /\ pc'[u] \in {"pop_release", "callback"} => val[u] = Encode(log'[idx[u] + 1])
    BY DEF Consumers, Consuming, Tag
  <2>1. idx[u] \in Nat BY DEF Shapes
  <2>2. CASE u = t BY <2>2 DEF Goto, Shapes
  <2>3. CASE u # t
    <3>1. pc'[u] = pc[u] BY <2>3 DEF Goto, Shapes
    <3>2. idx[u] < taken => idx[u] + 1 \in 1 .. n BY <2>1, <1>1
    <3> QED BY <3>1, <3>2, <1>6 DEF Consumers, Consuming
  <2> QED BY <2>2, <2>3
<1>15. Distinct'
  <2>1. \A u \in Threads : Producing(u) => idx[u] < n BY DEF Producers, n
  <2>2. \A u \in Threads : u # t => pc'[u] = pc[u] BY DEF Goto, Shapes
  <2>3. pc'[t] = "push_store" BY DEF Goto, Shapes
  <2> QED BY <2>1, <2>2, <2>3, <1>1, <1>2 DEF Distinct, Producing, Consuming
<1> QED BY <1>8, <1>9, <1>10, <1>11, <1>12, <1>13, <1>14, <1>15

(* push writes the payload: nobody else looks at that slot's data.         *)
LEMMA PushStoreInv ==
    ASSUME Protocol, NEW t \in Threads, PushStore(t)
    PROVE  Protocol'
<1> USE DEF Protocol, PushStore
<1> DEFINE k == idx[t]
           s == Slot(At(k))
<1>1. /\ k \in Nat /\ Len(log) \in Nat /\ taken \in Nat
      /\ taken <= Len(log) /\ Len(log) <= taken + Cap
      /\ pos[t] = At(k) /\ s \in Slots
  BY Position
<1>2. /\ taken <= k /\ k < Len(log) /\ Tag(k) = At(k) BY DEF Producers, Producing
<1>3. data' = [data EXCEPT ![s] = Encode(arg[t])] BY <1>1
<1>4. Encode(arg[t]) \in Nat BY EncodeDecode DEF Shapes
<1>5. \A u \in Threads : u # t => pc'[u] = pc[u] BY DEF Goto, Shapes
<1>6. pc'[t] = "push_publish" BY DEF Goto, Shapes
<1>7. OwnsPayload(t) BY DEF OwnsPayload
<1>8. \A u \in Threads : (u # t /\ OwnsPayload(u)) => data'[Slot(At(idx[u]))] = data[Slot(At(idx[u]))]
  <2> SUFFICES ASSUME NEW u \in Threads, u # t, OwnsPayload(u)
               PROVE  Slot(At(idx[u])) # s /\ Slot(At(idx[u])) \in Slots
    BY <1>3 DEF Shapes
  <2>1. pc[u] \notin {"idle", "pop_load"} BY DEF OwnsPayload
  <2> QED BY <2>1, <1>7, OwnersApart, Position
<1>9. Shapes'
  <2>1. data' \in [Slots -> Nat] BY <1>3, <1>4 DEF Shapes
  <2>2. pc' \in [Threads -> Labels] BY DEF Shapes, Goto, Labels, PushLabels
  <2> QED BY <2>1, <2>2 DEF Shapes
<1>10. Counters' /\ FreeTags' BY DEF Counters, Bounded, FreeTags, Tag
<1>11. BusyTags'
  <2> SUFFICES ASSUME NEW j \in taken .. (Len(log) - 1)
               PROVE  \/ Tag(j) = At(j)
                      \/ Tag(j) = At(j + 1) /\ data'[Slot(At(j))] = Encode(log[j + 1])
    BY DEF BusyTags, Tag
  <2>1. j \in Nat /\ j < k + Cap /\ k < j + Cap BY <1>1, <1>2, Constants
  <2>2. CASE Slot(At(j)) = s
    <3>1. j = k BY <2>1, <2>2, <1>1, SlotInjective
    <3> QED BY <3>1, <1>2
  <2>3. CASE Slot(At(j)) # s
    <3>1. data'[Slot(At(j))] = data[Slot(At(j))] BY <2>1, <2>3, <1>3, AtType DEF Shapes
    <3> QED BY <3>1 DEF BusyTags
  <2> QED BY <2>2, <2>3
<1>12. Loaded' BY <1>5, <1>6 DEF Loaded, PushLabels, PopLabels
<1>13. Producers'
  <2>1. data'[s] = Encode(arg[t]) BY <1>1, <1>3 DEF Shapes
  <2>2. \A u \in Threads : pc[u] = "push_publish" => OwnsPayload(u) BY DEF OwnsPayload
  <2> QED BY <2>1, <2>2, <1>5, <1>6, <1>8 DEF Producers, Producing, Tag
<1>14. Consumers'
  <2>1. \A u \in Threads : pc[u] = "pop_read" => OwnsPayload(u) BY DEF OwnsPayload
  <2> QED BY <2>1, <1>5, <1>6, <1>8 DEF Consumers, Consuming, Tag
<1>15. Distinct' BY <1>5, <1>6 DEF Distinct, Producing, Consuming
<1> QED BY <1>9, <1>10, <1>11, <1>12, <1>13, <1>14, <1>15

(* push publishes: the tag moves to the next value, seen only by position k. *)
LEMMA PushPublishInv ==
    ASSUME Protocol, NEW t \in Threads, PushPublish(t)
    PROVE  Protocol'
<1> USE DEF Protocol, PushPublish
<1> DEFINE k == idx[t]
           s == Slot(At(k))
<1>1. /\ k \in Nat /\ Len(log) \in Nat /\ taken \in Nat
      /\ taken <= Len(log) /\ Len(log) <= taken + Cap
      /\ pos[t] = At(k) /\ s \in Slots /\ k + 1 \in Nat
  BY Position
<1>2. /\ taken <= k /\ k < Len(log) /\ Tag(k) = At(k) /\ log[k + 1] = arg[t]
      /\ data[s] = Encode(arg[t])
  BY DEF Producers, Producing
<1>3. seq' = [seq EXCEPT ![s] = At(k + 1)] BY <1>1, AtAdd
<1>4. \A u \in Threads : u # t => /\ pc'[u] = pc[u] /\ idx'[u] = idx[u] /\ pos'[u] = pos[u]
                                  /\ arg'[u] = arg[u] /\ val'[u] = val[u]
  BY DEF Return, Goto, Shapes
<1>5. pc'[t] = "idle" BY DEF Return, Goto, Shapes
<1>6. OwnsPayload(t) BY DEF OwnsPayload
<1>7. \A j \in Nat : IF Slot(At(j)) = s THEN Tag(j)' = At(k + 1) ELSE Tag(j)' = Tag(j)
  BY <1>1, <1>3, AtType DEF Tag, Shapes
<1>8. \A j \in Nat : Slot(At(j)) = s => Tag(j) = At(k) BY <1>2 DEF Tag
<1>9. Shapes'
  <2>0. seq \in [Slots -> 0 .. (Modulus - 1)] BY DEF Shapes
  <2>1. seq' \in [Slots -> 0 .. (Modulus - 1)]
    <3> HIDE DEF Protocol, PushPublish, k, s
    <3>1. [seq EXCEPT ![s] = At(k + 1)] \in [Slots -> 0 .. (Modulus - 1)]
      BY <1>1, <2>0, TagUpdate, Zenon
    <3> QED BY <3>1, <1>3, Zenon
  <2>2. arg' \in [Threads -> Nat \X Nat]
    <3>1. <<0, 0>> \in Nat \X Nat OBVIOUS
    <3> QED BY <3>1 DEF Shapes, Return
  <2>3. pc' \in [Threads -> Labels] BY DEF Shapes, Return, Goto, Labels
  <2>4. pos' \in [Threads -> 0 .. (Modulus - 1)] BY Constants DEF Shapes, Return
  <2>5. excl' \in Threads \cup {NoThread} BY DEF Shapes, Return
  <2>6. val' \in [Threads -> Nat] /\ left' \in [Threads -> Nat] /\ idx' \in [Threads -> Nat]
    BY DEF Shapes, Return
  <2> QED BY <2>1, <2>2, <2>3, <2>4, <2>5, <2>6 DEF Shapes
<1>10. Counters' BY DEF Counters, Bounded
<1>11. Loaded' BY <1>4, <1>5 DEF Loaded
<1>12. BusyTags'
  <2> SUFFICES ASSUME NEW j \in taken .. (Len(log) - 1)
               PROVE  \/ Tag(j)' = At(j)
                      \/ Tag(j)' = At(j + 1) /\ data[Slot(At(j))] = Encode(log[j + 1])
    BY DEF BusyTags, Tag
  <2>1. j \in Nat /\ j < k + Cap /\ k < j + Cap BY <1>1, <1>2, Constants
  <2>2. CASE Slot(At(j)) = s
    <3>1. j = k BY <2>1, <2>2, <1>1, SlotInjective
    <3> QED BY <3>1, <1>1, <1>2, <1>7
  <2>3. CASE Slot(At(j)) # s
    <3>1. Tag(j)' = Tag(j) BY <2>1, <2>3, <1>7
    <3> QED BY <3>1 DEF BusyTags
  <2> QED BY <2>2, <2>3
<1>13. FreeTags'
  <2> SUFFICES ASSUME NEW j \in Len(log) .. (taken + Cap - 1)
               PROVE  \/ Tag(j)' = At(j)
                      \/ j >= Cap /\ Tag(j)' = At(j - Cap + 1)
    BY DEF FreeTags, Tag
  <2>1. j \in Nat /\ j < k + Cap /\ k < j + Cap /\ j # k BY <1>1, <1>2, Constants
  <2>2. Slot(At(j)) # s BY <2>1, <1>1, SlotInjective
  <2>3. Tag(j)' = Tag(j) BY <2>1, <2>2, <1>7
  <2> QED BY <2>3 DEF FreeTags
<1>14. \A u \in Threads : (u # t /\ OwnsPayload(u)) => Tag(idx[u])' = Tag(idx[u])
  <2> SUFFICES ASSUME NEW u \in Threads, u # t, OwnsPayload(u)
               PROVE  Tag(idx[u])' = Tag(idx[u])
    OBVIOUS
  <2>1. pc[u] \notin {"idle", "pop_load"} BY DEF OwnsPayload
  <2>2. idx[u] \in Nat /\ idx'[u] = idx[u] BY <1>4 DEF Shapes
  <2>3. Slot(At(idx[u])) # s BY <1>6, OwnersApart
  <2> QED BY <2>2, <2>3 , <1>3, AtType DEF Tag, Shapes
<1>15. Producers'
  <2> SUFFICES ASSUME NEW u \in Threads, u # t
               PROVE  /\ (pc[u] = "push_cas" /\ idx[u] = Len(log)) => Tag(idx[u])' = At(idx[u])
                      /\ Producing(u) => Tag(idx[u])' = At(idx[u])
    BY <1>4, <1>5 DEF Producers, Producing
  <2>1. Producing(u) => OwnsPayload(u) BY DEF Producing, OwnsPayload
  <2>2. ASSUME pc[u] = "push_cas", idx[u] = Len(log)
        PROVE  Tag(idx[u])' = At(idx[u])
    <3>1. Tag(idx[u]) = At(idx[u]) BY <2>2 DEF Producers
    <3>2. idx[u] < k + Modulus /\ k < idx[u] + Modulus /\ idx[u] # k /\ idx[u] \in Nat
      <4> HIDE DEF Protocol, PushPublish, k
      <4> QED BY <2>2, <1>1, <1>2, Constants
    <3>3. Slot(At(idx[u])) # s
      <4> SUFFICES ASSUME Slot(At(idx[u])) = s PROVE FALSE OBVIOUS
      <4>1. At(idx[u]) = At(k) BY <3>1, <1>2 DEF Tag
      <4> QED BY <4>1, <3>2, <1>1, AtInjective
    <3>4. idx'[u] = idx[u] BY <1>4
    <3> QED BY <3>1, <3>2, <3>3, <3>4, <1>3, AtType DEF Tag, Shapes
  <2> QED BY <2>1, <2>2, <1>14 DEF Producers
<1>16. Consumers'
  <2> SUFFICES ASSUME NEW u \in Threads, u # t
               PROVE  /\ (pc[u] = "pop_cas" /\ idx[u] = taken) => Tag(idx[u])' = At(idx[u] + 1)
                      /\ Consuming(u) => Tag(idx[u])' = At(idx[u] + 1)
    BY <1>4, <1>5 DEF Consumers, Consuming
  <2>1. Consuming(u) => OwnsPayload(u) BY DEF Consuming, OwnsPayload
  <2>2. ASSUME pc[u] = "pop_cas", idx[u] = taken
        PROVE  Tag(idx[u])' = At(idx[u] + 1)
    <3>1. Tag(idx[u]) = At(idx[u] + 1) /\ idx[u] \in Nat BY <2>2, <1>1 DEF Consumers
    <3>2. Slot(At(idx[u])) # s
      <4> SUFFICES ASSUME Slot(At(idx[u])) = s PROVE FALSE OBVIOUS
      <4>1. At(idx[u] + 1) = At(k) BY <3>1, <1>2 DEF Tag
      <4> QED BY <4>1, <3>1, SlotSteps
    <3>3. idx'[u] = idx[u] BY <1>4
    <3> QED BY <3>1, <3>2, <3>3, <1>3, AtType DEF Tag, Shapes
  <2> QED BY <2>1, <2>2, <1>14 DEF Consumers
<1>17. Distinct' BY <1>4, <1>5 DEF Distinct, Producing, Consuming
<1> QED BY <1>9, <1>10, <1>11, <1>12, <1>13, <1>15, <1>16, <1>17

(* pop claims the tail position: it holds an accepted, published event.    *)
LEMMA PopCasInv ==
    ASSUME Protocol, NEW t \in Threads, PopCas(t)
    PROVE  Protocol'
<1> USE DEF Protocol, PopCas
<1> DEFINE k == idx[t]
<1>1. /\ k \in Nat /\ Len(log) \in Nat /\ taken \in Nat
      /\ taken <= Len(log) /\ Len(log) <= taken + Cap
      /\ pos[t] = At(k) /\ k <= taken /\ Len(log) < k + Modulus
  BY Position DEF Loaded, PopLabels
<1>2. k = taken
  <2>1. At(k) = At(taken) BY <1>1 DEF Counters
  <2>2. k < taken + Modulus /\ taken < k + Modulus BY <1>1, Constants
  <2> HIDE DEF k
  <2> QED BY <2>1, <2>2, <1>1, AtInjective
<1>3. Tag(taken) = At(taken + 1) BY <1>2 DEF Consumers
<1>4. taken < Len(log)
  <2> SUFFICES ASSUME taken = Len(log) PROVE FALSE BY <1>1
  <2>1. \/ Tag(taken) = At(taken)
        \/ taken >= Cap /\ Tag(taken) = At(taken - Cap + 1)
    BY <1>1, Constants DEF FreeTags
  <2>2. At(taken + 1) # At(taken)
    <3>1. taken + 1 < taken + Modulus /\ taken < (taken + 1) + Modulus /\ taken + 1 \in Nat
      BY <1>1, Constants
    <3> QED BY <3>1, <1>1, AtInjective
  <2>3. taken >= Cap => At(taken + 1) # At(taken - Cap + 1)
    <3>1. taken >= Cap => /\ taken - Cap + 1 \in Nat /\ taken + 1 \in Nat
                          /\ taken + 1 < (taken - Cap + 1) + Modulus
                          /\ taken - Cap + 1 < (taken + 1) + Modulus
                          /\ taken + 1 # taken - Cap + 1
      BY <1>1, Constants
    <3> QED BY <3>1, AtInjective
  <2> QED BY <2>1, <2>2, <2>3, <1>3
<1>5. data[Slot(At(taken))] = Encode(log[taken + 1])
  <2>1. taken \in taken .. (Len(log) - 1) BY <1>1, <1>4
  <2>2. At(taken + 1) # At(taken)
    <3>1. taken + 1 < taken + Modulus /\ taken < (taken + 1) + Modulus /\ taken + 1 \in Nat
      BY <1>1, Constants
    <3> QED BY <3>1, <1>1, AtInjective
  <2> QED BY <2>1, <2>2, <1>3 DEF BusyTags
<1>6. tail' = At(taken + 1) BY <1>1, <1>2, AtAdd
<1>7. \A u \in Threads : u # t => pc'[u] = pc[u] BY DEF Goto, Shapes
<1>8. pc'[t] = "pop_read" BY DEF Goto, Shapes
<1>9. Shapes'
  <2>1. tail' \in 0 .. (Modulus - 1) BY <1>1, <1>6, AtType
  <2>2. pc' \in [Threads -> Labels] BY DEF Shapes, Goto, Labels, PopLabels
  <2>3. taken' \in Nat BY <1>1
  <2> QED BY <2>1, <2>2, <2>3 DEF Shapes
<1>10. Counters' BY <1>1, <1>4, <1>6, Constants DEF Counters, Bounded
<1>11. Loaded'
  <2>1. \A u \in Threads : idx[u] \in Nat BY DEF Shapes
  <2>2. \A u \in Threads : idx[u] <= taken => idx[u] <= taken + 1 BY <2>1, <1>1
  <2> QED BY <2>2, <1>1, <1>7, <1>8 DEF Loaded, PushLabels, PopLabels
<1>12. BusyTags' BY <1>1 DEF BusyTags, Tag
<1>13. FreeTags'
  <2> SUFFICES ASSUME NEW j \in Len(log) .. (taken + Cap)
               PROVE  \/ Tag(j) = At(j)
                      \/ j >= Cap /\ Tag(j) = At(j - Cap + 1)
    BY <1>1, Constants DEF FreeTags, Tag
  <2>1. CASE j = taken + Cap
    <3>1. Tag(j) = Tag(taken) BY <2>1, <1>1, SlotSteps DEF Tag
    <3>2. j - Cap + 1 = taken + 1 /\ j >= Cap BY <2>1, <1>1, Constants
    <3> QED BY <3>1, <3>2, <1>3
  <2>2. CASE j # taken + Cap
    <3>1. j \in Len(log) .. (taken + Cap - 1) BY <2>2, <1>1, Constants
    <3> QED BY <3>1 DEF FreeTags
  <2> QED BY <2>1, <2>2
<1>14. Producers'
  <2>1. \A u \in Threads : Producing(u) => taken + 1 <= idx[u]
    <3>0. \A u \in Threads : idx[u] \in Nat /\ (Producing(u) => taken <= idx[u])
      BY DEF Producers, Shapes
    <3> SUFFICES ASSUME NEW u \in Threads, Producing(u) PROVE idx[u] # taken
      <4> HIDE DEF Protocol, PopCas
      <4> QED BY <3>0, <1>1
    <3>1. Tag(idx[u]) = At(idx[u]) BY DEF Producers
    <3>2. taken + 1 < taken + Modulus /\ taken < (taken + 1) + Modulus /\ taken + 1 \in Nat
      BY <1>1, Constants
    <3>3. At(taken + 1) # At(taken) BY <3>2, <1>1, AtInjective
    <3> QED BY <3>1, <3>3, <1>3
  <2> QED BY <2>1, <1>7, <1>8 DEF Producers, Producing, Tag
<1>15. Consumers'
  <2> SUFFICES ASSUME NEW u \in Threads
               PROVE  /\ (pc'[u] = "pop_cas" /\ idx[u] = taken + 1) => Tag(idx[u]) = At(idx[u] + 1)
                      /\ (pc'[u] \in {"pop_read", "pop_release", "callback"}) => idx[u] < taken + 1
                      /\ (pc'[u] \in {"pop_read", "pop_release"}) => Tag(idx[u]) = At(idx[u] + 1)
                      /\ pc'[u] = "pop_read" => data[Slot(At(idx[u]))] = Encode(log[idx[u] + 1])
                      /\ pc'[u] \in {"pop_release", "callback"} => val[u] = Encode(log[idx[u] + 1])
    BY DEF Consumers, Consuming, Tag
  <2>1. idx[u] \in Nat BY DEF Shapes
  <2>2. CASE u = t BY <2>2, <1>1, <1>2, <1>3, <1>5, <1>8
  <2>3. CASE u # t
    <3>1. pc'[u] = pc[u] BY <2>3, <1>7
    <3>2. pc[u] = "pop_cas" => idx[u] <= taken BY DEF Loaded, PopLabels
    <3>3. pc[u] = "pop_cas" => idx[u] # taken + 1 BY <3>2, <2>1, <1>1
    <3>4. idx[u] < taken => idx[u] < taken + 1 BY <2>1, <1>1
    <3> QED BY <3>1, <3>3, <3>4 DEF Consumers, Consuming
  <2> QED BY <2>2, <2>3
<1>16. Distinct'
  <2>1. \A u \in Threads : Consuming(u) => idx[u] < taken BY DEF Consumers
  <2> QED BY <2>1, <1>1, <1>2, <1>7, <1>8 DEF Distinct, Producing, Consuming
<1> QED BY <1>9, <1>10, <1>11, <1>12, <1>13, <1>14, <1>15, <1>16

(* pop releases the slot to the next generation, position k + Cap.         *)
LEMMA PopReleaseInv ==
    ASSUME Protocol, NEW t \in Threads, PopRelease(t)
    PROVE  Protocol'
<1> USE DEF Protocol, PopRelease
<1> DEFINE k == idx[t]
           s == Slot(At(k))
<1>1. /\ k \in Nat /\ Len(log) \in Nat /\ taken \in Nat
      /\ taken <= Len(log) /\ Len(log) <= taken + Cap
      /\ pos[t] = At(k) /\ s \in Slots /\ Len(log) < k + Modulus
      /\ k + Cap \in Nat /\ k + 1 \in Nat
  BY Position, Constants
<1>2. k < taken /\ Tag(k) = At(k + 1) BY DEF Consumers, Consuming
<1>3. seq' = [seq EXCEPT ![s] = At(k + Cap)] BY <1>1, AtAdd, Constants
<1>4. \A u \in Threads : u # t => pc'[u] = pc[u] BY DEF Goto, Shapes
<1>5. pc'[t] = "callback" BY DEF Goto, Shapes
<1>6. OwnsPayload(t) BY DEF OwnsPayload
<1>7. \A j \in Nat : Slot(At(j)) = s => /\ Tag(j)' = At(k + Cap)
                                        /\ Tag(j) = At(k + 1)
                                        /\ Tag(j) # At(j)
  <2> SUFFICES ASSUME NEW j \in Nat, Slot(At(j)) = s
               PROVE  Tag(j)' = At(k + Cap) /\ Tag(j) = At(k + 1) /\ At(j) # At(k + 1)
    OBVIOUS
  <2>1. Tag(j)' = At(k + Cap) BY <1>1, <1>3 DEF Tag, Shapes
  <2>2. Tag(j) = At(k + 1) BY <1>2 DEF Tag
  <2>3. At(j) # At(k + 1) BY <1>1, SlotSteps
  <2> QED BY <2>1, <2>2, <2>3
<1>8. \A j \in Nat : Slot(At(j)) # s => Tag(j)' = Tag(j)
  BY <1>3, AtType DEF Tag, Shapes
<1>9. Shapes'
  <2>0. seq \in [Slots -> 0 .. (Modulus - 1)] BY DEF Shapes
  <2>1. seq' \in [Slots -> 0 .. (Modulus - 1)]
    <3> HIDE DEF Protocol, PopRelease, k, s
    <3>1. [seq EXCEPT ![s] = At(k + Cap)] \in [Slots -> 0 .. (Modulus - 1)]
      BY <1>1, <2>0, TagUpdate, Zenon
    <3> QED BY <3>1, <1>3, Zenon
  <2>2. pc' \in [Threads -> Labels] BY DEF Shapes, Goto, Labels, PopLabels
  <2> QED BY <2>1, <2>2 DEF Shapes
<1>10. Counters' BY DEF Counters, Bounded
<1>11. Loaded' BY <1>4, <1>5 DEF Loaded, PushLabels, PopLabels
<1>12. BusyTags'
  <2> SUFFICES ASSUME NEW j \in taken .. (Len(log) - 1)
               PROVE  \/ Tag(j)' = At(j)
                      \/ Tag(j)' = At(j + 1) /\ data[Slot(At(j))] = Encode(log[j + 1])
    BY DEF BusyTags, Tag
  <2>1. /\ j \in Nat /\ j + 1 \in Nat /\ j # k
        /\ j + 1 < (k + 1) + Modulus /\ k + 1 < (j + 1) + Modulus /\ j + 1 # k + 1
    <3>1. j \in Nat /\ taken <= j /\ j < Len(log) BY <1>1
    <3>2. k \in Nat /\ Modulus \in Nat /\ Modulus >= 2 /\ k < taken /\ Len(log) < k + Modulus
      BY <1>1, <1>2, Constants
    <3> HIDE DEF k
    <3>3. k < j /\ j < k + Modulus BY <3>1, <3>2, <1>1
    <3> QED BY <3>1, <3>2, <3>3
  <2>2. At(j + 1) # At(k + 1) BY <2>1, <1>1, AtInjective
  <2>3. Slot(At(j)) # s BY <2>1, <2>2, <1>7 DEF BusyTags
  <2>4. Tag(j)' = Tag(j) BY <2>1, <2>3, <1>8
  <2> QED BY <2>4 DEF BusyTags
<1>13. FreeTags'
  <2> SUFFICES ASSUME NEW j \in Len(log) .. (taken + Cap - 1)
               PROVE  \/ Tag(j)' = At(j)
                      \/ j >= Cap /\ Tag(j)' = At(j - Cap + 1)
    BY DEF FreeTags, Tag
  <2>1. j \in Nat BY <1>1, Constants
  <2>2. CASE Slot(At(j)) = s
    <3>1. Tag(j) # At(j) /\ Tag(j) = At(k + 1) /\ Tag(j)' = At(k + Cap) BY <2>1, <2>2, <1>7
    <3>2. j >= Cap /\ At(j - Cap + 1) = At(k + 1) BY <3>1 DEF FreeTags
    <3>3. /\ j - Cap + 1 \in Nat /\ j - Cap + 1 < (k + 1) + Modulus
          /\ k + 1 < (j - Cap + 1) + Modulus
      <4> HIDE DEF Protocol, PopRelease, k
      <4> QED BY <3>2, <2>1, <1>1, <1>2, Constants
    <3>4. j - Cap + 1 = k + 1 BY <3>2, <3>3, <1>1, AtInjective
    <3>5. j = k + Cap
      <4> HIDE DEF Protocol, PopRelease, k
      <4> QED BY <3>4, <2>1, <1>1, Constants
    <3> QED BY <3>1, <3>5
  <2>3. CASE Slot(At(j)) # s
    <3>1. Tag(j)' = Tag(j) BY <2>1, <2>3, <1>8
    <3> QED BY <3>1 DEF FreeTags
  <2> QED BY <2>2, <2>3
<1>14. \A u \in Threads : (u # t /\ OwnsPayload(u)) => Tag(idx[u])' = Tag(idx[u])
  <2> SUFFICES ASSUME NEW u \in Threads, u # t, OwnsPayload(u)
               PROVE  Tag(idx[u])' = Tag(idx[u])
    OBVIOUS
  <2>1. idx[u] \in Nat BY DEF Shapes
  <2>2. Slot(At(idx[u])) # s BY <1>6, OwnersApart
  <2> QED BY <2>1, <2>2, <1>3, AtType DEF Tag, Shapes
<1>15. Producers'
  <2>1. \A u \in Threads : Producing(u) => u # t /\ OwnsPayload(u)
    BY DEF Producing, OwnsPayload
  <2>2. ASSUME NEW u \in Threads, pc[u] = "push_cas", idx[u] = Len(log)
        PROVE  Tag(idx[u])' = Tag(idx[u])
    <3>1. Tag(idx[u]) = At(idx[u]) BY <2>2 DEF Producers
    <3>2. Slot(At(idx[u])) # s BY <3>1, <2>2, <1>1, <1>7
    <3> QED BY <3>2, <2>2, <1>1, <1>3, AtType DEF Tag, Shapes
  <2> QED BY <2>1, <2>2, <1>4, <1>5, <1>14 DEF Producers, Producing
<1>16. Consumers'
  <2>1. \A u \in Threads : (u # t /\ Consuming(u)) => OwnsPayload(u)
    BY DEF Consuming, OwnsPayload
  <2>2. ASSUME NEW u \in Threads, pc[u] = "pop_cas", idx[u] = taken
        PROVE  Tag(idx[u])' = Tag(idx[u])
    <3>1. Tag(idx[u]) = At(taken + 1) BY <2>2 DEF Consumers
    <3>2. taken + 1 \in Nat /\ taken + 1 < (k + 1) + Modulus /\ k + 1 < (taken + 1) + Modulus
          /\ taken + 1 # k + 1
      BY <1>1, <1>2, Constants
    <3>3. At(taken + 1) # At(k + 1) BY <3>2, <1>1, AtInjective
    <3>4. Slot(At(idx[u])) # s BY <3>1, <3>3, <2>2, <1>1, <1>7
    <3> QED BY <3>4, <2>2, <1>1, <1>3, AtType DEF Tag, Shapes
  <2> QED BY <2>1, <2>2, <1>4, <1>5, <1>14 DEF Consumers, Consuming
<1>17. Distinct' BY <1>4, <1>5 DEF Distinct, Producing, Consuming
<1> QED BY <1>9, <1>10, <1>11, <1>12, <1>13, <1>15, <1>16, <1>17

-----------------------------------------------------------------------------
(* The theorems.                                                           *)

(* Every step of push, drain and clear preserves the tag protocol.         *)
LEMMA NextInv == Protocol /\ [Next]_vars => Protocol'
<1> SUFFICES ASSUME Protocol, [Next]_vars PROVE Protocol' OBVIOUS
<1>1. CASE UNCHANGED vars
  BY <1>1 DEF vars, Protocol, Shapes, Counters, Bounded, Loaded, BusyTags, FreeTags,
              Tag, Producers, Consumers, Distinct, Producing, Consuming
<1>2. CASE Next
  <2>1. PICK t \in Threads : \/ \E r \in Requests : BeginPush(t, r)
                             \/ Push(t) \/ BeginDrain(t) \/ BeginClear(t) \/ Pop(t)
    BY <1>2 DEF Next
  <2>2. CASE \E r \in Requests : BeginPush(t, r) BY <2>2, BeginPushInv
  <2>3. CASE Push(t)
    BY <2>3, PushCheckInv, PushCasInv, PushGiveUpInv, PushStoreInv, PushPublishInv DEF Push
  <2>4. CASE BeginDrain(t) BY <2>4, BeginDrainInv
  <2>5. CASE BeginClear(t) BY <2>5, BeginClearInv
  <2>6. CASE Pop(t)
    BY <2>6, PopLoadInv, PopCheckInv, PopCasInv, PopGiveUpInv, PopReadInv, PopReleaseInv,
       CallbackInv, LastCallbackInv DEF Pop
  <2> QED BY <2>1, <2>2, <2>3, <2>4, <2>5, <2>6
<1> QED BY <1>1, <1>2

(* The inductive invariant holds in every reachable state.                 *)
LEMMA ProtocolHolds == Spec => []Protocol
<1>1. Init => Protocol BY InitInv
<1>2. Protocol /\ [Next]_vars => Protocol' BY NextInv
<1> QED BY <1>1, <1>2, PTL DEF Spec

(* The tag protocol holds in every reachable state, for every ring length, *)
(* word size and number of threads.                                        *)
THEOREM RingCorrect == Spec => []RingInv
<1>1. Spec => []Protocol BY ProtocolHolds
<1>2. Protocol => RingInv BY DEF Protocol, RingInv
<1> QED BY <1>1, <1>2, PTL

(* No two threads ever touch the payload of the same ring slot, so pop     *)
(* returns the word one push wrote and no push overwrites an unread event. *)
THEOREM PayloadRaceFree == Spec => []PayloadExclusive
<1>1. Protocol => PayloadExclusive
  <2> SUFFICES ASSUME Protocol, NEW t \in Threads, NEW u \in Threads, t # u,
                      OwnsPayload(t), OwnsPayload(u)
               PROVE  Slot(pos[t]) # Slot(pos[u])
    BY DEF PayloadExclusive
  <2>1. pc[t] \notin {"idle", "pop_load"} /\ pc[u] \notin {"idle", "pop_load"}
    BY DEF OwnsPayload
  <2> QED BY <2>1, Position, OwnersApart
<1> QED BY <1>1, ProtocolHolds, PTL
-----------------------------------------------------------------------------
(* The buffer implements the event queue.                                  *)

(* The tag protocol, and that only such events are under way: those that   *)
(* pushing threads carry and those that were accepted.                     *)
QueueInv ==
    /\ Protocol
    /\ \A t \in Threads : pc[t] \in PushLabels => arg[t] \in Recordable
    /\ \A i \in 1 .. Len(log) : log[i] \in Recordable

(* QueueInv holds initially.                                               *)
LEMMA QueueInit == Init => QueueInv
BY InitInv DEF Init, QueueInv, PushLabels

(* An accepted event is a pair of numbers, and decodes to itself.          *)
LEMMA Accepted ==
    ASSUME QueueInv, NEW i \in 1 .. Len(log)
    PROVE  log[i] \in Nat \X Nat /\ Decode(Encode(log[i])) = log[i]
BY EncodeDecode, Constants DEF QueueInv, Recordable

(* A thread other than the one that steps, or one in the middle of a push  *)
(* or a load, keeps what the invariant says of it.                         *)
LEMMA QueueKept ==
    ASSUME QueueInv, Protocol', UNCHANGED log,
           \A u \in Threads : pc'[u] \in PushLabels => pc[u] \in PushLabels /\ arg'[u] = arg[u]
    PROVE  QueueInv'
BY DEF QueueInv

(* Every step keeps QueueInv.                                              *)
LEMMA QueueNext ==
    ASSUME QueueInv, [Next]_vars
    PROVE  QueueInv'
<1>0. Protocol' BY NextInv DEF QueueInv
<1>t. /\ pc \in [Threads -> Labels] /\ arg \in [Threads -> Nat \X Nat] /\ log \in Seq(Nat \X Nat)
  BY DEF QueueInv, Protocol, Shapes
<1>1. CASE UNCHANGED vars BY <1>0, <1>1, QueueKept DEF vars
<1>2. ASSUME NEW t \in Threads, NEW r \in Requests, BeginPush(t, r) PROVE QueueInv'
  <2>1. r \in Recordable BY <1>2 DEF BeginPush, Recordable
  <2> QED BY <1>0, <1>t, <1>2, <2>1 DEF QueueInv, BeginPush, Goto, PushLabels
<1>3. ASSUME NEW t \in Threads, PushCas(t) PROVE QueueInv'
  <2>1. arg[t] \in Recordable /\ arg[t] \in Nat \X Nat BY <1>3, <1>t DEF PushCas, QueueInv, PushLabels
  <2>2. /\ Len(log') = Len(log) + 1
        /\ \A i \in 1 .. Len(log) : log'[i] = log[i]
        /\ log'[Len(log) + 1] = arg[t]
        /\ Len(log) \in Nat
    BY <1>t, <1>3, <2>1, AppendProperties DEF PushCas
  <2>3. \A i \in 1 .. Len(log') : log'[i] \in Recordable BY <2>1, <2>2 DEF QueueInv
  <2>4. \A u \in Threads : pc'[u] \in PushLabels => arg'[u] \in Recordable
    BY <1>t, <1>3, <2>1 DEF PushCas, Goto, QueueInv, PushLabels
  <2> QED BY <1>0, <2>3, <2>4 DEF QueueInv
<1>4. ASSUME NEW t \in Threads, Return(t), UNCHANGED log PROVE QueueInv'
  BY <1>0, <1>t, <1>4, QueueKept DEF Return, Goto, PushLabels
<1>5. ASSUME NEW t \in Threads,
             PushCheck(t) \/ PushStore(t)
             \/ BeginDrain(t) \/ BeginClear(t) \/ PopLoad(t) \/ PopCheck(t) \/ PopCas(t)
             \/ PopRead(t) \/ PopRelease(t) \/ Callback(t)
      PROVE  QueueInv'
  <2>1. UNCHANGED <<log, arg>>
    BY <1>5 DEF PushCheck, PushStore, BeginDrain, BeginClear, PopLoad, PopCheck, PopCas,
                PopRead, PopRelease, Callback
  <2>2. \E l \in Labels : Goto(t, l) /\ (l \in PushLabels => pc[t] \in PushLabels)
    BY <1>5 DEF PushCheck, PushStore, BeginDrain, BeginClear, PopLoad, PopCheck, PopCas,
                PopRead, PopRelease, Callback, Labels, PushLabels, PopLabels
  <2> QED BY <1>0, <1>t, <2>1, <2>2, QueueKept DEF Goto
<1> QED BY <1>1, <1>2, <1>3, <1>4, <1>5
        DEF Next, Push, Pop, PushGiveUp, PushPublish, PopGiveUp, LastCallback

(* The payloads in the ring and in the consumers' hands fit one word.      *)
WordInv == data \in [Slots -> Words] /\ val \in [Threads -> Words]

(* An event that passed the validity check is encoded in one word.         *)
LEMMA EncodeFits ==
    ASSUME NEW r \in Recordable
    PROVE  Encode(r) \in Words
<1>1. r[1] \in Nat /\ r[2] \in Nat /\ r[2] < 4 /\ r[1] <= (Modulus - 1) \div 4
  BY Constants DEF Recordable, Valid
<1>2. Modulus \in Nat /\ Modulus % 4 = 0 /\ Modulus > 0 BY ModulusAssumption, Constants
<1>3. \A m, x, y \in Nat : (m > 0 /\ m % 4 = 0 /\ x <= (m - 1) \div 4 /\ y < 4)
                             => x * 4 + y \in 0 .. (m - 1)
  OBVIOUS
<1> QED BY <1>1, <1>2, <1>3 DEF Encode, Words

(* Words stay words: push writes the encoding of its event, pop copies it. *)
LEMMA WordNext ==
    ASSUME QueueInv, WordInv, [Next]_vars
    PROVE  WordInv'
<1>0. 0 \in Words BY Constants DEF Words
<1>1. CASE UNCHANGED <<data, val>> BY <1>1 DEF WordInv
<1>2. ASSUME NEW t \in Threads, PushStore(t) PROVE WordInv'
  <2>1. arg[t] \in Recordable BY <1>2 DEF PushStore, QueueInv, PushLabels
  <2>2. Encode(arg[t]) \in Words BY <2>1, EncodeFits
  <2> QED BY <1>2, <2>2 DEF PushStore, WordInv
<1>3. ASSUME NEW t \in Threads, PopRead(t) PROVE WordInv'
  <2>1. pos[t] = At(idx[t]) /\ Slot(At(idx[t])) \in Slots
    BY <1>3, Position DEF PopRead, QueueInv
  <2>2. data[Slot(pos[t])] \in Words BY <2>1 DEF WordInv
  <2> QED BY <1>3, <2>2 DEF PopRead, WordInv, shared
<1>4. ASSUME NEW t \in Threads, Return(t), UNCHANGED data PROVE WordInv'
  BY <1>0, <1>4 DEF Return, WordInv
<1>5. ASSUME NEW t \in Threads, Callback(t) PROVE WordInv'
  BY <1>0, <1>5 DEF Callback, WordInv, shared
<1>6. ASSUME NEW t \in Threads,
             (\E r \in Requests : BeginPush(t, r)) \/ PushCheck(t) \/ PushCas(t)
             \/ BeginDrain(t) \/ BeginClear(t) \/ PopLoad(t) \/ PopCheck(t) \/ PopCas(t)
             \/ PopRelease(t)
      PROVE  UNCHANGED <<data, val>>
  BY <1>6 DEF BeginPush, PushCheck, PushCas, BeginDrain, BeginClear, PopLoad, PopCheck,
              PopCas, PopRelease, shared
<1> QED BY <1>1, <1>2, <1>3, <1>4, <1>5, <1>6
        DEF Next, vars, Push, Pop, PushGiveUp, PushPublish, PopGiveUp, LastCallback, shared

(* The invariants give the types.                                          *)
LEMMA TypesFollow ==
    ASSUME QueueInv, WordInv, \A t \in Threads : arg[t] \in Recordable \cup {<<0, 0>>}
    PROVE  TypeOK
<1>1. log \in Seq(Recordable)
  <2>1. log \in Seq(Nat \X Nat) BY DEF QueueInv, Protocol, Shapes
  <2>2. \A i \in 1 .. Len(log) : log[i] \in Recordable BY DEF QueueInv
  <2> QED BY <2>1, <2>2
<1>2. arg \in [Threads -> Recordable \cup {<<0, 0>>}] BY DEF QueueInv, Protocol, Shapes
<1> QED BY <1>1, <1>2 DEF TypeOK, WordInv, QueueInv, Protocol, Shapes, Words

(* A thread's request is one that passed the check, or none.               *)
LEMMA ArgNext ==
    ASSUME QueueInv, \A t \in Threads : arg[t] \in Recordable \cup {<<0, 0>>}, [Next]_vars
    PROVE  \A t \in Threads : arg'[t] \in Recordable \cup {<<0, 0>>}
<1>0. arg \in [Threads -> Nat \X Nat] BY DEF QueueInv, Protocol, Shapes
<1>1. CASE UNCHANGED arg BY <1>1
<1>2. ASSUME NEW t \in Threads, NEW r \in Requests, BeginPush(t, r)
      PROVE  \A u \in Threads : arg'[u] \in Recordable \cup {<<0, 0>>}
  BY <1>0, <1>2 DEF BeginPush, Recordable
<1>3. ASSUME NEW t \in Threads, Return(t)
      PROVE  \A u \in Threads : arg'[u] \in Recordable \cup {<<0, 0>>}
  BY <1>0, <1>3 DEF Return
<1>4. ASSUME NEW t \in Threads,
             PushCheck(t) \/ PushCas(t) \/ PushStore(t) \/ BeginDrain(t) \/ BeginClear(t)
             \/ PopLoad(t) \/ PopCheck(t) \/ PopCas(t) \/ PopRead(t) \/ PopRelease(t) \/ Callback(t)
      PROVE  UNCHANGED arg
  BY <1>4 DEF PushCheck, PushCas, PushStore, BeginDrain, BeginClear, PopLoad, PopCheck,
              PopCas, PopRead, PopRelease, Callback
<1> QED BY <1>1, <1>2, <1>3, <1>4
        DEF Next, vars, Push, Pop, PushGiveUp, PushPublish, PopGiveUp, LastCallback

(* Counters, tags and payloads are words through every wrap, and the       *)
(* history holds only events that passed push's validity check: recording  *)
(* an event never overflows its word.                                      *)
THEOREM TypeCorrect == Spec => []TypeOK
<1> DEFINE TInv == /\ QueueInv /\ WordInv
                   /\ \A t \in Threads : arg[t] \in Recordable \cup {<<0, 0>>}
<1>1. Init => TInv
  <2> SUFFICES ASSUME Init PROVE TInv OBVIOUS
  <2>1. 0 \in Words BY Constants DEF Words
  <2> QED BY QueueInit, <2>1 DEF Init, WordInv
<1>2. TInv /\ [Next]_vars => TInv'
  BY QueueNext, WordNext, ArgNext
<1>3. TInv => TypeOK BY TypesFollow
<1> QED BY <1>1, <1>2, <1>3, PTL DEF Spec
-----------------------------------------------------------------------------
(* The queue of the contract: accepted and unclaimed.                      *)
Waiting == SubSeq(log, taken + 1, Len(log))

(* Accepting an event appends it to a suffix of the log.                   *)
LEMMA SuffixAppend ==
    ASSUME NEW S, NEW q \in Seq(S), NEW e \in S, NEW n \in Nat, n <= Len(q)
    PROVE  /\ SubSeq(Append(q, e), n + 1, Len(Append(q, e)))
                = Append(SubSeq(q, n + 1, Len(q)), e)
           /\ Len(SubSeq(q, n + 1, Len(q))) = Len(q) - n
<1> DEFINE p == Append(q, e)
           a == SubSeq(p, n + 1, Len(p))
           b == SubSeq(q, n + 1, Len(q))
<1>1. /\ p \in Seq(S) /\ Len(p) = Len(q) + 1 /\ Len(q) \in Nat
      /\ \A i \in 1 .. Len(q) : p[i] = q[i]
      /\ p[Len(q) + 1] = e
  BY AppendProperties
<1> HIDE DEF p
<1>2. /\ a \in Seq(S) /\ Len(a) = Len(q) + 1 - n
      /\ \A i \in 1 .. Len(q) + 1 - n : a[i] = p[n + i]
  <2>1. \A i \in n + 1 .. Len(p) : p[i] \in S BY <1>1
  <2>2. n + 1 \in Int /\ Len(p) \in Int BY <1>1
  <2>3. /\ a \in Seq(S)
        /\ Len(a) = IF n + 1 <= Len(p) THEN Len(p) - (n + 1) + 1 ELSE 0
        /\ \A i \in 1 .. Len(p) - (n + 1) + 1 : a[i] = p[(n + 1) + i - 1]
    BY <2>1, <2>2, SubSeqProperties
  <2> HIDE DEF a
  <2>4. \A i \in 1 .. Len(q) + 1 - n : i \in 1 .. Len(p) - (n + 1) + 1 /\ (n + 1) + i - 1 = n + i
    BY <1>1
  <2>5. Len(a) = Len(q) + 1 - n BY <2>3, <1>1
  <2> QED BY <2>3, <2>4, <2>5
<1>3. /\ b \in Seq(S) /\ Len(b) = Len(q) - n
      /\ \A i \in 1 .. Len(q) - n : b[i] = q[n + i]
  <2>1. \A i \in n + 1 .. Len(q) : q[i] \in S BY <1>1
  <2>2. n + 1 \in Int /\ Len(q) \in Int BY <1>1
  <2>3. /\ b \in Seq(S)
        /\ Len(b) = IF n + 1 <= Len(q) THEN Len(q) - (n + 1) + 1 ELSE 0
        /\ \A i \in 1 .. Len(q) - (n + 1) + 1 : b[i] = q[(n + 1) + i - 1]
    BY <2>1, <2>2, SubSeqProperties
  <2> HIDE DEF b
  <2>4. \A i \in 1 .. Len(q) - n : i \in 1 .. Len(q) - (n + 1) + 1 /\ (n + 1) + i - 1 = n + i
    BY <1>1
  <2>5. Len(b) = Len(q) - n BY <2>3, <1>1
  <2> QED BY <2>3, <2>4, <2>5
<1> HIDE DEF a, b
<1>4. /\ Append(b, e) \in Seq(S) /\ Len(Append(b, e)) = Len(b) + 1
      /\ \A i \in 1 .. Len(b) : Append(b, e)[i] = b[i]
      /\ Append(b, e)[Len(b) + 1] = e
  BY <1>3, AppendProperties
<1>5. ASSUME NEW i \in 1 .. Len(a) PROVE a[i] = Append(b, e)[i]
  <2>1. a[i] = p[n + i] /\ i \in Nat BY <1>1, <1>2
  <2>2. CASE i = Len(b) + 1 BY <2>1, <2>2, <1>1, <1>3, <1>4
  <2>3. CASE i # Len(b) + 1
    <3>1. i \in 1 .. Len(b) /\ n + i \in 1 .. Len(q) BY <2>3, <1>1, <1>2, <1>3
    <3> QED BY <3>1, <2>1, <1>1, <1>3, <1>4
  <2> QED BY <2>2, <2>3
<1>6. Len(a) = Len(Append(b, e)) BY <1>1, <1>2, <1>3, <1>4
<1>7. a = Append(b, e) BY <1>2, <1>4, <1>5, <1>6, SeqEqual
<1> QED BY <1>3, <1>7 DEF a, b, p

(* Claiming an event takes the head of a suffix of the log.                *)
LEMMA SuffixTail ==
    ASSUME NEW S, NEW q \in Seq(S), NEW n \in Nat, n < Len(q)
    PROVE  /\ SubSeq(q, n + 1, Len(q)) # << >>
           /\ Head(SubSeq(q, n + 1, Len(q))) = q[n + 1]
           /\ Tail(SubSeq(q, n + 1, Len(q))) = SubSeq(q, (n + 1) + 1, Len(q))
<1> DEFINE a == SubSeq(q, n + 1, Len(q))
           b == SubSeq(q, (n + 1) + 1, Len(q))
<1>1. Len(q) \in Nat OBVIOUS
<1>2. /\ a \in Seq(S) /\ Len(a) = Len(q) - n
      /\ \A i \in 1 .. Len(q) - n : a[i] = q[n + i]
  <2>1. \A i \in n + 1 .. Len(q) : q[i] \in S BY <1>1
  <2>2. n + 1 \in Int /\ Len(q) \in Int BY <1>1
  <2>3. /\ a \in Seq(S)
        /\ Len(a) = IF n + 1 <= Len(q) THEN Len(q) - (n + 1) + 1 ELSE 0
        /\ \A i \in 1 .. Len(q) - (n + 1) + 1 : a[i] = q[(n + 1) + i - 1]
    BY <2>1, <2>2, SubSeqProperties
  <2> HIDE DEF a
  <2>4. \A i \in 1 .. Len(q) - n : i \in 1 .. Len(q) - (n + 1) + 1 /\ (n + 1) + i - 1 = n + i
    BY <1>1
  <2>5. Len(a) = Len(q) - n BY <2>3, <1>1
  <2> QED BY <2>3, <2>4, <2>5
<1>3. /\ b \in Seq(S) /\ Len(b) = Len(q) - n - 1
      /\ \A i \in 1 .. Len(q) - n - 1 : b[i] = q[n + 1 + i]
  <2>1. \A i \in (n + 1) + 1 .. Len(q) : q[i] \in S BY <1>1
  <2>2. (n + 1) + 1 \in Int /\ Len(q) \in Int BY <1>1
  <2>3. /\ b \in Seq(S)
        /\ Len(b) = IF (n + 1) + 1 <= Len(q) THEN Len(q) - ((n + 1) + 1) + 1 ELSE 0
        /\ \A i \in 1 .. Len(q) - ((n + 1) + 1) + 1 : b[i] = q[((n + 1) + 1) + i - 1]
    BY <2>1, <2>2, SubSeqProperties
  <2> HIDE DEF b
  <2>4. \A i \in 1 .. Len(q) - n - 1 : /\ i \in 1 .. Len(q) - ((n + 1) + 1) + 1
                                       /\ ((n + 1) + 1) + i - 1 = n + 1 + i
    BY <1>1
  <2>5. Len(b) = Len(q) - n - 1 BY <2>3, <1>1
  <2> QED BY <2>3, <2>4, <2>5
<1> HIDE DEF a, b
<1>4. a # << >> BY <1>1, <1>2
<1>5. /\ Tail(a) \in Seq(S) /\ Len(Tail(a)) = Len(a) - 1
      /\ \A i \in 1 .. Len(Tail(a)) : Tail(a)[i] = a[i + 1]
  BY <1>2, <1>4, HeadTailProperties
<1>6. Head(a) = a[1] BY <1>2, <1>4
<1>7. a[1] = q[n + 1] BY <1>1, <1>2
<1>8. \A i \in 1 .. Len(b) : Tail(a)[i] = b[i]
  <2> SUFFICES ASSUME NEW i \in 1 .. Len(b) PROVE Tail(a)[i] = b[i] OBVIOUS
  <2>1. i \in 1 .. Len(Tail(a)) /\ i + 1 \in 1 .. Len(q) - n /\ i \in 1 .. Len(q) - n - 1
        /\ n + (i + 1) = n + 1 + i
    BY <1>1, <1>2, <1>3, <1>5
  <2> QED BY <2>1, <1>2, <1>3, <1>5
<1>9. Tail(a) = b BY <1>1, <1>2, <1>3, <1>5, <1>8, SeqEqual
<1> QED BY <1>4, <1>6, <1>7, <1>9 DEF a, b

(* The hands of the contract.                                              *)
Hands == [t \in Threads |-> Hand(t)]

(* Which threads hold an event.                                            *)
LEMMA HandCases ==
    ASSUME NEW t \in Threads
    PROVE  /\ pc[t] = "pop_read" => Hand(t) = <<log[idx[t] + 1]>>
           /\ pc[t] \in {"pop_release", "callback"} => Hand(t) = <<Decode(val[t])>>
           /\ pc[t] \notin {"pop_read", "pop_release", "callback"} => Hand(t) = << >>
           /\ pc[t] \in {"pop_read", "pop_release", "callback"} => Hand(t) # << >>
BY DEF Hand

(* The same in the next state.                                             *)
LEMMA HandCasesNext ==
    ASSUME NEW t \in Threads
    PROVE  /\ pc'[t] = "pop_read" => Hand(t)' = <<log'[idx'[t] + 1]>>
           /\ pc'[t] \in {"pop_release", "callback"} => Hand(t)' = <<Decode(val'[t])>>
           /\ pc'[t] \notin {"pop_read", "pop_release", "callback"} => Hand(t)' = << >>
BY DEF Hand

(* A thread that does not step holds what it held: the log only grows.     *)
LEMMA HandKept ==
    ASSUME QueueInv, NEW u \in Threads,
           pc'[u] = pc[u], idx'[u] = idx[u], val'[u] = val[u],
           log' = log \/ \E e \in Nat \X Nat : log' = Append(log, e)
    PROVE  Hand(u)' = Hand(u)
<1>1. CASE pc[u] = "pop_read"
  <2>1. /\ idx[u] \in Nat /\ Len(log) \in Nat /\ taken \in Nat
        /\ idx[u] < taken /\ taken <= Len(log) /\ log \in Seq(Nat \X Nat)
    BY <1>1, Position DEF QueueInv, Protocol, Consumers, Consuming, Shapes
  <2>2. idx[u] + 1 \in 1 .. Len(log) BY <2>1
  <2>3. log'[idx[u] + 1] = log[idx[u] + 1]
    <3>1. ASSUME NEW e \in Nat \X Nat, log' = Append(log, e) PROVE log'[idx[u] + 1] = log[idx[u] + 1]
      <4>1. \A i \in 1 .. Len(log) : Append(log, e)[i] = log[i]
        BY <2>1, AppendProperties
      <4> QED BY <4>1, <2>2, <3>1, Zenon
    <3> QED BY <3>1
  <2> QED BY <1>1, <2>3, HandCases, HandCasesNext
<1>2. CASE pc[u] # "pop_read" BY <1>2, HandCases, HandCasesNext
<1> QED BY <1>1, <1>2

(* A step after which every thread holds what it held, and that neither    *)
(* accepts nor claims an event, is invisible.                              *)
LEMMA QueueStutter ==
    ASSUME UNCHANGED <<log, taken>>, \A u \in Threads : Hand(u)' = Hand(u)
    PROVE  UNCHANGED Abstract!vars
<1>1. Hands' = Hands BY DEF Hands
<1>2. Waiting' = Waiting BY DEF Waiting
<1> QED BY <1>1, <1>2 DEF Abstract!vars, Hands, Waiting

(* Steps before the claim of an event and after its publication.           *)
LEMMA IdleHandStep ==
    ASSUME QueueInv, NEW t \in Threads, UNCHANGED <<log, taken>>,
           pc[t] \notin {"pop_read", "pop_release", "callback"},
           pc'[t] \notin {"pop_read", "pop_release", "callback"},
           \A u \in Threads : u # t => pc'[u] = pc[u] /\ idx'[u] = idx[u] /\ val'[u] = val[u]
    PROVE  UNCHANGED Abstract!vars
<1>1. ASSUME NEW u \in Threads PROVE Hand(u)' = Hand(u)
  <2>1. CASE u = t BY <2>1, HandCases, HandCasesNext
  <2>2. CASE u # t BY <2>2, HandKept
  <2> QED BY <2>1, <2>2
<1> QED BY <1>1, QueueStutter

(* The compare_exchange of push accepts its event; there is room for it.   *)
LEMMA PushCasAccepts ==
    ASSUME QueueInv, NEW t \in Threads, PushCas(t)
    PROVE  Abstract!Next
<1>0. /\ pc \in [Threads -> Labels] /\ arg \in [Threads -> Nat \X Nat]
      /\ log \in Seq(Nat \X Nat) /\ taken \in Nat /\ Len(log) \in Nat /\ taken <= Len(log)
      /\ pc[t] = "push_cas"
  BY Position DEF QueueInv, Protocol, Shapes, PushCas
<1>1. arg[t] \in Recordable /\ arg[t] \in Nat \X Nat
  BY <1>0 DEF PushCas, QueueInv, PushLabels
<1>2. log' = Append(log, arg[t]) /\ taken' = taken BY DEF PushCas
<1>3. Len(log) < taken + Cap
  <2>1. Len(log') <= taken' + Cap BY PushCasInv DEF QueueInv, Protocol, Counters, Bounded
  <2>2. Len(log') = Len(log) + 1 BY <1>0, <1>1, <1>2, AppendProperties
  <2> QED BY <2>1, <2>2, <1>0, <1>2, Constants
<1>4. Waiting' = Append(Waiting, arg[t]) /\ Len(Waiting) = Len(log) - taken
  <2> DEFINE S == Nat \X Nat
  <2>1. log \in Seq(S) /\ arg[t] \in S /\ taken \in Nat /\ taken <= Len(log) BY <1>0, <1>1
  <2> HIDE DEF S
  <2>2. /\ SubSeq(Append(log, arg[t]), taken + 1, Len(Append(log, arg[t])))
             = Append(SubSeq(log, taken + 1, Len(log)), arg[t])
        /\ Len(SubSeq(log, taken + 1, Len(log))) = Len(log) - taken
    BY <2>1, SuffixAppend, Zenon
  <2> QED BY <2>2, <1>2 DEF Waiting
<1>5. Len(Waiting) < Cap BY <1>3, <1>4, <1>0, Constants
<1>6. ASSUME NEW u \in Threads PROVE Hand(u)' = Hand(u)
  <2>1. idx'[u] = idx[u] /\ val'[u] = val[u] BY DEF PushCas
  <2>2. CASE u = t
    <3>1. pc[u] = "push_cas" /\ pc'[u] = "push_store" BY <2>2, <1>0 DEF PushCas, Goto
    <3> QED BY <3>1, HandCases, HandCasesNext
  <2>3. CASE u # t
    <3>1. pc'[u] = pc[u] BY <2>3, <1>0 DEF PushCas, Goto
    <3> QED BY <3>1, <2>1, <1>1, <1>2, HandKept
  <2> QED BY <2>2, <2>3
<1>7. Hands' = Hands BY <1>6 DEF Hands
<1>8. Abstract!Accept(arg[t]) BY <1>4, <1>5, <1>7 DEF Abstract!Accept, Waiting, Hands
<1> QED BY <1>1, <1>8 DEF Abstract!Next, Recordable

(* The compare_exchange of pop takes the oldest accepted event.            *)
LEMMA PopCasTakes ==
    ASSUME QueueInv, NEW t \in Threads, PopCas(t)
    PROVE  Abstract!Next
<1>0. /\ pc \in [Threads -> Labels] /\ pc[t] = "pop_cas" /\ pos[t] = At(idx[t])
      /\ log \in Seq(Nat \X Nat) /\ taken \in Nat /\ Len(log) \in Nat /\ idx[t] \in Nat
      /\ taken <= Len(log) /\ idx[t] <= taken /\ Len(log) < idx[t] + Modulus
  BY Position DEF PopCas, QueueInv, Protocol, Shapes, Loaded, PopLabels
<1>1. idx[t] = taken
  <2>1. At(idx[t]) = At(taken) BY <1>0 DEF PopCas, QueueInv, Protocol, Counters
  <2>2. idx[t] < taken + Modulus /\ taken < idx[t] + Modulus BY <1>0, Constants
  <2> QED BY <2>1, <2>2, <1>0, AtInjective
<1>2. log' = log /\ taken' = taken + 1 /\ idx' = idx /\ val' = val BY DEF PopCas
<1>3. taken < Len(log)
  <2>1. taken' <= Len(log') BY PopCasInv DEF QueueInv, Protocol, Counters, Bounded
  <2> QED BY <2>1, <1>0, <1>2
<1>4. Waiting # << >> /\ Head(Waiting) = log[taken + 1] /\ Waiting' = Tail(Waiting)
  BY <1>0, <1>2, <1>3, SuffixTail DEF Waiting
<1>5. Hand(t) = << >> BY <1>0, HandCases
<1>6. Hand(t)' = <<log[taken + 1]>>
  <2>1. pc'[t] = "pop_read" BY <1>0 DEF PopCas, Goto
  <2> QED BY <2>1, <1>1, <1>2, HandCasesNext
<1>7. ASSUME NEW u \in Threads, u # t PROVE Hand(u)' = Hand(u)
  <2>1. pc'[u] = pc[u] BY <1>0, <1>7 DEF PopCas, Goto
  <2> QED BY <2>1, <1>2, HandKept
<1>8. Hands' = [Hands EXCEPT ![t] = <<Head(Waiting)>>] BY <1>4, <1>6, <1>7 DEF Hands
<1>9. Hands[t] = << >> BY <1>5 DEF Hands
<1>10. Abstract!Take(t) BY <1>4, <1>8, <1>9 DEF Abstract!Take, Waiting, Hands
<1> QED BY <1>10 DEF Abstract!Next

(* The callback delivers the event in hand.                                *)
LEMMA CallbackDelivers ==
    ASSUME QueueInv, NEW t \in Threads, Callback(t) \/ LastCallback(t)
    PROVE  Abstract!Next
<1>0. /\ pc \in [Threads -> Labels] /\ idx \in [Threads -> Nat] /\ val \in [Threads -> Nat]
  BY DEF QueueInv, Protocol, Shapes
<1>1. /\ pc[t] = "callback" /\ pc'[t] \in {"pop_load", "idle"}
      /\ log' = log /\ taken' = taken
      /\ \A u \in Threads : u # t => pc'[u] = pc[u] /\ idx'[u] = idx[u] /\ val'[u] = val[u]
  BY <1>0 DEF Callback, LastCallback, Return, Goto
<1>2. Hand(t) # << >> /\ Hand(t)' = << >> BY <1>1, HandCases, HandCasesNext
<1>3. \A u \in Threads : u # t => Hand(u)' = Hand(u) BY <1>1, HandKept
<1>4. Hands' = [Hands EXCEPT ![t] = << >>] BY <1>2, <1>3 DEF Hands
<1>5. Waiting' = Waiting BY <1>1 DEF Waiting
<1>6. Hands[t] # << >> BY <1>2 DEF Hands
<1>7. Abstract!Deliver(t) BY <1>4, <1>5, <1>6 DEF Abstract!Deliver, Waiting, Hands
<1> QED BY <1>7 DEF Abstract!Next

(* Reading the payload and releasing the slot do not change what is in     *)
(* hand: the payload is the encoding of the claimed event.                 *)
LEMMA ReadReleaseStutter ==
    ASSUME QueueInv, NEW t \in Threads, PopRead(t) \/ PopRelease(t)
    PROVE  UNCHANGED Abstract!vars
<1>0. /\ pc \in [Threads -> Labels] /\ idx \in [Threads -> Nat] /\ val \in [Threads -> Nat]
  BY DEF QueueInv, Protocol, Shapes
<1>1. /\ log' = log /\ taken' = taken
      /\ \A u \in Threads : u # t => pc'[u] = pc[u] /\ idx'[u] = idx[u] /\ val'[u] = val[u]
  BY <1>0 DEF PopRead, PopRelease, Goto
<1>2. CASE PopRead(t)
  <2>1. pc[t] = "pop_read" /\ pc'[t] = "pop_release" /\ val'[t] = data[Slot(pos[t])]
    BY <1>0, <1>2 DEF PopRead, Goto
  <2>2. /\ pos[t] = At(idx[t]) /\ idx[t] \in Nat /\ taken \in Nat /\ Len(log) \in Nat
        /\ idx[t] < taken /\ taken <= Len(log)
    BY <2>1, Position DEF QueueInv, Protocol, Consumers, Consuming
  <2>3. val'[t] = Encode(log[idx[t] + 1])
    BY <2>1, <2>2 DEF QueueInv, Protocol, Consumers
  <2>4. idx[t] + 1 \in 1 .. Len(log) BY <2>2
  <2>5. Decode(val'[t]) = log[idx[t] + 1] BY <2>3, <2>4, Accepted
  <2> QED BY <2>1, <2>5, HandCases, HandCasesNext, HandKept, QueueStutter, <1>1
<1>3. CASE PopRelease(t)
  <2>1. pc[t] = "pop_release" /\ pc'[t] = "callback" /\ val'[t] = val[t]
    BY <1>0, <1>3 DEF PopRelease, Goto
  <2> QED BY <2>1, HandCases, HandCasesNext, HandKept, QueueStutter, <1>1
<1> QED BY <1>2, <1>3

(* The empty buffer is the empty queue.                                    *)
LEMMA QueueStart == Init => Abstract!Init
<1> SUFFICES ASSUME Init PROVE Abstract!Init OBVIOUS
<1>1. Waiting = << >> BY SubSeqEmpty DEF Init, Waiting
<1>2. Hands = [t \in Threads |-> << >>] BY HandCases DEF Init, Hands
<1> QED BY <1>1, <1>2 DEF Abstract!Init, Waiting, Hands

(* Every step accepts, takes or delivers one event, or is invisible.       *)
LEMMA QueueStep ==
    ASSUME QueueInv, [Next]_vars
    PROVE  [Abstract!Next]_Abstract!vars
<1>0. /\ pc \in [Threads -> Labels] /\ idx \in [Threads -> Nat] /\ val \in [Threads -> Nat]
  BY DEF QueueInv, Protocol, Shapes
<1>1. CASE UNCHANGED vars
  <2>1. \A u \in Threads : Hand(u)' = Hand(u) BY <1>1 DEF vars, Hand
  <2> QED BY <1>1, <2>1, QueueStutter DEF vars
<1>2. ASSUME NEW t \in Threads,
             (\E r \in Requests : BeginPush(t, r)) \/ PushCheck(t) \/ PushStore(t)
             \/ BeginDrain(t) \/ BeginClear(t) \/ PopLoad(t) \/ PopCheck(t)
      PROVE  UNCHANGED Abstract!vars
  <2>1. /\ UNCHANGED <<log, taken>>
        /\ pc[t] \notin {"pop_read", "pop_release", "callback"}
    BY <1>2 DEF BeginPush, PushCheck, PushStore, BeginDrain, BeginClear, PopLoad, PopCheck, MayEnter
  <2>2. \E l \in {"push_check", "push_cas", "push_publish", "pop_load", "pop_check", "pop_cas"} :
           Goto(t, l)
    BY <1>2 DEF BeginPush, PushCheck, PushStore, BeginDrain, BeginClear, PopLoad, PopCheck
  <2>3. val' = val /\ \E k : idx' = [idx EXCEPT ![t] = k]
    <3>1. [idx EXCEPT ![t] = idx[t]] = idx BY <1>0
    <3> QED BY <1>2, <3>1 DEF BeginPush, PushCheck, PushStore, BeginDrain, BeginClear, PopLoad, PopCheck
  <2> QED BY <1>0, <2>1, <2>2, <2>3, IdleHandStep DEF Goto
<1>3. ASSUME NEW t \in Threads, PushGiveUp(t) \/ PushPublish(t) \/ PopGiveUp(t)
      PROVE  UNCHANGED Abstract!vars
  <2>1. /\ UNCHANGED <<log, taken>> /\ Return(t)
        /\ pc[t] \notin {"pop_read", "pop_release", "callback"}
    BY <1>3 DEF PushGiveUp, PushPublish, PopGiveUp
  <2> QED BY <1>0, <2>1, IdleHandStep DEF Return, Goto
<1> QED BY <1>1, <1>2, <1>3, PushCasAccepts, PopCasTakes, CallbackDelivers, ReadReleaseStutter
        DEF Next, Push, Pop

(* The ring with its stale loads and wrapping counters is, to its users, a *)
(* bounded first-in first-out queue: what push accepts is handed to one    *)
(* consumer, unaltered and in order (access_buffer.rs: push, pop, drain).  *)
THEOREM BufferImplementsQueue == Spec => ImplementsEventQueue
<1>1. QueueInv /\ [Next]_vars => QueueInv' BY QueueNext
<1>2. QueueInv /\ [Next]_vars => [Abstract!Next]_Abstract!vars BY QueueStep
<1> QED BY <1>1, <1>2, QueueInit, QueueStart, PTL DEF Spec, ImplementsEventQueue, Abstract!Spec
-----------------------------------------------------------------------------
(* clear() leaves nothing behind.                                          *)

(* An accepted event that is not published yet has a producer at work.     *)
Claimed ==
    \A k \in taken .. (Len(log) - 1) :
        Tag(k) = At(k) => \E t \in Threads : Producing(t) /\ idx[t] = k

(* An iteration of the loop has claimed its event and not finished.        *)
Popped(t) == pc[t] \in {"pop_read", "pop_release", "callback"}

(* The thread that clears is alone, loads current counters, and has enough *)
(* iterations left for the events that wait.                               *)
Clearing ==
    \A t \in Threads : excl = t =>
        /\ \A u \in Threads : u # t => pc[u] = "idle"
        /\ pc[t] \in PopLabels
        /\ pc[t] \in {"pop_check", "pop_cas"} => idx[t] = taken
        /\ Popped(t) => Len(log) + 1 <= taken + left[t]
        /\ Len(log) <= taken + left[t]

(* The inductive invariant of clear().                                     *)
ClearInv == Protocol /\ Claimed /\ Clearing

(* ClearInv holds initially.                                               *)
LEMMA ClearInit == Init => ClearInv
<1> SUFFICES ASSUME Init PROVE ClearInv OBVIOUS
<1>1. Protocol BY InitInv
<1>2. Len(log) = 0 /\ taken = 0 BY DEF Init
<1>3. taken .. (Len(log) - 1) = {} BY <1>2
<1>4. Claimed BY <1>3 DEF Claimed
<1>5. Clearing BY Constants DEF Init, Clearing
<1> QED BY <1>1, <1>4, <1>5 DEF ClearInv

(* Steps that leave tags, history and producers alone keep Claimed.        *)
LEMMA ClaimedKept ==
    ASSUME Claimed, UNCHANGED <<seq, log, taken>>,
           \A u \in Threads : Producing(u) => Producing(u)' /\ idx'[u] = idx[u]
    PROVE  Claimed'
BY DEF Claimed, Tag

(* The step of push that claims a position becomes its producer.           *)
LEMMA ClaimedPushCas ==
    ASSUME Protocol, Claimed, NEW t \in Threads, PushCas(t)
    PROVE  Claimed'
<1>0. /\ pc \in [Threads -> Labels] /\ log \in Seq(Nat \X Nat) /\ arg[t] \in Nat \X Nat
      /\ pc[t] = "push_cas" /\ pos[t] = At(idx[t])
      /\ taken \in Nat /\ Len(log) \in Nat /\ idx[t] \in Nat
      /\ idx[t] <= Len(log) /\ Len(log) < idx[t] + Modulus
  BY Position DEF PushCas, Protocol, Shapes
<1>1. idx[t] = Len(log)
  <2>1. At(idx[t]) = At(Len(log)) BY <1>0 DEF PushCas, Protocol, Counters
  <2>2. idx[t] < Len(log) + Modulus BY <1>0, Constants
  <2> QED BY <2>1, <2>2, <1>0, AtInjective
<1>2. UNCHANGED <<seq, taken, idx>> /\ Len(log') = Len(log) + 1
  BY <1>0, AppendProperties DEF PushCas
<1>3. \A u \in Threads : Producing(u) => Producing(u)'
  BY <1>0 DEF PushCas, Goto, Producing
<1>4. Producing(t)' BY <1>0 DEF PushCas, Goto, Producing
<1> SUFFICES ASSUME NEW k \in taken .. Len(log), Tag(k) = At(k)
             PROVE  \E u \in Threads : Producing(u)' /\ idx[u] = k
  BY <1>0, <1>2 DEF Claimed, Tag
<1>5. CASE k = Len(log) BY <1>1, <1>4, <1>5
<1>6. CASE k # Len(log)
  <2>1. k \in taken .. (Len(log) - 1) BY <1>0, <1>6
  <2> QED BY <2>1, <1>3 DEF Claimed
<1> QED BY <1>5, <1>6

(* Publication marks exactly the producer's own position.                  *)
LEMMA ClaimedPushPublish ==
    ASSUME Protocol, Claimed, NEW t \in Threads, PushPublish(t)
    PROVE  Claimed'
<1>0. /\ pc \in [Threads -> Labels] /\ seq \in [Slots -> 0 .. (Modulus - 1)]
      /\ idx \in [Threads -> Nat]
      /\ pc[t] = "push_publish" /\ pos[t] = At(idx[t])
      /\ taken \in Nat /\ Len(log) \in Nat /\ idx[t] \in Nat
      /\ taken <= Len(log) /\ Len(log) <= taken + Cap
      /\ Slot(At(idx[t])) \in Slots
      /\ taken <= idx[t] /\ idx[t] < Len(log)
  BY Position DEF PushPublish, Protocol, Shapes, Producers, Producing
<1>1. seq' = [seq EXCEPT ![Slot(At(idx[t]))] = At(idx[t] + 1)] /\ UNCHANGED <<log, taken>>
  BY <1>0, AtAdd DEF PushPublish
<1>2. \A u \in Threads : u # t => pc'[u] = pc[u] /\ idx'[u] = idx[u]
  BY <1>0 DEF PushPublish, Return, Goto
<1> SUFFICES ASSUME NEW k \in taken .. (Len(log) - 1), Tag(k)' = At(k)
             PROVE  \E u \in Threads : Producing(u)' /\ idx'[u] = k
  BY <1>1 DEF Claimed, Tag
<1>3. k \in Nat /\ k < idx[t] + Cap /\ idx[t] < k + Cap BY <1>0, Constants
<1>4. k # idx[t]
  <2> SUFFICES ASSUME k = idx[t] PROVE FALSE OBVIOUS
  <2>1. Tag(k)' = At(idx[t] + 1) BY <1>0, <1>1 DEF Tag
  <2>2. /\ idx[t] + 1 \in Nat /\ idx[t] + 1 < idx[t] + Modulus
        /\ idx[t] < (idx[t] + 1) + Modulus /\ idx[t] + 1 # idx[t]
    BY <1>0, Constants
  <2> QED BY <2>1, <2>2, <1>0, AtInjective
<1>5. Slot(At(k)) # Slot(At(idx[t])) BY <1>0, <1>3, <1>4, SlotInjective
<1>6. Tag(k)' = Tag(k) BY <1>0, <1>1, <1>3, <1>5, AtType DEF Tag
<1>7. PICK u \in Threads : Producing(u) /\ idx[u] = k BY <1>6 DEF Claimed
<1>8. u # t BY <1>4, <1>7
<1> QED BY <1>2, <1>7, <1>8 DEF Producing

(* The slot a consumer releases belongs to no position that waits.         *)
LEMMA ClaimedPopRelease ==
    ASSUME Protocol, Claimed, NEW t \in Threads, PopRelease(t)
    PROVE  Claimed'
<1>0. /\ pc \in [Threads -> Labels] /\ seq \in [Slots -> 0 .. (Modulus - 1)]
      /\ pc[t] = "pop_release" /\ pos[t] = At(idx[t])
      /\ taken \in Nat /\ Len(log) \in Nat /\ idx[t] \in Nat
      /\ taken <= Len(log) /\ Len(log) < idx[t] + Modulus
      /\ Slot(At(idx[t])) \in Slots
      /\ idx[t] < taken /\ Tag(idx[t]) = At(idx[t] + 1)
  BY Position DEF PopRelease, Protocol, Shapes, Consumers, Consuming
<1>1. /\ seq' = [seq EXCEPT ![Slot(At(idx[t]))] = At(idx[t] + Cap)]
      /\ UNCHANGED <<log, taken, idx>>
  BY <1>0, AtAdd, Constants DEF PopRelease
<1>2. \A u \in Threads : Producing(u) => Producing(u)'
  BY <1>0 DEF PopRelease, Goto, Producing
<1> SUFFICES ASSUME NEW k \in taken .. (Len(log) - 1), Tag(k)' = At(k)
             PROVE  \E u \in Threads : Producing(u)' /\ idx[u] = k
  BY <1>1 DEF Claimed, Tag
<1>3. /\ k \in Nat /\ k + 1 \in Nat /\ idx[t] + 1 \in Nat
      /\ k + 1 < (idx[t] + 1) + Modulus /\ idx[t] + 1 < (k + 1) + Modulus
      /\ k + 1 # idx[t] + 1
  BY <1>0, Constants
<1>4. Slot(At(k)) # Slot(At(idx[t]))
  <2> SUFFICES ASSUME Slot(At(k)) = Slot(At(idx[t])) PROVE FALSE OBVIOUS
  <2>1. Tag(k) = At(idx[t] + 1) BY <1>0 DEF Tag
  <2>2. At(k) # At(idx[t] + 1) BY <1>0, <1>3, SlotSteps
  <2>3. At(k + 1) # At(idx[t] + 1) BY <1>3, AtInjective
  <2>4. Tag(k) = At(k) \/ Tag(k) = At(k + 1) BY DEF Protocol, BusyTags
  <2> QED BY <2>1, <2>2, <2>3, <2>4
<1>5. Tag(k)' = Tag(k) BY <1>0, <1>1, <1>3, <1>4, AtType DEF Tag
<1>6. PICK u \in Threads : Producing(u) /\ idx[u] = k BY <1>5 DEF Claimed
<1> QED BY <1>2, <1>6

(* Every step keeps Claimed.                                               *)
LEMMA ClaimedNext ==
    ASSUME Protocol, Claimed, Next
    PROVE  Claimed'
<1>0. /\ pc \in [Threads -> Labels] /\ idx \in [Threads -> Nat] /\ taken \in Nat
      /\ Len(log) \in Nat
  BY DEF Protocol, Shapes
<1>1. ASSUME NEW t \in Threads,
             (\E r \in Requests : BeginPush(t, r)) \/ PushCheck(t)
             \/ BeginDrain(t) \/ BeginClear(t) \/ PopLoad(t) \/ PopCheck(t)
             \/ PopRead(t) \/ Callback(t)
      PROVE  Claimed'
  <2>1. UNCHANGED <<seq, log, taken>> /\ ~ Producing(t)
    BY <1>1 DEF BeginPush, PushCheck, BeginDrain, BeginClear, PopLoad, PopCheck, PopRead,
                Callback, MayEnter, shared, Producing
  <2>2. \E l \in Labels : Goto(t, l)
    BY <1>1 DEF BeginPush, PushCheck, BeginDrain, BeginClear, PopLoad, PopCheck, PopRead,
                Callback, Labels, PushLabels, PopLabels
  <2>3. \E k : idx' = [idx EXCEPT ![t] = k]
    <3>1. [idx EXCEPT ![t] = idx[t]] = idx BY <1>0
    <3> QED BY <1>1, <3>1 DEF BeginPush, PushCheck, BeginDrain, BeginClear, PopLoad, PopCheck,
                              PopRead, Callback
  <2>4. \A u \in Threads : u # t => pc'[u] = pc[u] /\ idx'[u] = idx[u]
    BY <1>0, <2>2, <2>3 DEF Goto
  <2>5. \A u \in Threads : Producing(u) => Producing(u)' /\ idx'[u] = idx[u]
    BY <2>1, <2>4 DEF Producing
  <2> QED BY <2>1, <2>5, ClaimedKept
<1>2. ASSUME NEW t \in Threads, PushStore(t) PROVE Claimed'
  <2>1. \A u \in Threads : Producing(u) => Producing(u)' /\ idx'[u] = idx[u]
    BY <1>0, <1>2 DEF PushStore, Goto, Producing
  <2> QED BY <1>2, <2>1, ClaimedKept DEF PushStore
<1>3. ASSUME NEW t \in Threads, PushGiveUp(t) \/ PopGiveUp(t) \/ LastCallback(t) PROVE Claimed'
  <2>1. UNCHANGED <<seq, log, taken>> /\ ~ Producing(t) /\ Return(t)
    BY <1>3 DEF PushGiveUp, PopGiveUp, LastCallback, shared, Producing
  <2>2. \A u \in Threads : Producing(u) => Producing(u)' /\ idx'[u] = idx[u]
    BY <1>0, <2>1 DEF Return, Goto, Producing
  <2> QED BY <2>1, <2>2, ClaimedKept
<1>4. ASSUME NEW t \in Threads, PopCas(t) PROVE Claimed'
  <2>1. UNCHANGED <<seq, log, idx>> /\ taken' = taken + 1 BY <1>4 DEF PopCas
  <2>2. \A u \in Threads : Producing(u) => Producing(u)' BY <1>0, <1>4 DEF PopCas, Goto, Producing
  <2>3. \A k \in taken + 1 .. (Len(log) - 1) : k \in taken .. (Len(log) - 1) BY <1>0
  <2> QED BY <2>1, <2>2, <2>3 DEF Claimed, Tag
<1> QED BY <1>1, <1>2, <1>3, <1>4, ClaimedPushCas, ClaimedPushPublish, ClaimedPopRelease
        DEF Next, Push, Pop

(* A thread whose call ends no longer clears; nobody else begins to.       *)
LEMMA ClearingReturn ==
    ASSUME Protocol, Clearing, NEW t \in Threads, pc[t] # "idle", Return(t),
           UNCHANGED <<log, taken>>
    PROVE  Clearing'
<1>0. pc \in [Threads -> Labels] /\ excl \in Threads \cup {NoThread} BY DEF Protocol, Shapes
<1> SUFFICES ASSUME NEW c \in Threads, excl' = c PROVE FALSE BY DEF Clearing
<1>1. excl = c /\ c # t BY Constants DEF Return
<1> QED BY <1>1 DEF Clearing

(* Steps of the clearing thread itself and steps while nobody clears.      *)
LEMMA ClearingStep ==
    ASSUME Protocol, Clearing, NEW t \in Threads, pc[t] # "idle",
           UNCHANGED excl, \A u \in Threads : u # t => pc'[u] = pc[u],
           excl = t => /\ pc'[t] \in PopLabels
                       /\ pc'[t] \in {"pop_check", "pop_cas"} => idx'[t] = taken'
                       /\ Popped(t)' => Len(log') + 1 <= taken' + left'[t]
                       /\ Len(log') <= taken' + left'[t]
    PROVE  Clearing'
<1> SUFFICES ASSUME NEW c \in Threads, excl = c
             PROVE  /\ \A u \in Threads : u # c => pc'[u] = "idle"
                    /\ pc'[c] \in PopLabels
                    /\ pc'[c] \in {"pop_check", "pop_cas"} => idx'[c] = taken'
                    /\ Popped(c)' => Len(log') + 1 <= taken' + left'[c]
                    /\ Len(log') <= taken' + left'[c]
  BY DEF Clearing
<1>1. c = t BY DEF Clearing
<1> QED BY <1>1 DEF Clearing

(* Every step keeps Clearing.                                              *)
LEMMA ClearingNext ==
    ASSUME Protocol, Clearing, Next
    PROVE  Clearing'
<1>0. /\ pc \in [Threads -> Labels] /\ idx \in [Threads -> Nat] /\ left \in [Threads -> Nat]
      /\ taken \in Nat /\ Len(log) \in Nat /\ log \in Seq(Nat \X Nat)
      /\ taken <= Len(log) /\ Len(log) <= taken + Cap /\ Cap \in Nat
  BY Constants DEF Protocol, Shapes, Counters, Bounded
<1>1. ASSUME NEW t \in Threads, (\E r \in Requests : BeginPush(t, r)) \/ BeginDrain(t)
      PROVE  Clearing'
  <2>1. excl' = NoThread BY <1>1 DEF BeginPush, BeginDrain, MayEnter
  <2> QED BY <2>1, Constants DEF Clearing
<1>2. ASSUME NEW t \in Threads, BeginClear(t) PROVE Clearing'
  <2>1. /\ \A u \in Threads : pc[u] = "idle"
        /\ excl' = t /\ pc' = [pc EXCEPT ![t] = "pop_load"]
        /\ left' = [left EXCEPT ![t] = Cap] /\ UNCHANGED <<log, taken>>
    BY <1>2 DEF BeginClear, Goto
  <2>2. /\ \A u \in Threads : u # t => pc'[u] = "idle"
        /\ pc'[t] = "pop_load" /\ left'[t] = Cap
    BY <2>1, <1>0
  <2>3. pc'[t] \in PopLabels /\ ~ Popped(t)' BY <2>2 DEF PopLabels, Popped
  <2>4. Len(log') <= taken' + left'[t] BY <2>1, <2>2, <1>0
  <2> QED BY <2>1, <2>2, <2>3, <2>4 DEF Clearing
<1>3. ASSUME NEW t \in Threads, PushCheck(t) \/ PushCas(t) \/ PushStore(t) PROVE Clearing'
  <2>1. excl' = excl /\ pc[t] \in PushLabels
    BY <1>3 DEF PushCheck, PushCas, PushStore, PushLabels
  <2>2. pc[t] # "idle" /\ pc[t] \notin PopLabels BY <2>1 DEF PushLabels, PopLabels
  <2>3. \A u \in Threads : u # t => pc'[u] = pc[u]
    BY <1>0, <1>3 DEF PushCheck, PushCas, PushStore, Goto
  <2>4. excl # t BY <2>2 DEF Clearing
  <2> QED BY <2>1, <2>2, <2>3, <2>4, ClearingStep
<1>4. ASSUME NEW t \in Threads,
             PushGiveUp(t) \/ PushPublish(t) \/ PopGiveUp(t) \/ LastCallback(t)
      PROVE  Clearing'
  <2>1. pc[t] # "idle" /\ Return(t) /\ UNCHANGED <<log, taken>>
    BY <1>4 DEF PushGiveUp, PushPublish, PopGiveUp, LastCallback
  <2> QED BY <2>1, ClearingReturn
<1>5. ASSUME NEW t \in Threads, PopLoad(t) PROVE Clearing'
  <2>1. /\ pc[t] = "pop_load" /\ UNCHANGED <<excl, log, taken, left>>
        /\ pc' = [pc EXCEPT ![t] = "pop_check"]
    BY <1>5 DEF PopLoad, Goto
  <2>2. /\ \A u \in Threads : u # t => pc'[u] = pc[u]
        /\ pc'[t] = "pop_check"
    BY <2>1, <1>0
  <2>3. pc'[t] \in PopLabels /\ ~ Popped(t)' BY <2>2 DEF PopLabels, Popped
  <2>4. ASSUME excl = t PROVE idx'[t] = taken
    <3>1. PICK k \in Visible(t, taken) : idx' = [idx EXCEPT ![t] = k] BY <1>5 DEF PopLoad
    <3>2. k \in 0 .. taken /\ taken <= k + 0 BY <2>4 DEF Visible
    <3>3. k = taken BY <3>2, <1>0
    <3> QED BY <3>1, <3>3, <1>0
  <2>5. excl = t => Len(log) <= taken + left[t] BY DEF Clearing
  <2> QED BY <2>1, <2>2, <2>3, <2>4, <2>5, ClearingStep
<1>6. ASSUME NEW t \in Threads, PopCheck(t) PROVE Clearing'
  <2>1. /\ pc[t] = "pop_check" /\ UNCHANGED <<excl, log, taken, left, idx>>
        /\ pc' = [pc EXCEPT ![t] = "pop_cas"]
    BY <1>6 DEF PopCheck, Goto
  <2>2. /\ \A u \in Threads : u # t => pc'[u] = pc[u]
        /\ pc'[t] = "pop_cas"
    BY <2>1, <1>0
  <2>3. pc'[t] \in PopLabels /\ ~ Popped(t)' BY <2>2 DEF PopLabels, Popped
  <2>4. excl = t => idx[t] = taken /\ Len(log) <= taken + left[t] BY <2>1 DEF Clearing
  <2> QED BY <2>1, <2>2, <2>3, <2>4, ClearingStep
<1>7. ASSUME NEW t \in Threads, PopCas(t) PROVE Clearing'
  <2>1. /\ pc[t] = "pop_cas" /\ UNCHANGED <<excl, log, left>> /\ taken' = taken + 1
        /\ pc' = [pc EXCEPT ![t] = "pop_read"]
    BY <1>7 DEF PopCas, Goto
  <2>2. /\ \A u \in Threads : u # t => pc'[u] = pc[u]
        /\ pc'[t] = "pop_read"
    BY <2>1, <1>0
  <2>3. pc'[t] \in PopLabels /\ pc'[t] \notin {"pop_check", "pop_cas"} BY <2>2 DEF PopLabels
  <2>4. excl = t => Len(log) <= taken + left[t] BY DEF Clearing
  <2>5. left[t] \in Nat BY <1>0
  <2>6. excl = t => /\ Len(log') + 1 <= taken' + left'[t]
                    /\ Len(log') <= taken' + left'[t]
    BY <2>1, <2>4, <2>5, <1>0
  <2> QED BY <2>1, <2>2, <2>3, <2>6, ClearingStep
<1>8. ASSUME NEW t \in Threads, PopRead(t) \/ PopRelease(t) PROVE Clearing'
  <2>1. /\ Popped(t) /\ pc[t] # "idle" /\ UNCHANGED <<excl, log, left, taken>>
        /\ \E l \in {"pop_release", "callback"} : pc' = [pc EXCEPT ![t] = l]
    BY <1>8 DEF PopRead, PopRelease, Goto, Popped
  <2>2. /\ \A u \in Threads : u # t => pc'[u] = pc[u]
        /\ pc'[t] \in {"pop_release", "callback"}
    BY <2>1, <1>0
  <2>3. pc'[t] \in PopLabels /\ pc'[t] \notin {"pop_check", "pop_cas"} BY <2>2 DEF PopLabels
  <2>4. excl = t => Len(log) + 1 <= taken + left[t] /\ Len(log) <= taken + left[t]
    BY <2>1 DEF Clearing
  <2> QED BY <2>1, <2>2, <2>3, <2>4, ClearingStep
<1>9. ASSUME NEW t \in Threads, Callback(t) PROVE Clearing'
  <2>1. /\ Popped(t) /\ pc[t] # "idle" /\ UNCHANGED <<excl, log, taken>>
        /\ pc' = [pc EXCEPT ![t] = "pop_load"]
        /\ left' = [left EXCEPT ![t] = left[t] - 1]
    BY <1>9 DEF Callback, Goto, Popped
  <2>2. /\ \A u \in Threads : u # t => pc'[u] = pc[u]
        /\ pc'[t] = "pop_load" /\ left'[t] = left[t] - 1
    BY <2>1, <1>0
  <2>3. pc'[t] \in PopLabels /\ ~ Popped(t)' BY <2>2 DEF PopLabels, Popped
  <2>4. excl = t => Len(log) + 1 <= taken + left[t] BY <2>1 DEF Clearing
  <2>5. left[t] \in Nat BY <1>0
  <2>6. excl = t => Len(log') <= taken' + left'[t] BY <2>1, <2>2, <2>4, <2>5, <1>0
  <2> QED BY <2>1, <2>2, <2>3, <2>6, ClearingStep
<1> QED BY <1>1, <1>2, <1>3, <1>4, <1>5, <1>6, <1>7, <1>8, <1>9 DEF Next, Push, Pop

(* Every step keeps ClearInv.                                              *)
LEMMA ClearNext == ClearInv /\ [Next]_vars => ClearInv'
<1> SUFFICES ASSUME ClearInv, [Next]_vars PROVE ClearInv' OBVIOUS
<1>1. Protocol' BY NextInv DEF ClearInv
<1>2. CASE Next BY <1>1, <1>2, ClaimedNext, ClearingNext DEF ClearInv
<1>3. CASE UNCHANGED vars
  <2>1. Claimed' BY <1>3 DEF ClearInv, Claimed, Tag, Producing, vars
  <2>2. Clearing' BY <1>3 DEF ClearInv, Clearing, Popped, vars
  <2> QED BY <1>1, <2>1, <2>2 DEF ClearInv
<1> QED BY <1>2, <1>3

(* What ClearEmpties says of one step.                                     *)
Emptied == \A t \in Threads : (excl = t /\ excl' # t) => taken = Len(log)

(* A failed check at the tail under the resize lock means an empty ring.   *)
LEMMA ClearStep ==
    ASSUME ClearInv, Next
    PROVE  Emptied
<1> SUFFICES ASSUME NEW c \in Threads, excl = c, excl' # c
             PROVE  taken = Len(log)
  BY DEF Emptied
<1>0. /\ taken \in Nat /\ Len(log) \in Nat /\ idx \in [Threads -> Nat] /\ left \in [Threads -> Nat]
      /\ taken <= Len(log) /\ Len(log) <= taken + Cap /\ tail = At(taken)
  BY DEF ClearInv, Protocol, Shapes, Counters, Bounded
<1>1. /\ \A u \in Threads : u # c => pc[u] = "idle"
      /\ pc[c] \in PopLabels
      /\ pc[c] \in {"pop_check", "pop_cas"} => idx[c] = taken
      /\ Popped(c) => Len(log) + 1 <= taken + left[c]
  BY DEF ClearInv, Clearing
<1>2. excl # NoThread BY Constants
<1>3. PICK t \in Threads : PushGiveUp(t) \/ PushPublish(t) \/ PopGiveUp(t) \/ LastCallback(t)
  BY <1>2 DEF Next, Push, Pop, BeginPush, BeginDrain, BeginClear, MayEnter, PushCheck, PushCas,
              PushStore, PopLoad, PopCheck, PopCas, PopRead, PopRelease, Callback
<1>4. t = c /\ (PopGiveUp(t) \/ LastCallback(t))
  <2>1. pc[t] # "idle" BY <1>3 DEF PushGiveUp, PushPublish, PopGiveUp, LastCallback
  <2>2. t = c BY <1>1, <2>1
  <2> QED BY <1>1, <1>3, <2>2 DEF PushGiveUp, PushPublish, PopLabels
<1>5. CASE LastCallback(t)
  <2>1. Popped(c) /\ left[c] = 1 BY <1>4, <1>5 DEF LastCallback, Popped
  <2> QED BY <2>1, <1>0, <1>1
<1>6. CASE PopGiveUp(t)
  <2>1. pc[c] \in {"pop_check", "pop_cas"} /\ idx[c] = taken BY <1>1, <1>4, <1>6 DEF PopGiveUp
  <2>2. pos[c] = At(taken) BY <2>1, Position DEF ClearInv
  <2>3. pc[c] = "pop_check" /\ seq[Slot(pos[c])] # WrappingAdd(pos[c], 1)
    BY <1>0, <1>4, <1>6, <2>2 DEF PopGiveUp
  <2>4. Tag(taken) # At(taken + 1) BY <2>2, <2>3, <1>0, AtAdd DEF Tag
  <2> SUFFICES ASSUME taken # Len(log) PROVE FALSE OBVIOUS
  <2>5. taken \in taken .. (Len(log) - 1) BY <1>0
  <2>6. Tag(taken) = At(taken) BY <2>4, <2>5 DEF ClearInv, Protocol, BusyTags
  <2>7. PICK u \in Threads : Producing(u) BY <2>5, <2>6 DEF ClearInv, Claimed
  <2>8. u = c BY <1>1, <2>7 DEF Producing
  <2> QED BY <2>3, <2>7, <2>8 DEF Producing
<1> QED BY <1>4, <1>5, <1>6

(* When clear() gives up the resize lock, every event recorded before it   *)
(* has been claimed: its bounded loop of single-attempt pops never stops   *)
(* early (access_buffer.rs: clear, pop).                                   *)
THEOREM ClearLeavesNothing == Spec => ClearEmpties
<1>1. ClearInv /\ [Next]_vars => ClearInv' BY ClearNext
<1>2. ClearInv /\ [Next]_vars => [Emptied]_vars BY ClearStep
<1>3. Spec => [][Emptied]_vars BY <1>1, <1>2, ClearInit, PTL DEF Spec
<1> QED BY <1>3, PTL DEF ClearEmpties, Emptied
=============================================================================
