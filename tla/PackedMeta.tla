----------------------------- MODULE PackedMeta -----------------------------
(***************************************************************************)
(* The metadata word as the one integer it is (src/engine/meta.rs): from   *)
(* the lowest bit up the priorities, the fingerprints and the states of    *)
(* the slots; and the two searches for a fingerprint, scalar and vector    *)
(* (src/simd.rs).  A bit mask over slots or lanes is the set of its ones.  *)
(***************************************************************************)
EXTENDS MetaWord

CONSTANTS H2Bits,       \* 7
          FreqBits,     \* 4
          RecencyBits,  \* 3
          Lanes         \* 16: bytes in a vector register

ASSUME PackedAssumption ==
    /\ {H2Bits, FreqBits, RecencyBits} \subseteq Nat \ {0}
    /\ MaxFreq = 2 ^ FreqBits - 1 /\ MaxRecency = 2 ^ RecencyBits - 1
    /\ Lanes \in Nat /\ Lanes >= SlotsPerBucket

PrioBits     == FreqBits + RecencyBits
PrioShift(s)  == s * PrioBits
H2Shift(s)    == SlotsPerBucket * PrioBits + s * H2Bits
StateShift(s) == SlotsPerBucket * (PrioBits + H2Bits) + s * 2

(* (w >> shift) & mask, and clearing a field before or-ing a value into it. *)
Bits(w, shift, n)        == (w \div 2 ^ shift) % 2 ^ n
WithBits(w, shift, n, x) == w - Bits(w, shift, n) * 2 ^ shift + (x % 2 ^ n) * 2 ^ shift

FromBits(b) == CASE b = 1 -> "Full" [] b = 2 -> "Tombstone" [] OTHER -> "Empty"
AsBits(st)  == CASE st = "Empty" -> 0 [] st = "Full" -> 1 [] st = "Tombstone" -> 2

StateBits(w, s)   == Bits(w, StateShift(s), 2)
GetState(w, s)    == FromBits(StateBits(w, s))
GetH2(w, s)       == Bits(w, H2Shift(s), H2Bits)
GetPriority(w, s) == Bits(w, PrioShift(s), PrioBits)

WordSetState(w, s, st)   == WithBits(w, StateShift(s), 2, AsBits(st))
WordSetH2(w, s, h)       == WithBits(w, H2Shift(s), H2Bits, h)
WordSetPriority(w, s, p) == WithBits(w, PrioShift(s), PrioBits, p)

BranchlessMask(w, h) ==
    {s \in SlotIds : StateBits(w, s) = 1 /\ GetH2(w, s) = h % 2 ^ H2Bits}

(* Variant: any state but Empty passes.                                    *)
SimdMaskNonEmpty(w, h) ==
    {s \in SlotIds : GetH2(w, s) = h % 2 ^ H2Bits /\ StateBits(w, s) # 0}

(* The lanes past the last slot are zero and compared as well.             *)
SimdMask(w, h) ==
    LET vector == [l \in 0 .. (Lanes - 1) |-> IF l \in SlotIds THEN GetH2(w, l) ELSE 0]
        equal  == {l \in DOMAIN vector : vector[l] = h % 2 ^ H2Bits}
        full   == {s \in SlotIds : StateBits(w, s) = 1}
    IN  (equal \cap SlotIds) \cap full

WordFindFreeSlot(w) == First({s \in SlotIds : GetState(w, s) # "Full"})

(* One pass that keeps the lowest priority so far and its slot.            *)
WordFindEvictTarget(w) ==
    LET visit(best, s) ==
            IF GetState(w, s) = "Full" /\ (\A b \in best : GetPriority(w, s) < GetPriority(w, b))
            THEN {s} ELSE best
        after[n \in 0 .. SlotsPerBucket] == IF n = 0 THEN {} ELSE visit(after[n - 1], n - 1)
    IN  after[SlotsPerBucket]

(* What one round of on_access computes from the word it loaded.           *)
WordOnAccess(w, s) ==
    LET freq  == GetPriority(w, s) \div 2 ^ RecencyBits
        boost == WordSetPriority(w, s,
                    (IF freq < MaxFreq THEN freq + 1 ELSE MaxFreq) * 2 ^ RecencyBits + MaxRecency)
        decay(v, i) ==
            IF i # s /\ GetState(v, i) = "Full" /\ GetPriority(v, i) % 2 ^ RecencyBits > 0
            THEN WordSetPriority(v, i, GetPriority(v, i) - 1) ELSE v
        after[n \in 0 .. SlotsPerBucket] == IF n = 0 THEN boost ELSE decay(after[n - 1], n - 1)
    IN  after[SlotsPerBucket]

WordOnInsert(w, s) == WordSetPriority(w, s, 1)

(* The record that a word stands for in MetaWord.                          *)
Unpack(w) == [state |-> [s \in SlotIds |-> GetState(w, s)],
              h2 |-> [s \in SlotIds |-> GetH2(w, s)],
              freq |-> [s \in SlotIds |-> GetPriority(w, s) \div 2 ^ RecencyBits],
              recency |-> [s \in SlotIds |-> GetPriority(w, s) % 2 ^ RecencyBits]]
=============================================================================
