------------------------------ MODULE MetaWord ------------------------------
(***************************************************************************)
(* The metadata word of a bucket (src/engine/meta.rs): per slot a state, a *)
(* hash fingerprint and an eviction priority made of a frequency (the high *)
(* bits) and a recency (the low bits).  The fields share one u64 in the    *)
(* code; here they are the fields of a record.  Operations that return an  *)
(* Option return a set with at most one member.                            *)
(***************************************************************************)
EXTENDS Naturals

CONSTANTS SlotsPerBucket,  \* 4 in the code
          MaxFreq,         \* 15: frequency has four bits
          MaxRecency       \* 7: recency has three bits

ASSUME MetaAssumption ==
    /\ SlotsPerBucket \in Nat \ {0}
    /\ MaxFreq \in Nat \ {0}
    /\ MaxRecency \in Nat \ {0}

SlotIds    == 0 .. (SlotsPerBucket - 1)
SlotStates == {"Empty", "Full", "Tombstone"}

MetaWords(H) == [state : [SlotIds -> SlotStates], h2 : [SlotIds -> H],
                 freq : [SlotIds -> 0 .. MaxFreq],
                 recency : [SlotIds -> 0 .. MaxRecency]]

EmptyMeta == [state |-> [s \in SlotIds |-> "Empty"], h2 |-> [s \in SlotIds |-> 0],
              freq |-> [s \in SlotIds |-> 0], recency |-> [s \in SlotIds |-> 0]]

SetState(m, s, st) == [m EXCEPT !.state[s] = st]
SetH2(m, s, h)     == [m EXCEPT !.h2[s] = h]

FullSlots(m)   == {s \in SlotIds : m.state[s] = "Full"}
Priority(m, s) == m.freq[s] * (MaxRecency + 1) + m.recency[s]

(* Variant: only the first candidate is tried.                             *)
MatchFirst(m, h) == {s \in FullSlots(m) : m.h2[s] = h /\
                        \A r \in FullSlots(m) : m.h2[r] = h => s <= r}

(* Candidate slots: the loops of the map visit them in increasing order.   *)
MatchMask(m, h) == {s \in FullSlots(m) : m.h2[s] = h}

(* The first member of a set of slots, as a set.                           *)
First(S) == {s \in S : \A r \in S : s <= r}

FindFreeSlot(m) == First(SlotIds \ FullSlots(m))

(* The first of the full slots with the lowest priority.                   *)
FindEvictTarget(m) ==
    First({s \in FullSlots(m) :
              \A r \in FullSlots(m) : Priority(m, s) <= Priority(m, r)})

(* Variant: the frequency does not saturate.                               *)
OnAccessUnsaturated(m, s) ==
    [m EXCEPT !.freq[s] = @ + 1, !.recency[s] = MaxRecency]

(* A hit on slot s: it gains frequency and full recency, whether or not it *)
(* is still occupied; the other occupied slots lose one step of recency.   *)
OnAccess(m, s) ==
    [m EXCEPT
       !.freq[s] = IF @ < MaxFreq THEN @ + 1 ELSE MaxFreq,
       !.recency = [r \in SlotIds |->
                      CASE r = s -> MaxRecency
                        [] r # s /\ m.state[r] = "Full" /\ m.recency[r] > 0
                             -> m.recency[r] - 1
                        [] OTHER -> m.recency[r]]]

OnInsert(m, s) == [m EXCEPT !.freq[s] = 0, !.recency[s] = 1]
=============================================================================
