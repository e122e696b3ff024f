------------------------ MODULE MCConcurrentPulseMap ------------------------
(* Small instances of ConcurrentPulseMap for TLC.  Two keys share their    *)
(* fingerprints; k3, and every pair with v2, is too long for a slot; v3    *)
(* does not decode.  One bucket holds all keys; with two buckets k1 and k2 *)
(* still share theirs and k3 is in the other.                              *)
EXTENDS ConcurrentPulseMap, TLC

CONSTANTS k1, k2, k3, v1, v2, v3

MCKeys        == {k1, k2, k3}
MCValues      == {v1, v2, v3}
MCShortKeys   == {k1, k2}
MCShortValues == {v1, v3}
MCUndecodable == {v3}
MCHash  == (k1 :> 0) @@ (k2 :> 2) @@ (k3 :> 1)
MCH2    == (k1 :> 7) @@ (k2 :> 7) @@ (k3 :> 9)
MCExtFp == (k1 :> 4) @@ (k2 :> 4) @@ (k3 :> 4)

Ins(k, v, n) == [op |-> "insert", key |-> k, val |-> v, n |-> n]
On(op, k)    == [op |-> op, key |-> k, val |-> NoValue, n |-> 0]
Set(op, n)   == [op |-> op, key |-> NoValue, val |-> NoValue, n |-> n]

(* Growth: inserts that fill the first bucket, explicit resizes.           *)
GrowCalls ==
    {Ins(k1, v2, 1), Ins(k2, v1, 0), Ins(k2, v3, 0), Ins(k3, v1, 0), On("get", k1),
     On("peek", k2), On("remove", k1), Set("resize", 2), Set("resize", 3)}

(* Eviction, expiry and slab reuse in a table of fixed size.               *)
EvictCalls ==
    {Ins(k1, v2, Never), Ins(k1, v3, 0), Ins(k2, v2, 0), Ins(k3, v1, 1), On("get", k1),
     On("get", k3), On("remove", k2), Set("set_ttl", 1)}

(* Calls that wait for each other: k1 and k3 are in different buckets and  *)
(* both in the slab, so that a drained hit may need the other's bucket     *)
(* while it is locked, and peek may keep the slab mutex from the other.    *)
LockCalls ==
    {Ins(k1, v2, 0), Ins(k3, v1, 1), On("get", k1), On("peek", k1), On("remove", k3),
     Set("resize", 4)}

(* Threads are interchangeable.                                            *)
ThreadSymmetry == Permutations(Threads)
=============================================================================
