--------------------------- MODULE MCPulseMapRaw ----------------------------
(* A small instance of PulseMapRaw for TLC: three keys share bucket 1, one *)
(* of them too long for a slot; k1 and k2 share both fingerprints, k3 only *)
(* the one kept in a slab slot.  k4 lives in the other bucket.             *)
EXTENDS PulseMapRaw, TLC

CONSTANTS k1, k2, k3, k4, v1, v2

MCKeys        == {k1, k2, k3, k4}
MCTwoBuckets  == {k1, k2, k4}   \* k4 ages the entries of k1 and k2
MCValues      == {v1, v2}
MCOneValue    == {v1}
MCShortKeys   == {k1, k2}
MCShortValues == {v1}
MCHash == (k1 :> 1) @@ (k2 :> 3) @@ (k3 :> 5) @@ (k4 :> 2)
MCH2   == (k1 :> 7) @@ (k2 :> 7) @@ (k3 :> 9) @@ (k4 :> 7)
MCExtFp == (k1 :> 4) @@ (k2 :> 4) @@ (k3 :> 4) @@ (k4 :> 4)
MCTtls == {0, 1, 2, Modulus - 1}
MCFewTtls == {0, 1}

(* No action reads ret or eviction_count: states that differ only in them  *)
(* have the same successors.  Action properties are checked on every step. *)
View == <<meta, slots, slab_pool, count, slots_ttl, current_epoch, default_ttl>>
=============================================================================
