-------------------------- MODULE MCFuzzSequences ---------------------------
(* Three keys of one bucket of two slots; k1 and k2 share both             *)
(* fingerprints, k3 is too long for a slot.  The dummies are fuzz keys too.*)
EXTENDS FuzzSequences, TLC

CONSTANTS k1, k2, k3, v1, v2

MCKeys        == {k1, k2, k3}
MCValues      == {v1, v2}
MCShortKeys   == {k1, k2}
MCShortValues == {v1}
MCHash  == (k1 :> 1) @@ (k2 :> 3) @@ (k3 :> 5)
MCH2    == (k1 :> 7) @@ (k2 :> 7) @@ (k3 :> 9)
MCExtFp == (k1 :> 4) @@ (k2 :> 4) @@ (k3 :> 4)
MCTtls  == {0, 1}
MCDummies == <<k2, k1>>

View == <<meta, slots, slab_pool, count, slots_ttl, current_epoch, default_ttl,
          shadow, step, panicked>>
=============================================================================
