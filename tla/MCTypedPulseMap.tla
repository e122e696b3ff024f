-------------------------- MODULE MCTypedPulseMap ---------------------------
(* Two keys share bucket 1, the third ages their entries from bucket 0; v2 *)
(* needs a slab entry and is refused by from_bytes.                        *)
EXTENDS TypedPulseMap, TLC

CONSTANTS k1, k2, k4, v1, v2

MCKeys        == {k1, k2, k4}
MCValues      == {v1, v2}
MCShortKeys   == {k1, k2}
MCShortValues == {v1}
MCHash        == (k1 :> 1) @@ (k2 :> 3) @@ (k4 :> 2)
MCSame        == (k1 :> 7) @@ (k2 :> 7) @@ (k4 :> 7)
MCTtls        == {0, 1}
MCUndecodable == {v2}
MCBatches     == {<<<<k1, v1>>, <<k4, v2>>>>}

View == <<meta, slots, slab_pool, count, slots_ttl, current_epoch, default_ttl, borrow>>
=============================================================================
