--------------------------- MODULE MCAccessBuffer ---------------------------
(* Small instances of AccessBuffer for TLC.                                *)
EXTENDS AccessBuffer, TLC

(* Two events that fit, one whose bucket index and one whose slot index do *)
(* not fit (for Modulus = 8, bucket indices up to 1 fit).                  *)
MCRequests == {<<1, 1>>, <<0, 3>>, <<2, 0>>, <<0, 4>>}
MCOneRequest == {<<1, 3>>}

ThreadSymmetry == Permutations(Threads)
=============================================================================
