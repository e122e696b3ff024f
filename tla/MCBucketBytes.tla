--------------------------- MODULE MCBucketBytes ----------------------------
(* A bucket of two slots, bytes of six bits, and slots of six bytes: keys  *)
(* of up to two bytes and values of up to three are stored in the slot.    *)
(* The longest pair has eight bytes, the largest length that a u32 of nine *)
(* values holds.                                                           *)
EXTENDS BucketBytes, TLC

U8   == [kind |-> "uint", width |-> 1]
U16  == [kind |-> "uint", width |-> 2]
U32  == [kind |-> "uint", width |-> 4]
I16  == [kind |-> "int", width |-> 2]
I32  == [kind |-> "int", width |-> 4]
Bool == [kind |-> "bool", width |-> 1]
Str  == [kind |-> "string", width |-> 0]
Vec  == [kind |-> "vec", width |-> 0]
Arr  == [kind |-> "array", width |-> 3]

MCTypes == {[key |-> U8, val |-> U8], [key |-> I16, val |-> U16],
            [key |-> U32, val |-> Bool], [key |-> Arr, val |-> I32],
            [key |-> Vec, val |-> Str]}

(* Three keys compete for the two slots where K is Vec.                    *)
MCSamples ==
    (U8 :> {0, 63}) @@ (U16 :> {64, 4095}) @@ (U32 :> {1, 2 ^ 24 - 1})
    @@ (I16 :> {-2048, -1}) @@ (I32 :> {-1, 2 ^ 23 - 1})
    @@ (Bool :> {TRUE, FALSE}) @@ (Str :> {<<>>, <<5, 60, 40, 1>>})
    @@ (Vec :> {<<>>, <<0>>, <<0, 0, 0, 0>>}) @@ (Arr :> {<<0, 0, 0>>, <<7, 8, 9>>})

(* Short keys share the tag 0, which is also that of an unused slot; all   *)
(* keys whose first bytes agree in parity share the fingerprint.           *)
MCHash(b) == LET p == IF b = <<>> THEN 0 ELSE b[1] % 2
             IN  [h2 |-> IF Len(b) < 3 THEN 0 ELSE p, hi |-> p, fp |-> 40 + p]

Symmetry == Permutations(Threads)
=============================================================================
