------------------------------ MODULE HashBits ------------------------------
(***************************************************************************)
(* How the bits of a 64-bit hash are used (src/engine/hash.rs and the      *)
(* routing of src/sharded.rs).  From the lowest bit up a hash consists of  *)
(*   14 bits  that choose the bucket,                                      *)
(*    4 bits  that choose the shard,                                       *)
(*   32 bits  ext_fp, 7 bits ext_fp_hi, 7 bits h2.                         *)
(* Every field is given by its number of values, so that a small instance  *)
(* has the same layout.  The hash function itself is external.             *)
(***************************************************************************)
EXTENDS Naturals

CONSTANTS LowSize,    \* 2^14
          NumShards,  \* 2^4
          FpSize,     \* 2^32
          HiSize,     \* 2^7
          H2Size      \* 2^7

IsPowerOfTwo(n) == \E i \in 0 .. n : n = 2^i

(* Every field is a whole number of bits.                                  *)
ASSUME HashAssumption ==
    \A n \in {LowSize, NumShards, FpSize, HiSize, H2Size} : n \in Nat /\ IsPowerOfTwo(n)

Shards     == 0 .. (NumShards - 1)
HashValues == 0 .. (LowSize * NumShards * FpSize * HiSize * H2Size - 1)

(* The fields of compute_hash; h1 is the hash itself.                      *)
ExtFp(h)   == (h \div (LowSize * NumShards)) % FpSize
ExtFpHi(h) == (h \div (LowSize * NumShards * FpSize)) % HiSize
H2(h)      == (h \div (LowSize * NumShards * FpSize * HiSize)) % H2Size

ShardFor(h) == (h \div LowSize) % NumShards

(* Variant: the bucket is chosen by the hash as it is.                     *)
BucketHashWhole(h) == h

(* The bits that chose the shard are cut out: the low bits stay, the ones  *)
(* above the shard bits move down.                                         *)
BucketHash(h) == (h % LowSize) + ((h \div NumShards) \div LowSize) * LowSize
=============================================================================
