------------------------------- MODULE Codec --------------------------------
(***************************************************************************)
(* The byte conversions of src/lib.rs: PulseKey and PulseValue for the     *)
(* built-in types.  A type is a kind and a width in bytes.  from_bytes     *)
(* returns an Option: a set with at most one member.                       *)
(***************************************************************************)
EXTENDS Integers, Sequences

CONSTANT ByteBits   \* 8

ASSUME CodecAssumption == ByteBits \in Nat \ {0}

(* How many numbers n bytes can hold.                                      *)
Limit(n) == 2 ^ (ByteBits * n)
ByteSize == 2 ^ ByteBits   \* 256
Bytes    == 0 .. (ByteSize - 1)

(* to_le_bytes and from_le_bytes of an unsigned integer.                   *)
ToLe(x, w) == [i \in 1 .. w |-> (x \div Limit(i - 1)) % ByteSize]
FromLe(b)  == LET sum[n \in 0 .. Len(b)] ==
                      IF n = 0 THEN 0 ELSE sum[n - 1] + b[n] * Limit(n - 1)
              IN  sum[Len(b)]

(* Two's complement.                                                       *)
Signed(u, w) == IF 2 * u >= Limit(w) THEN u - Limit(w) ELSE u

(* str::from_utf8, cut down to characters of one byte (below one half) and *)
(* of two: a leading byte (the last quarter) and a continuation byte.      *)
Lead(x) == 4 * x >= 3 * ByteSize
Cont(x) == 2 * x >= ByteSize /\ ~Lead(x)
Utf8(b) == \A i \in DOMAIN b :
              /\ Lead(b[i]) => i < Len(b) /\ Cont(b[i + 1])
              /\ Cont(b[i]) => i > 1 /\ Lead(b[i - 1])

ToBytes(t, x) ==
    CASE t.kind = "uint" -> ToLe(x, t.width)
      [] t.kind = "int"  -> ToLe(x % Limit(t.width), t.width)
      [] t.kind = "bool" -> <<IF x THEN 1 ELSE 0>>
      [] t.kind \in {"string", "vec", "array"} -> x

(* Integers and arrays need exactly their width, except that u8 and bool   *)
(* take the first byte of any slice that has one.                          *)
FromBytes(t, b) ==
    CASE t.kind = "uint" /\ t.width = 1 -> {b[i] : i \in DOMAIN b \cap {1}}
      [] t.kind = "bool"   -> {b[i] # 0 : i \in DOMAIN b \cap {1}}
      [] t.kind = "uint" /\ t.width > 1 -> IF Len(b) = t.width THEN {FromLe(b)} ELSE {}
      [] t.kind = "int"    -> IF Len(b) = t.width THEN {Signed(FromLe(b), t.width)} ELSE {}
      [] t.kind = "string" -> IF Utf8(b) THEN {b} ELSE {}
      [] t.kind = "vec"    -> {b}
      [] t.kind = "array"  -> IF Len(b) = t.width THEN {b} ELSE {}

(* The values of a type.                                                   *)
WellTyped(t, x) ==
    CASE t.kind = "uint" -> t.width \in Nat \ {0} /\ x \in 0 .. (Limit(t.width) - 1)
      [] t.kind = "int"  -> /\ t.width \in Nat \ {0} /\ x \in Int
                            /\ -Limit(t.width) <= 2 * x /\ 2 * x < Limit(t.width)
      [] t.kind = "bool"   -> x \in BOOLEAN
      [] t.kind = "string" -> x \in Seq(Bytes) /\ Utf8(x)
      [] t.kind = "vec"    -> x \in Seq(Bytes)
      [] t.kind = "array"  -> x \in Seq(Bytes) /\ Len(x) = t.width
      [] OTHER -> FALSE
=============================================================================
