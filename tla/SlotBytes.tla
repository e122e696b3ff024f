------------------------------ MODULE SlotBytes -----------------------------
(***************************************************************************)
(* The bytes of a slot (src/engine/slot.rs) and the buffers of the slab    *)
(* pool (src/engine/slab.rs).  The header byte of a slot is a mode bit and *)
(* either two lengths of LenBits bits and a zero bit, or the high part of  *)
(* the fingerprint.  Byte i of the code is byte i + 1 here.                *)
(***************************************************************************)
EXTENDS Codec, SequencesExt

CONSTANTS LenBits,  \* 3
          FpBytes,  \* 4
          U32Size   \* 2^32: the lengths of a slab entry are u32 values

KeyMax   == 2 ^ LenBits - 2   \* 6
ValMax   == 2 ^ LenBits - 1   \* 7
SlotSize == 1 + KeyMax + ValMax
IdxBytes == SlotSize - 2 - FpBytes
ModeBit  == 2 ^ (2 * LenBits + 1)

ASSUME SlotAssumption ==
    /\ LenBits \in Nat \ {0} /\ FpBytes \in Nat /\ ByteBits = 2 * LenBits + 2 /\ IdxBytes \in Nat
    /\ U32Size \in Nat \ {0}

Zeroed == [i \in 1 .. SlotSize |-> 0]

(* copy_from_slice and copy_nonoverlapping: what does not fit is lost.     *)
Copied(data, at, bytes) ==
    [i \in DOMAIN data |-> IF i - at \in DOMAIN bytes THEN bytes[i - at] ELSE data[i]]

SetInline(k, v) ==
    LET header == Len(k) * 2 ^ (LenBits + 1) + (Len(v) % 2 ^ LenBits) * 2
    IN  Copied(Copied([Zeroed EXCEPT ![1] = header], 1, k), 1 + KeyMax, v)

SetSlab(hr, idx) ==
    LET header == ModeBit + (hr.hi % ModeBit)
    IN  Copied(Copied([Zeroed EXCEPT ![1] = header], 1, ToLe(hr.fp, FpBytes)),
               2 + FpBytes, ToLe(idx, IdxBytes))

Mode(d)         == d[1] \div ModeBit
KeyLen(d)       == (d[1] \div 2 ^ (LenBits + 1)) % 2 ^ LenBits
ValLen(d)       == (d[1] \div 2) % 2 ^ LenBits

(* Variant: the key is read with its padding.                              *)
InlineKeyPadded(d) == SubSeq(d, 2, 1 + KeyMax)

InlineKey(d)    == SubSeq(d, 2, 1 + KeyLen(d))
InlineValue(d)  == SubSeq(d, 2 + KeyMax, 1 + KeyMax + ValLen(d))
SlabIdx(d)      == FromLe(SubSeq(d, 3 + FpBytes, SlotSize))
Fingerprint(d)  == <<d[1] % ModeBit, FromLe(SubSeq(d, 2, 1 + FpBytes))>>
-----------------------------------------------------------------------------
NoBuffers == [entries |-> <<>>, free |-> <<>>]

(* A usize cut to 32 bits.                                                 *)
AsU32(n) == n % U32Size

NewEntry(k, v) == [key_len |-> AsU32(Len(k)), val_len |-> AsU32(Len(v)),
                   cap |-> AsU32(Len(k \o v)), data |-> k \o v]

EntryKey(e)   == SubSeq(e.data, 1, e.key_len)
EntryValue(e) == SubSeq(e.data, e.key_len + 1, e.key_len + e.val_len)

(* Variant: the lengths are those of the buffer, not of the new pair.      *)
RewriteKeepsLengths(e, k, v) ==
    IF Len(k \o v) > e.cap THEN NewEntry(k, v)
    ELSE [e EXCEPT !.data = Copied(@, 0, k \o v)]

(* The buffer is kept if the new pair fits, else reallocated: the old      *)
(* bytes stay in front, the new ones are undefined (here zero) until they  *)
(* are overwritten.                                                        *)
Rewrite(e, k, v) ==
    LET grows == Len(k \o v) > e.cap
        size  == IF grows THEN Len(k \o v) ELSE Len(e.data)
    IN  [key_len |-> AsU32(Len(k)), val_len |-> AsU32(Len(v)),
         cap |-> IF grows THEN AsU32(size) ELSE e.cap,
         data |-> Copied(Copied([i \in 1 .. size |-> 0], 0, e.data), 0, k \o v)]

NextIdx(p) == IF p.free # <<>> THEN Last(p.free) ELSE Len(p.entries)

AllocBuffer(p, k, v) ==
    IF p.free # <<>>
    THEN [entries |-> [p.entries EXCEPT ![Last(p.free) + 1] = Rewrite(@, k, v)],
          free |-> Front(p.free)]
    ELSE [p EXCEPT !.entries = Append(@, NewEntry(k, v))]

FreeBuffer(p, idx) == [p EXCEPT !.free = Append(@, idx)]
GetBuffer(p, idx)  == p.entries[idx + 1]
-----------------------------------------------------------------------------
KeyBytes(d, p)   == IF Mode(d) = 0 THEN InlineKey(d) ELSE EntryKey(GetBuffer(p, SlabIdx(d)))
ValueBytes(d, p) == IF Mode(d) = 0 THEN InlineValue(d) ELSE EntryValue(GetBuffer(p, SlabIdx(d)))

MatchesBytes(d, k, hr, p) ==
    /\ Mode(d) = 1 => Fingerprint(d) = <<hr.hi, hr.fp>>
    /\ KeyBytes(d, p) = k
=============================================================================
