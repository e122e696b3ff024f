------------------------------ MODULE LossyMap ------------------------------
(***************************************************************************)
(* What a pulse_map cache promises: a map that may forget.  A lookup       *)
(* returns the value of the last insertion of that key, or nothing; it     *)
(* returns nothing only if the key was removed, has expired, or was the    *)
(* victim of an insertion of another key of its bucket.  Age is counted in *)
(* insertions.                                                             *)
(***************************************************************************)
EXTENDS Naturals, FiniteSets

CONSTANTS Keys, Values,
          Group,     \* the bucket of each key
          Ways,      \* how many entries a bucket holds
          Ttls,      \* TTL arguments; 0 stands for the map's default
          Never,     \* the TTL that never expires
          NoEntry,   \* the key is not in the map
          NoValue    \* the result of a miss

VARIABLES store,     \* the entry of each key
          epoch,     \* number of insertions so far
          ttl,       \* the map's default TTL, 0 when disabled
          ret        \* the last call and its result

vars == <<store, epoch, ttl, ret>>

Init == /\ store = [k \in Keys |-> NoEntry]
        /\ epoch = 0 /\ ttl = 0
        /\ ret = [op |-> "new", key |-> NoValue, res |-> NoValue]

Present(k) == store[k] # NoEntry

(* Age and lifetime at epoch e.                                            *)
Lifetime(k) == IF store[k].ttl = 0 THEN ttl ELSE store[k].ttl
Expired(k, e) == /\ Lifetime(k) \notin {0, Never}
                 /\ e > store[k].epoch + Lifetime(k)

Rivals(k) == {j \in Keys \ {k} : Present(j) /\ Group[j] = Group[k]}

(* Keys an insertion of the new key k may forget, each on its own: an      *)
(* expired rival, or a live one if the bucket is full and none expired.    *)
Victims(k) ==
    LET dead == {j \in Rivals(k) : Expired(j, epoch + 1)}
        full == Cardinality(Rivals(k)) >= Ways
    IN  IF dead # {} THEN {{j} : j \in dead} \cup (IF full THEN {} ELSE {{}})
        ELSE IF full THEN {{j} : j \in Rivals(k)} ELSE {{}}

Insert(k, v, n) ==
    /\ ret' = [op |-> "insert", key |-> k, res |-> v]
    /\ epoch' = epoch + 1
    /\ UNCHANGED ttl
    /\ \E lost \in IF Present(k) THEN {{}} ELSE Victims(k) :
          store' = [j \in Keys |->
                      IF j = k THEN [val |-> v, epoch |-> epoch + 1, ttl |-> n]
                      ELSE IF j \in lost THEN NoEntry ELSE store[j]]

Lookup(op, k) ==
    /\ ret' = [op |-> op, key |-> k,
               res |-> IF Present(k) /\ ~Expired(k, epoch) THEN store[k].val ELSE NoValue]
    /\ UNCHANGED <<store, epoch, ttl>>

(* Removal works on expired entries too; its result is whether k was there. *)
Remove(k) ==
    /\ ret' = [op |-> "remove", key |-> k, res |-> Present(k)]
    /\ store' = [store EXCEPT ![k] = NoEntry]
    /\ UNCHANGED <<epoch, ttl>>

(* A change of the default TTL applies to entries already stored.          *)
SetTtl(n) ==
    /\ ret' = [op |-> "set_ttl", key |-> NoValue, res |-> n]
    /\ ttl' = n
    /\ UNCHANGED <<store, epoch>>

Next == \/ \E k \in Keys, v \in Values, n \in Ttls : Insert(k, v, n)
        \/ \E k \in Keys : Lookup("get", k) \/ Lookup("peek", k) \/ Remove(k)
        \/ \E n \in Ttls : SetTtl(n)

Spec == Init /\ [][Next]_vars
=============================================================================
