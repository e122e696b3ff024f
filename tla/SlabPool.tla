------------------------------ MODULE SlabPool ------------------------------
(***************************************************************************)
(* The pool for entries that do not fit inside a slot (src/engine/slab.rs).*)
(* The free list is a stack, its top first; a freed entry keeps its        *)
(* contents until it is reused.  Indices count from 1.                     *)
(***************************************************************************)
EXTENDS Naturals, Sequences

NewPool == [entries |-> <<>>, free |-> <<>>]

AllocIdx(p) == IF p.free # <<>> THEN Head(p.free) ELSE Len(p.entries) + 1

(* Variant: a reused index stays on the free list.                         *)
AllocKeepsFree(p, k, v) ==
    IF p.free # <<>>
    THEN [p EXCEPT !.entries[Head(p.free)] = [key |-> k, val |-> v]]
    ELSE [p EXCEPT !.entries = Append(@, [key |-> k, val |-> v])]

(* Reuse the index freed last, else append a new entry.                    *)
Alloc(p, k, v) ==
    IF p.free # <<>>
    THEN [entries |-> [p.entries EXCEPT ![Head(p.free)] = [key |-> k, val |-> v]],
          free |-> Tail(p.free)]
    ELSE [p EXCEPT !.entries = Append(@, [key |-> k, val |-> v])]

Free(p, i) == [p EXCEPT !.free = <<i>> \o @]
=============================================================================
