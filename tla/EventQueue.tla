----------------------------- MODULE EventQueue -----------------------------
(***************************************************************************)
(* What the access buffer of pulse_map promises to its users: a bounded,   *)
(* lossy, first-in first-out queue of access events.  An event that is     *)
(* accepted is handed to exactly one consumer, unaltered, and its callback *)
(* runs at most once.  An offered event may always be dropped instead, so  *)
(* dropping is not a step of this specification.                           *)
(***************************************************************************)
EXTENDS Naturals, Sequences

CONSTANTS Threads,   \* the threads that push and drain
          Events,    \* the <<bucket, slot>> pairs a caller may record
          Capacity   \* number of events the queue holds

VARIABLES queue,     \* accepted events that no consumer has taken
          hand       \* hand[t]: the event t has taken and not yet delivered

vars == <<queue, hand>>

Init == /\ queue = <<>>
        /\ hand = [t \in Threads |-> <<>>]

(* An event is accepted: from now on it is delivered or explicitly taken.  *)
Accept(e) == /\ Len(queue) < Capacity
             /\ queue' = Append(queue, e)
             /\ UNCHANGED hand

(* A consumer takes the oldest accepted event.                             *)
Take(t) == /\ queue # <<>>
           /\ hand[t] = <<>>
           /\ hand' = [hand EXCEPT ![t] = <<Head(queue)>>]
           /\ queue' = Tail(queue)

(* The consumer's callback runs on the event it holds.                     *)
Deliver(t) == /\ hand[t] # <<>>
              /\ hand' = [hand EXCEPT ![t] = <<>>]
              /\ UNCHANGED queue

Next == \/ \E e \in Events : Accept(e)
        \/ \E t \in Threads : Take(t) \/ Deliver(t)

Spec == Init /\ [][Next]_vars
=============================================================================
