---------------------------- MODULE BoundedFifo ----------------------------
(***************************************************************************)
(* What the event queue promises (g6he_event.h): what was accepted comes   *)
(* out once, in order; a full queue refuses and overwrites nothing.        *)
(***************************************************************************)
EXTENDS Naturals, Sequences

CONSTANTS Element, Bound
VARIABLE queue

Init == queue = <<>>

Put(e) == Len(queue) < Bound /\ queue' = Append(queue, e)
Take == queue # <<>> /\ queue' = Tail(queue)

Next == Take \/ \E e \in Element : Put(e)
Spec == Init /\ [][Next]_queue
=============================================================================
