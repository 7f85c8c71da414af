----------------------------- MODULE BoundedFifo ----------------------------
(***************************************************************************)
(* What the staging ring promises the socket records: a FIFO queue of at   *)
(* most Size payloads.  What was accepted comes out whole, once, in order. *)
(***************************************************************************)
EXTENDS Naturals, Sequences

CONSTANTS Payload, Size

VARIABLE queue

Init == queue = <<>>

Accept == /\ Len(queue) < Size
          /\ \E p \in Payload : queue' = Append(queue, p)

Take == /\ queue # <<>>
        /\ queue' = Tail(queue)

Spec == Init /\ [][Accept \/ Take]_queue
=============================================================================
