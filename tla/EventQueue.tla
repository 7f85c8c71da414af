----------------------------- MODULE EventQueue -----------------------------
(***************************************************************************)
(* What the engine promises the Node main thread about its events, with    *)
(* no ring, no counters and no slots: a FIFO queue in which every event    *)
(* has a limit, the number of undelivered events it may find before it.    *)
(* The limits are what the terminal and the shutdown reserve of            *)
(* src/engine/channel stand for.  EventChannel implements this.            *)
(***************************************************************************)
EXTENDS Naturals, Sequences

CONSTANTS Event, \* the events an engine can emit
          Limit  \* event -> undelivered events it may find before it

VARIABLES queue,     \* accepted events that were not delivered yet
          delivered, \* every delivered event, oldest first
          gone       \* the environment of the handler was torn down

vars == <<queue, delivered, gone>>

Init == /\ queue = <<>>
        /\ delivered = <<>>
        /\ gone = FALSE

\* An event is accepted only below its limit.
Accept(e) == /\ ~gone
             /\ Len(queue) < Limit[e]
             /\ queue' = Append(queue, e)
             /\ UNCHANGED <<delivered, gone>>

\* The oldest accepted event is delivered, once.
Deliver == /\ queue # <<>>
           /\ queue' = Tail(queue)
           /\ delivered' = Append(delivered, Head(queue))
           /\ UNCHANGED gone

\* The environment is torn down: what was accepted is discarded.
Discard == /\ gone' = TRUE
           /\ queue' = <<>>
           /\ UNCHANGED delivered

Next == \/ \E e \in Event : Accept(e)
        \/ Deliver
        \/ Discard

Spec == Init /\ [][Next]_vars
=============================================================================
