--------------------------- MODULE ConnectionLife ---------------------------
(***************************************************************************)
(* What the connection slab and the socket records promise together: every *)
(* handle names one connection for ever.  It opens once, when its slot has *)
(* no other, accepts messages and at most one close frame while it is      *)
(* open, and ends once.  Nothing done to one handle shows on another.      *)
(***************************************************************************)
EXTENDS Naturals, Sequences

CONSTANTS Index, Generation

VARIABLES phase,   \* handle -> none, open, closing or closed
          staged,  \* handle -> what it accepted for the peer, in order
          silent   \* handles whose inbound messages are paused

vars == <<phase, staged, silent>>

Handle == [index : Index, generation : Generation]

Init == /\ phase = [h \in Handle |-> "none"]
        /\ staged = [h \in Handle |-> <<>>]
        /\ silent = {}

\* A slot has one connection at a time, with generations in order.
Open(h) == /\ \A g \in Handle : g.index = h.index =>
                  IF g.generation < h.generation THEN phase[g] = "closed"
                                                 ELSE phase[g] = "none"
           /\ phase' = [phase EXCEPT ![h] = "open"]
           /\ UNCHANGED <<staged, silent>>

Send(h) == /\ phase[h] = "open"
           /\ staged' = [staged EXCEPT ![h] = Append(@, "message")]
           /\ UNCHANGED <<phase, silent>>

Close(h) == /\ phase[h] = "open"
            /\ phase' = [phase EXCEPT ![h] = "closing"]
            /\ staged' = [staged EXCEPT ![h] = Append(@, "close")]
            /\ UNCHANGED silent

Pause(h) == /\ phase[h] = "open"
            /\ silent' = silent \cup {h}
            /\ UNCHANGED <<phase, staged>>

Resume(h) == /\ phase[h] = "open"
             /\ silent' = silent \ {h}
             /\ UNCHANGED <<phase, staged>>

Finish(h) == /\ phase[h] \in {"open", "closing"}
             /\ phase' = [phase EXCEPT ![h] = "closed"]
             /\ silent' = silent \ {h}
             /\ UNCHANGED staged

Next == \E h \in Handle : \/ Open(h) \/ Send(h) \/ Close(h)
                          \/ Pause(h) \/ Resume(h) \/ Finish(h)

Spec == Init /\ [][Next]_vars
=============================================================================
