---------------------------- MODULE ServerClose ----------------------------
(***************************************************************************)
(* What close() of a server promises, whatever the server does meanwhile:   *)
(* it closes once, tells each callback once, in a close event that comes     *)
(* after the callback was handed over, and says "not running" to those      *)
(* alone that came when it had closed, each of which is owed an event.      *)
(***************************************************************************)
EXTENDS Naturals

CONSTANT Callback

VARIABLES
    phase,      \* "running", "closing", "closed"
    told,       \* callback -> "unasked", "asked", "closed" or "not running"
    refused,    \* callbacks that came when the server had closed
    heard,      \* callbacks the close event under way has yet to reach
    owed,       \* close events owed to close() calls of a closed server
    emitted     \* close events so far

vars == <<phase, told, refused, heard, owed, emitted>>

Init ==
    /\ phase = "running" /\ told = [c \in Callback |-> "unasked"]
    /\ refused = {} /\ heard = {} /\ owed = 0 /\ emitted = 0

Close(c) ==
    /\ told[c] = "unasked"
    /\ told' = [told EXCEPT ![c] = "asked"]
    /\ IF phase = "closed"
       THEN /\ refused' = refused \cup {c} /\ owed' = owed + 1
            /\ UNCHANGED phase
       ELSE phase' = "closing" /\ UNCHANGED <<refused, owed>>
    /\ UNCHANGED <<heard, emitted>>

Emit ==
    /\ heard = {}
    /\ \/ phase = "closing" /\ phase' = "closed" /\ UNCHANGED owed
       \/ phase = "closed" /\ owed > 0 /\ owed' = owed - 1 /\ UNCHANGED phase
    /\ heard' = {c \in Callback : told[c] = "asked"}
    /\ emitted' = emitted + 1
    /\ UNCHANGED <<told, refused>>

Tell(c) ==
    /\ c \in heard
    /\ heard' = heard \ {c} /\ refused' = refused \ {c}
    /\ told' = [told EXCEPT ![c] = IF c \in refused THEN "not running" ELSE "closed"]
    /\ UNCHANGED <<phase, owed, emitted>>

Next == Emit \/ \E c \in Callback : Close(c) \/ Tell(c)

Spec == Init /\ [][Next]_vars
=============================================================================
