---------------------------- MODULE EventChannel ----------------------------
(***************************************************************************)
(* The bridge from one engine thread to the Node main thread: the bounded  *)
(* event ring (ring.zig), the channel around it (callbacks.zig) and the    *)
(* renderer that empties it (dispatch.zig).                                *)
(*                                                                         *)
(* The publisher is the one thread that emits, the engine thread; the      *)
(* consumer is the Node main thread.  One action is one access to shared   *)
(* memory or one call into Node-API, so every interleaving of the two      *)
(* threads between two accesses is a behaviour.  Node's threadsafe         *)
(* function is external: an unbounded FIFO of slot addresses, whose calls  *)
(* may fail and which is drained without a handler at teardown.            *)
(***************************************************************************)
EXTENDS Integers, Sequences

CONSTANTS Capacity,        \* slots of the ring
          TerminalReserve, \* slots no regular event may claim
          ShutdownReserve, \* slots only a shutdown event may claim
          Kind,            \* the kinds of event the engine emits
          TsfnMayFail,     \* whether a call of the tsfn may fail unprovoked
          MaxEmits         \* bound: how many events are emitted

EngineKind == {"listening", "connection_open", "connection_close",
               "engine_error", "server_closed"}

\* The two compile errors of event_ring, and what they leave open: the reserve
\* of a real ring always leaves room for one regular event.
ASSUME ReserveAssumption ==
    /\ Capacity \in Nat \ {0}
    /\ TerminalReserve \in Nat /\ TerminalReserve < Capacity
    /\ ShutdownReserve \in Nat /\ ShutdownReserve <= TerminalReserve
ASSUME KindAssumption == Kind \subseteq EngineKind
ASSUME BoundAssumption == TsfnMayFail \in BOOLEAN /\ MaxEmits \in Nat

ShutdownKind == {"engine_error", "server_closed"}

\* Mutant: closes may claim the shutdown pair.
LimitOf_SharedTail(k) == IF k \in ShutdownKind \cup {"connection_close"}
                         THEN Capacity ELSE Capacity - TerminalReserve

\* Mutant: shutdown events are queued with emit_terminal.
LimitOf_ShutdownAsTerminal(k) ==
    IF k \in ShutdownKind \cup {"connection_close"}
    THEN Capacity - ShutdownReserve ELSE Capacity - TerminalReserve

\* The limit `claim` is called with for an event of kind k.
LimitOf(k) == CASE k \in ShutdownKind       -> Capacity
                [] k = "connection_close"   -> Capacity - ShutdownReserve
                [] OTHER                    -> Capacity - TerminalReserve

Event    == [kind : EngineKind, id : Nat]
Index    == 0 .. Capacity - 1
Slot     == [event : Event, sequence : Nat]
NoEvent  == [kind |-> "listening", id |-> 0]
SlotOf(s) == s % Capacity

VARIABLES reserved, completed, dropped, abandoned, \* counters of the ring
          slots,    \* slot index -> event and sequence
          closing,  \* latch of the channel
          ppc,      \* where the publisher is
          pevent,   \* the event it publishes
          pseq,     \* `reserved` as it loaded it, then the sequence it claimed
          tsfnq,    \* queue of the tsfn: addresses of slots
          envAlive, \* the environment of the tsfn was not torn down
          cpc,      \* where the consumer is
          cslot,    \* the slot address it was given
          cevent,   \* its copy of the event
          emitted,  \* history: events emitted, accepted or not
          shutdowns,\* history: shutdown events emitted
          refused,  \* history: kinds refused because the ring was full
          handled   \* history: events the handler was called with

ringVars == <<reserved, completed, dropped, abandoned, slots>>
pubVars  == <<ppc, pevent, pseq, emitted, shutdowns, refused>>
conVars  == <<cpc, cslot, cevent, handled>>
vars     == <<ringVars, closing, pubVars, tsfnq, envAlive, conVars>>

Init == /\ reserved = 0 /\ completed = 0 /\ dropped = 0 /\ abandoned = 0
        /\ slots = [i \in Index |-> [event |-> NoEvent, sequence |-> 0]]
        /\ closing = FALSE
        /\ ppc = "idle" /\ pevent = NoEvent /\ pseq = 0
        /\ tsfnq = <<>> /\ envAlive = TRUE
        /\ cpc = "idle" /\ cslot = 0 /\ cevent = NoEvent
        /\ emitted = 0 /\ shutdowns = 0 /\ refused = {} /\ handled = <<>>

-----------------------------------------------------------------------------
(* The publisher: emit, emit_terminal and emit_shutdown. *)

\* What the callers promise: they emit one event at a time, and run_engine and
\* close emit at most an engine_error and a server_closed.
MayEmit(k) == /\ ppc = "idle"
              /\ emitted < MaxEmits
              /\ k \in ShutdownKind => shutdowns < ShutdownReserve

CountEmit(k) == /\ emitted' = emitted + 1
                /\ shutdowns' = IF k \in ShutdownKind
                                THEN shutdowns + 1 ELSE shutdowns

\* publish returns at once on a latched channel.
PublishLatched(k) == /\ closing
                     /\ CountEmit(k)
                     /\ UNCHANGED <<ringVars, closing, ppc, pevent, pseq,
                                    refused, tsfnq, envAlive, conVars>>

Publish(k) == /\ ~closing
              /\ CountEmit(k)
              /\ ppc' = "load_reserved"
              /\ pevent' = [kind |-> k, id |-> emitted + 1]
              /\ UNCHANGED <<ringVars, closing, pseq, refused, tsfnq,
                             envAlive, conVars>>

LoadReserved == /\ ppc = "load_reserved"
                /\ pseq' = reserved
                /\ ppc' = "load_completed"
                /\ UNCHANGED <<ringVars, closing, pevent, emitted, shutdowns,
                               refused, tsfnq, envAlive, conVars>>

\* `completed` is loaded and found too far behind: the event is dropped.
ClaimRefused == /\ ppc = "load_completed"
                /\ pseq - completed >= LimitOf(pevent.kind)
                /\ dropped' = dropped + 1
                /\ refused' = refused \cup {pevent.kind}
                /\ ppc' = "idle"
                /\ UNCHANGED <<reserved, completed, abandoned, slots, closing,
                               pevent, pseq, emitted, shutdowns, tsfnq,
                               envAlive, conVars>>

ClaimAllowed == /\ ppc = "load_completed"
                /\ pseq - completed < LimitOf(pevent.kind)
                /\ ppc' = "swap"
                /\ UNCHANGED <<ringVars, closing, pevent, pseq, emitted,
                               shutdowns, refused, tsfnq, envAlive, conVars>>

Claim == /\ ppc = "swap"
         /\ reserved = pseq
         /\ reserved' = pseq + 1
         /\ ppc' = "fill"
         /\ UNCHANGED <<completed, dropped, abandoned, slots, closing, pevent,
                        pseq, emitted, shutdowns, refused, tsfnq, envAlive,
                        conVars>>

\* A weak compare-and-swap may fail though the values agree: load again.
ClaimRetried == /\ ppc = "swap"
                /\ ppc' = "load_reserved"
                /\ UNCHANGED <<ringVars, closing, pevent, pseq, emitted,
                               shutdowns, refused, tsfnq, envAlive, conVars>>

Fill == /\ ppc = "fill"
        /\ slots' = [slots EXCEPT ![SlotOf(pseq)] =
                        [event |-> pevent, sequence |-> pseq]]
        /\ ppc' = "call"
        /\ UNCHANGED <<reserved, completed, dropped, abandoned, closing,
                       pevent, pseq, emitted, shutdowns, refused, tsfnq,
                       envAlive, conVars>>

CallTsfn == /\ ppc = "call"
            /\ envAlive
            /\ tsfnq' = Append(tsfnq, SlotOf(pseq))
            /\ ppc' = "idle"
            /\ UNCHANGED <<ringVars, closing, pevent, pseq, emitted, shutdowns,
                           refused, envAlive, conVars>>

\* Mutant: drop forgets to count the reservation as abandoned.
CallTsfnFails_NotAbandoned ==
    /\ ppc = "call"
    /\ TsfnMayFail \/ ~envAlive
    /\ dropped' = dropped + 1
    /\ ppc' = "latch"
    /\ UNCHANGED <<reserved, completed, abandoned, slots, closing, pevent,
                   pseq, emitted, shutdowns, refused, tsfnq, envAlive,
                   conVars>>

\* The call fails: ring.drop counts the reservation out of `pending` ...
CallTsfnFails == /\ ppc = "call"
                 /\ TsfnMayFail \/ ~envAlive
                 /\ dropped' = dropped + 1
                 /\ abandoned' = abandoned + 1
                 /\ ppc' = "latch"
                 /\ UNCHANGED <<reserved, completed, slots, closing, pevent,
                                pseq, emitted, shutdowns, refused, tsfnq,
                                envAlive, conVars>>

\* Mutant: a failed call does not latch the channel.
LatchAfterFailure_Forgotten ==
    /\ ppc = "latch"
    /\ ppc' = "idle"
    /\ UNCHANGED <<ringVars, closing, pevent, pseq, emitted, shutdowns,
                   refused, tsfnq, envAlive, conVars>>

\* ... and the channel is latched.
LatchAfterFailure == /\ ppc = "latch"
                     /\ closing' = TRUE
                     /\ ppc' = "idle"
                     /\ UNCHANGED <<ringVars, pevent, pseq, emitted, shutdowns,
                                    refused, tsfnq, envAlive, conVars>>

\* acquire, refused because the tsfn is closing: the channel is latched before
\* the engine thread emits anything.
AcquireRefused == /\ ppc = "idle"
                  /\ TsfnMayFail \/ ~envAlive
                  /\ closing' = TRUE
                  /\ UNCHANGED <<ringVars, pubVars, tsfnq, envAlive, conVars>>

PublisherStep == \/ LoadReserved \/ ClaimRefused \/ ClaimAllowed \/ Claim
                 \/ ClaimRetried \/ Fill \/ CallTsfn \/ CallTsfnFails
                 \/ LatchAfterFailure

-----------------------------------------------------------------------------
(* The consumer: call_js, called by Node for each queued address. *)

\* Mutant: the renderer discards what is queued once the channel is latched.
Take_UnlessClosing == /\ cpc = "idle"
                      /\ envAlive
                      /\ tsfnq # <<>>
                      /\ tsfnq' = Tail(tsfnq)
                      /\ IF closing THEN UNCHANGED <<cpc, cslot>>
                         ELSE cpc' = "copy" /\ cslot' = Head(tsfnq)
                      /\ UNCHANGED <<ringVars, closing, pubVars, envAlive,
                                     cevent, handled>>

Take == /\ cpc = "idle"
        /\ envAlive
        /\ tsfnq # <<>>
        /\ cslot' = Head(tsfnq)
        /\ tsfnq' = Tail(tsfnq)
        /\ cpc' = "copy"
        /\ UNCHANGED <<ringVars, closing, pubVars, envAlive, cevent, handled>>

Copy == /\ cpc = "copy"
        /\ cevent' = slots[cslot].event
        /\ cpc' = "complete"
        /\ UNCHANGED <<ringVars, closing, pubVars, tsfnq, envAlive, cslot,
                       handled>>

\* An atomic maximum, never a plain store.
Complete == /\ cpc = "complete"
            /\ LET next == slots[cslot].sequence + 1
               IN  completed' = IF next > completed THEN next ELSE completed
            /\ cpc' = "handler"
            /\ UNCHANGED <<reserved, dropped, abandoned, slots, closing,
                           pubVars, tsfnq, envAlive, cslot, cevent, handled>>

CallHandler == /\ cpc = "handler"
               /\ handled' = Append(handled, cevent)
               /\ cpc' = "idle"
               /\ UNCHANGED <<ringVars, closing, pubVars, tsfnq, envAlive,
                              cslot, cevent>>

ConsumerStep == Take \/ Copy \/ Complete \/ CallHandler

-----------------------------------------------------------------------------
(* The main thread outside the renderer. *)

\* stop, of the environment cleanup hook, and close, of finalize, which the
\* handler may call.
Stop == /\ cpc \in {"idle", "handler"}
        /\ closing' = TRUE
        /\ UNCHANGED <<ringVars, pubVars, tsfnq, envAlive, conVars>>

\* Node tears the environment down: it calls call_js with a null environment
\* for every queued address, and call_js returns before it reads the slot.
TearDown == /\ cpc = "idle"
            /\ envAlive
            /\ envAlive' = FALSE
            /\ tsfnq' = <<>>
            /\ UNCHANGED <<ringVars, closing, pubVars, conVars>>

\* Events reserved that are neither dispatched nor abandoned.
Pending == reserved - completed - abandoned

Next == \/ \E k \in Kind : MayEmit(k) /\ (Publish(k) \/ PublishLatched(k))
        \/ PublisherStep
        \/ ConsumerStep
        \/ AcquireRefused
        \/ Stop
        \/ TearDown

\* Both threads keep running; a weak swap does not fail for ever.
Fairness == /\ WF_vars(PublisherStep)
            /\ SF_vars(Claim)
            /\ WF_vars(ConsumerStep)

Spec     == Init /\ [][Next]_vars
FairSpec == Spec /\ Fairness

-----------------------------------------------------------------------------
(* Properties *)

TypeOK == /\ reserved \in Nat /\ completed \in Nat
          /\ dropped \in Nat /\ abandoned \in Nat
          /\ slots \in [Index -> Slot]
          /\ closing \in BOOLEAN
          /\ ppc \in {"idle", "load_reserved", "load_completed", "swap",
                      "fill", "call", "latch"}
          /\ pevent \in Event /\ pseq \in Nat
          /\ tsfnq \in Seq(Index) /\ envAlive \in BOOLEAN
          /\ cpc \in {"idle", "copy", "complete", "handler"}
          /\ cslot \in Index /\ cevent \in Event
          /\ emitted \in Nat /\ shutdowns \in Nat
          /\ refused \subseteq EngineKind
          /\ handled \in Seq(Event)

\* A full ring never costs a shutdown event: with at most ShutdownReserve of
\* them emitted, the last slots are always free for the next one, whatever
\* the regular and terminal events have claimed and however long the main
\* thread has not dispatched (ring.zig:6-8, callbacks.zig:103).
ShutdownNeverRefused == refused \cap ShutdownKind = {}

\* The consumer holds an address between the moment Node hands it over and the
\* completion of its sequence.
Held == IF cpc \in {"copy", "complete"} THEN <<cslot>> ELSE <<>>

\* Every address not dispatched yet, oldest first.
Undispatched == Held \o tsfnq

\* The slots the consumer will still read hold consecutive sequences, starting
\* at the first one not completed: no slot is claimed and filled again while
\* its address is queued or in the consumer's hands (ring.zig:98-101).
NoSlotReused ==
    envAlive => \A n \in 1 .. Len(Undispatched) :
                    slots[Undispatched[n]].sequence = completed + n - 1

\* pending() is exact once the publisher has stopped: it counts the addresses
\* that were not dispatched, so zero proves that no dispatch can follow, and a
\* reservation whose call failed does not hold it above zero (finalize in
\* server.zig:91-104).
PendingExact ==
    envAlive /\ ppc \in {"idle", "latch"} => Pending = Len(Undispatched)

\* The history of dispatched events and the queue in front of it.
QueuedEvents == [n \in 1 .. Len(Undispatched) |-> slots[Undispatched[n]].event]
Dispatched   == IF cpc = "handler" THEN Append(handled, cevent) ELSE handled

Abstract == INSTANCE EventQueue WITH
                Event     <- [kind : EngineKind, id : 1 .. MaxEmits],
                Limit     <- [e \in [kind : EngineKind, id : 1 .. MaxEmits]
                                |-> LimitOf(e.kind)],
                queue     <- IF envAlive THEN QueuedEvents ELSE <<>>,
                delivered <- Dispatched,
                gone      <- ~envAlive

\* The ring, its counters and the tsfn together implement the queue: events
\* reach the handler once each, in order and unmixed, and each kind is accepted
\* only below its limit.
ImplementsQueue == Abstract!Spec

Waiting(i) == \E n \in 1 .. Len(QueuedEvents) : QueuedEvents[n].id = i
Handled(i) == \E n \in 1 .. Len(handled) : handled[n].id = i

\* An event whose address Node accepted reaches the handler unless the
\* environment goes away first.
AcceptedIsHandled ==
    \A i \in 1 .. MaxEmits : Waiting(i) ~> (Handled(i) \/ ~envAlive)

\* A shutdown event whose publication began reaches the handler unless the
\* channel was latched or the environment is gone.
ShutdownArrives ==
    \A i \in 1 .. MaxEmits :
        (ppc = "load_reserved" /\ pevent.id = i /\ pevent.kind \in ShutdownKind)
            ~> (Handled(i) \/ closing \/ ~envAlive)
=============================================================================
