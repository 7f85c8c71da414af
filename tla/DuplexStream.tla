---------------------------- MODULE DuplexStream ----------------------------
(***************************************************************************)
(* createWebSocketStream (src/compat/stream.ts) over the socket record of   *)
(* SocketFacade: Node's Duplex calls the adapter's _write, _final, _read    *)
(* and _destroy, which leave listeners on the socket; the socket's events   *)
(* run them, and what they answer comes back through process.nextTick.      *)
(*                                                                         *)
(* Every call the adapter makes is the last thing its function does, so the *)
(* stack of JavaScript is a list: the listeners of the events under way,    *)
(* those of the innermost first. Application code runs between any two of   *)
(* them and between two tasks, and does not throw.                          *)
(***************************************************************************)
EXTENDS SocketFacade, Sequences

VARIABLES
    on,      \* listeners the adapter left on the socket (ws.once), per event
    todo,    \* listeners of the events under way
    ticks,   \* the queue of process.nextTick
    duplex   \* the Duplex and the flags of the adapter

streamVars == <<vars, on, todo, ticks, duplex>>

(* The adapter closes the socket with a code of its own.                    *)
ASSUME StreamAssumption == CLOSE_NORMAL \in CloseCode

(* readable: "eof" after push(null), "ending" once a reader saw it and the   *)
(* end event is queued, "ended" when it was emitted. writable: "ending"      *)
(* after end(), "final" in _final, "answered" once it called back and finish *)
(* is queued, "finished" when it was emitted. write: one _write that waits   *)
(* for open, whose send is under way, or whose callback is lost. answers     *)
(* counts the callbacks of _destroy, closed the close events of the stream.  *)
StreamInit ==
    /\ Init
    /\ on = [open |-> <<>>, error |-> <<>>, close |-> <<>>]
    /\ todo = <<>>
    /\ ticks = <<>>
    /\ duplex = [life |-> "none", errored |-> FALSE, terminateOnDestroy |-> TRUE,
                 called |-> FALSE, readable |-> "open", writable |-> "open",
                 write |-> "none", answers |-> 0, closed |-> 0]

Idle == todo = <<>> /\ ticks = <<>>

(* What a step of the socket raises: the listeners registered for it run    *)
(* before anything else, and are gone from the registry (once, emitEvent).  *)
(* An error comes from failConnection, whose finally block runs after them. *)
Dispatch(registered, rest) ==
    LET raise(e, after) == /\ todo' = registered[e] \o after \o rest
                           /\ on' = [registered EXCEPT ![e] = <<>>]
    IN  IF readyState' # readyState /\ readyState' = "OPEN"        THEN raise("open", <<>>)
        ELSE IF readyState' # readyState /\ readyState' = "CLOSED" THEN raise("close", <<>>)
        ELSE IF failing' /\ ~failing                              THEN raise("error", <<"finally">>)
        ELSE todo' = rest /\ on' = registered

(* ws.once(e, l), and a call that does not reach the socket.                *)
Once(e, l)  == [on EXCEPT ![e] = Append(@, l)]
Quiet(rest) == UNCHANGED vars /\ Dispatch(on, rest)

-----------------------------------------------------------------------------
(* createWebSocketStream.                                                   *)
createWebSocketStream ==
    /\ duplex.life = "none" /\ readyState # "CLOSED"
    /\ duplex' = [duplex EXCEPT !.life = "alive"]
    /\ on' = [on EXCEPT !.error = <<"error">>, !.close = <<"eof">>]
    /\ UNCHANGED <<vars, todo, ticks>>

(* The functions below run with d for the stream so far, rest for the       *)
(* listeners still to run and queue for the ticks still to come.            *)

(* Mutant: a socket that is closing counts as closed.                       *)
SocketGone_Closing == readyState \in {"CLOSING", "CLOSED"}

(* Mutant: a socket that is closed is not looked for.                       *)
SocketGone_Never == FALSE

SocketGone == readyState = "CLOSED"

(* Mutant: a close under way is left to the peer.                           *)
terminates_Open(d) == d.terminateOnDestroy /\ readyState = "OPEN"

(* Not when the socket itself raised the error.                             *)
terminates(d) == d.terminateOnDestroy /\ readyState # "CLOSED"

(* duplex.destroy() and the adapter's _destroy.                             *)
destroy(d, rest, queue) ==
    \/ /\ d.life = "destroyed"
       /\ Quiet(rest)
       /\ duplex' = d /\ ticks' = queue
    \/ /\ d.life = "alive" /\ SocketGone
       /\ Quiet(rest)
       /\ duplex' = [d EXCEPT !.life = "destroyed", !.answers = @ + 1]
       /\ ticks' = Append(queue, "close")
    \/ /\ d.life = "alive" /\ ~SocketGone
       /\ IF terminates(d) THEN terminateConnection ELSE UNCHANGED vars
       /\ Dispatch([on EXCEPT !.error = Append(@, "destroyError"),
                              !.close = Append(@, "destroyClose")], rest)
       /\ duplex' = [d EXCEPT !.life = "destroyed"] /\ ticks' = queue

(* The callback of _final: Node queues finish, unless the stream failed or   *)
(* was destroyed meanwhile, or the callback comes a second time.            *)
finalCallback(d, rest, queue) ==
    /\ Quiet(rest)
    /\ IF d.life = "alive" /\ ~d.errored /\ d.writable = "final"
       THEN /\ duplex' = [d EXCEPT !.writable = "answered"]
            /\ ticks' = Append(queue, "finish")
       ELSE duplex' = d /\ ticks' = queue

(* The binding throws for a socket whose server was finalized: out of a     *)
(* listener, past the other listeners of its event; else to whom called.    *)
Throws == readyState = "OPEN" /\ attachment /\ native.state = "finalized"
Unwound(listener, rest) == IF Throws /\ listener THEN <<>> ELSE rest

(* The adapter's _final, called by end(), by the last write or, again, by   *)
(* open. What it throws when Node called it, Node emits as an error in a    *)
(* tick (sooner, after a write).                                            *)
final(d, listener, rest, queue) ==
    \/ /\ readyState = "CONNECTING"
       /\ UNCHANGED vars /\ Dispatch(Once("open", "openFinal"), rest)
       /\ duplex' = d /\ ticks' = queue
    \/ /\ readyState # "CONNECTING" /\ SocketGone
       /\ finalCallback(d, rest, queue)
    \/ /\ readyState # "CONNECTING" /\ ~SocketGone
       /\ \/ closeConnection(CLOSE_NORMAL, "absent")
          \/ readyState \in {"CLOSING", "CLOSED"} /\ UNCHANGED vars
       /\ Dispatch(Once("close", "final"), Unwound(listener, rest))
       /\ LET caught == Throws /\ ~listener
          IN  /\ duplex' = [d EXCEPT !.errored = @ \/ caught]
              /\ ticks' = IF caught THEN Append(queue, "threw") ELSE queue

(* The adapter's _write: ws.send calls back in a tick, or throws. What it    *)
(* refuses is counted or not (SendCounted); an empty chunk counts nothing.  *)
write(d, listener, rest, queue) ==
    \/ /\ readyState = "CONNECTING"
       /\ UNCHANGED vars /\ Dispatch(Once("open", "openWrite"), rest)
       /\ duplex' = [d EXCEPT !.write = "waits"] /\ ticks' = queue
    \/ /\ SendStaged
       /\ Dispatch(on, rest)
       /\ duplex' = [d EXCEPT !.write = "sent"]
       /\ ticks' = Append(queue, "writeDone")
    \/ /\ readyState # "CONNECTING" /\ ~Throws
       /\ readyState = "OPEN" /\ attachment => Blocked \/ NoRoom
       /\ SendCounted \/ UNCHANGED vars
       /\ Dispatch(on, rest)
       /\ duplex' = [d EXCEPT !.write = "sent"]
       /\ ticks' = Append(queue, "writeFailed")
    \/ /\ Throws
       /\ Quiet(Unwound(listener, rest))
       /\ duplex' = [d EXCEPT !.write = "lost"] /\ ticks' = queue

-----------------------------------------------------------------------------
(* Application code, in a listener or in a task of its own.                 *)

Here == duplex.life = "alive" /\ ~duplex.errored

Write ==
    /\ Here /\ duplex.writable = "open" /\ duplex.write = "none"
    /\ write(duplex, FALSE, todo, ticks)

(* end(): Node calls _final now, or after the write under way.              *)
End ==
    /\ Here /\ duplex.writable = "open"
    /\ IF duplex.write = "none"
       THEN final([duplex EXCEPT !.writable = "final"], FALSE, todo, ticks)
       ELSE /\ duplex' = [duplex EXCEPT !.writable = "ending"]
            /\ UNCHANGED <<vars, on, todo, ticks>>

Destroy == duplex.life = "alive" /\ destroy(duplex, todo, ticks)

(* A reader asks for more (_read); it may find the end instead.             *)
Read ==
    /\ Here /\ isPaused /\ SetPaused(FALSE)
    /\ LET threw == attachment /\ native.state = "finalized"
       IN  /\ duplex' = [duplex EXCEPT !.errored = @ \/ threw]
           /\ ticks' = IF threw THEN Append(ticks, "threw") ELSE ticks
    /\ UNCHANGED <<on, todo>>

ReadToEnd ==
    /\ duplex.life = "alive" /\ duplex.readable = "eof"
    /\ duplex' = [duplex EXCEPT !.readable = "ending"]
    /\ ticks' = Append(ticks, "end")
    /\ UNCHANGED <<vars, on, todo>>

(* What the application does to the socket itself.                          *)
CallSocket ==
    /\ \/ SendStaged \/ SendCounted \/ controlFrame
       \/ \E code \in CloseCode, reason \in Reason : closeConnection(code, reason)
       \/ terminateConnection
       \/ \E paused \in BOOLEAN : SetPaused(paused)
    /\ Dispatch(on, todo)
    /\ UNCHANGED <<ticks, duplex>>

Application == Write \/ End \/ Destroy \/ Read \/ ReadToEnd \/ CallSocket

-----------------------------------------------------------------------------
(* The next listener runs.                                                  *)
Listener(l) ==
    LET d    == duplex
        rest == Tail(todo)
    IN  CASE l = "error" ->
             IF d.life = "destroyed"
             THEN Quiet(rest) /\ UNCHANGED <<ticks, duplex>>
             ELSE destroy([d EXCEPT !.terminateOnDestroy = FALSE, !.errored = TRUE],
                          rest, ticks)
          [] l = "eof" ->
             /\ Quiet(rest)
             /\ \E flowing \in BOOLEAN :
                    IF d.life = "destroyed" THEN UNCHANGED <<ticks, duplex>>
                    ELSE IF flowing
                    THEN /\ duplex' = [d EXCEPT !.readable = "ending"]
                         /\ ticks' = Append(ticks, "end")
                    ELSE duplex' = [d EXCEPT !.readable = "eof"] /\ UNCHANGED ticks
          [] l = "destroyError" ->
             /\ Quiet(rest) /\ UNCHANGED ticks
             /\ duplex' = [d EXCEPT !.called = TRUE, !.answers = @ + 1]
          [] l = "destroyClose" ->
             /\ Quiet(rest)
             /\ duplex' = IF d.called THEN d ELSE [d EXCEPT !.answers = @ + 1]
             /\ ticks' = Append(ticks, "close")
          [] l = "final"     -> finalCallback(d, rest, ticks)
          [] l = "openFinal" -> final(d, TRUE, rest, ticks)
          [] l = "openWrite" -> write(d, TRUE, rest, ticks)
          [] l = "finally"   -> Finally /\ Dispatch(on, rest) /\ UNCHANGED <<ticks, duplex>>

RunListener == todo # <<>> /\ Listener(Head(todo))

(* The next tick runs.                                                      *)
TickOf(t) ==
    LET d     == duplex
        queue == Tail(ticks)
        set(e) == Quiet(todo) /\ duplex' = e /\ ticks' = queue
    IN  CASE t = "end" ->
             LET seen == IF d.errored THEN d ELSE [d EXCEPT !.readable = "ended"]
             IN  IF ~d.errored /\ d.life = "alive" /\ d.writable = "finished"
                 THEN destroy(seen, todo, queue) ELSE set(seen)
          [] t = "finish" -> set([d EXCEPT !.writable = "finished"])
          [] t = "close"  -> set([d EXCEPT !.closed = @ + 1])
          [] t = "writeDone" ->
             IF Here /\ d.writable = "ending"
             THEN final([d EXCEPT !.write = "none", !.writable = "final"], FALSE, todo, queue)
             ELSE set([d EXCEPT !.write = "none"])
          [] t \in {"writeFailed", "threw"} ->
             destroy([d EXCEPT !.errored = TRUE], todo, queue)

RunTick == todo = <<>> /\ ticks # <<>> /\ TickOf(Head(ticks))

-----------------------------------------------------------------------------
(* A task begins when no listener runs and no tick waits: the socket is     *)
(* adopted (before anything else, once a stream uses it), its transport     *)
(* speaks.                                                                  *)
Task ==
    /\ Idle
    /\ \/ /\ duplex.life = "none" \/ readyState = "CONNECTING"
          /\ attachNativeSocket \/ attachSocket
       \/ StreamEnds \/ StreamErrs
    /\ Dispatch(on, <<>>)
    /\ UNCHANGED <<ticks, duplex>>

TransportCloses ==
    /\ Idle /\ StreamCloses
    /\ Dispatch(on, <<>>)
    /\ UNCHANGED <<ticks, duplex>>

(* A message the full buffer refuses pauses the socket.                     *)
MessageRefused ==
    /\ Idle /\ duplex.life = "alive" /\ duplex.readable = "open" /\ readyState = "OPEN"
    /\ SetPaused(TRUE)
    /\ UNCHANGED <<on, todo, ticks, duplex>>

Engine ==
    /\ EngineCloses \/ EngineRecycles \/ ServerFinalized
    /\ UNCHANGED <<on, todo, ticks, duplex>>

StreamNext ==
    \/ createWebSocketStream \/ Application
    \/ RunListener \/ RunTick
    \/ Task \/ TransportCloses \/ MessageRefused \/ Engine

StreamSpec == StreamInit /\ [][StreamNext]_streamVars

(* JavaScript runs what it has begun, Node closes a transport that was      *)
(* ended on both sides or destroyed.                                        *)
FairStreamSpec ==
    /\ StreamSpec
    /\ WF_streamVars(RunListener) /\ WF_streamVars(RunTick)
    /\ WF_streamVars(TransportCloses)

-----------------------------------------------------------------------------
(* The stream tells its close once, after the callback of _destroy, and not *)
(* before the socket is closed: whoever waits for it may let go of both.    *)
ClosedIsLast ==
    duplex.closed > 0 =>
        /\ duplex.closed = 1 /\ duplex.answers = 1
        /\ duplex.life = "destroyed" /\ readyState = "CLOSED"

(* Nothing waits for a close event the socket has told already: neither the *)
(* callback of _final nor that of _destroy (stream.ts:43, 71).              *)
NothingWaitsForClose ==
    readyState = "CLOSED" /\ todo = <<>> => on.close = <<>>

(* A stream that was destroyed, by a socket error, by its end or by the     *)
(* application, tells its close, whatever becomes of the socket meanwhile.  *)
DestroyedCloses == (duplex.life = "destroyed") ~> (duplex.closed = 1)

(* A stream both sides of which ended is destroyed, as in ws (stream.ts:5). *)
EndedCloses ==
    (duplex.readable = "ended" /\ duplex.writable = "finished")
        ~> (duplex.life = "destroyed")
=============================================================================
