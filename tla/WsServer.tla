------------------------------ MODULE WsServer ------------------------------
(***************************************************************************)
(* The ws-shaped server (src/compat/server): its close protocol, the        *)
(* upgrades that run application code at every stage, and the set of        *)
(* clients that the deferred close event waits for.                         *)
(*                                                                         *)
(* Everything runs on the JavaScript thread. `frames` is its stack: the     *)
(* functions of the server that are waiting for application code they       *)
(* called, and which may call the server again. With an empty stack, the    *)
(* nextTick queue is drained before the next task begins. Application code  *)
(* may make its calls between any two steps: inside a function that called  *)
(* it, in a task of its own, or in a tick or microtask of its own between   *)
(* two ticks of the server.                                                 *)
(***************************************************************************)
EXTENDS Naturals, FiniteSets, SequencesExt

CONSTANTS
    Stream,         \* the streams on which an upgrade may be requested
    Callback,       \* the callbacks the application passes to close()
    MaxAnswers      \* bound: answers of verifyClient to one request

ASSUME ServerAssumption == IsFiniteSet(Stream) /\ MaxAnswers \in Nat

VARIABLES
    options,                \* of the server, normalized
    server,                 \* ServerState
    stream,                 \* per stream: transport, whether it is a connection
                            \* of the owned HTTP server, UPGRADED, and its socket
    closers,                \* callbacks of close(), one-time `close` listeners
    ticks,                  \* process.nextTick queue
    httpClosing,            \* the owned HTTP server was asked to close
    frames,                 \* the stack, outermost first
    answer,                 \* what each callback has been told
    late,                   \* streams whose upgrade was under way at close()
    emitted                 \* close events

history == <<answer, late, emitted>>
vars == <<options, server, stream, closers, ticks, httpClosing, frames, history>>

(* The transport of a stream that has not arrived is idle; halfOpen: only   *)
(* its peer ended it, and it is no longer readable; ending: we ended it.    *)
Transport == {"idle", "live", "halfOpen", "ending", "destroyed", "closed"}

Frame == [call : {"handleUpgrade"}, stream : Stream, step : {"hooks", "open", "callback"}]
            \cup [call : {"socketClose"}, stream : Stream, step : {"before", "after"}]
            \cup [call : {"emitClose"}, rest : Seq(Callback)]

(* "refused" waits, as "asked" does, but for the answer "not running".       *)
Answer == {"unasked", "asked", "refused", "closed", "not running"}

Option == [port : BOOLEAN, server : BOOLEAN, noServer : BOOLEAN,
           clientTracking : BOOLEAN]

Server == [lifecycle : {"running", "closing", "closed"}, shouldEmitClose : BOOLEAN,
           wired : BOOLEAN, clients : SUBSET Stream]

ReadyState == {"none", "CONNECTING", "OPEN", "CLOSING", "CLOSED"}

Record == [transport : Transport, owned : BOOLEAN, upgraded : BOOLEAN,
           answers : 0 .. MaxAnswers, readyState : ReadyState]

TypeOK ==
    /\ options \in Option
    /\ server \in Server
    /\ stream \in [Stream -> Record]
    /\ closers \in Seq(Callback)
    /\ ticks \in Seq({"emitClose", "emitCloseAgain"})
    /\ httpClosing \in BOOLEAN
    /\ frames \in Seq(Frame)
    /\ answer \in [Callback -> Answer]
    /\ late \in SUBSET Stream /\ emitted \in Nat

(* Which options are given, the other ones being left to their defaults:    *)
(* one listen target, no more.                                              *)
isAmbiguousListenTarget(o) ==
    \/ o.port /\ (o.server \/ o.noServer)
    \/ o.server /\ o.noServer
    \/ ~o.port /\ ~o.server /\ ~o.noServer

normalizeServerOptions == {o \in Option : ~isAmbiguousListenTarget(o)}

Init ==
    /\ options \in normalizeServerOptions
    /\ server = [lifecycle |-> "running", shouldEmitClose |-> FALSE,
                 wired |-> options.port \/ options.server, clients |-> {}]
    /\ stream = [s \in Stream |-> [transport |-> "idle", owned |-> FALSE,
                                   upgraded |-> FALSE, answers |-> 0,
                                   readyState |-> "none"]]
    /\ closers = <<>> /\ ticks = <<>> /\ httpClosing = FALSE /\ frames = <<>>
    /\ answer = [c \in Callback |-> "unasked"]
    /\ late = {} /\ emitted = 0

(* A task of the event loop begins.                                         *)
Task == frames = <<>> /\ ticks = <<>>

Push(f) == frames' = Append(frames, f)
Pop == frames' = Front(frames)
OnTop(call) == frames # <<>> /\ Last(frames).call = call
Upgrading(s) == \E f \in ToSet(frames) : f.call = "handleUpgrade" /\ f.stream = s

-----------------------------------------------------------------------------
(* close(), emitClose() and the nextTick queue.                             *)

External == options.noServer \/ options.server

CloseStopped(c) ==
    /\ server.lifecycle = "closed"
    /\ answer' = [answer EXCEPT ![c] = "refused"]
    /\ ticks' = Append(ticks, "emitCloseAgain")
    /\ UNCHANGED <<server, httpClosing, late>>

CloseAgain(c) ==
    /\ server.lifecycle = "closing"
    /\ answer' = [answer EXCEPT ![c] = "asked"]
    /\ UNCHANGED <<server, httpClosing, late, ticks>>

(* Mutant: an external server does not wait for its clients.                *)
MustDrain_Never == FALSE

MustDrain == options.clientTracking /\ server.clients # {}

(* detachServer, and who will emit close: the owned HTTP server once it has *)
(* closed, the last client, or the next tick.                               *)
CloseRunning(c) ==
    /\ server.lifecycle = "running"
    /\ answer' = [answer EXCEPT ![c] = "asked"]
    /\ server' = [server EXCEPT !.lifecycle = "closing", !.wired = FALSE,
                                !.shouldEmitClose = External /\ MustDrain]
    /\ httpClosing' = ~External
    /\ ticks' = IF External /\ ~MustDrain THEN Append(ticks, "emitClose") ELSE ticks
    /\ late' = {s \in Stream : Upgrading(s)}

closeWebSocketServer(c) ==
    /\ answer[c] = "unasked"
    /\ closers' = Append(closers, c)
    /\ CloseStopped(c) \/ CloseAgain(c) \/ CloseRunning(c)
    /\ UNCHANGED <<options, stream, frames, emitted>>

(* Mutant: the state is not latched before the listeners run.               *)
emitClose_Unlatched ==
    /\ emitted' = emitted + 1
    /\ Push([call |-> "emitClose", rest |-> closers])
    /\ UNCHANGED server

emitClose ==
    IF server.lifecycle = "closed" THEN UNCHANGED <<server, emitted, frames>>
    ELSE /\ server' = [server EXCEPT !.lifecycle = "closed"]
         /\ emitted' = emitted + 1
         /\ Push([call |-> "emitClose", rest |-> closers])

emitCloseAgain ==
    /\ emitted' = emitted + 1
    /\ Push([call |-> "emitClose", rest |-> closers])
    /\ UNCHANGED server

RunTick ==
    /\ frames = <<>> /\ ticks # <<>>
    /\ ticks' = Tail(ticks)
    /\ IF Head(ticks) = "emitClose" THEN emitClose ELSE emitCloseAgain
    /\ UNCHANGED <<options, stream, closers, httpClosing, answer, late>>

(* The dispatch of `close` is over, or calls the next one-time listener:     *)
(* the oldest one, which leaves the registry first.                         *)
EmitStep ==
    /\ OnTop("emitClose")
    /\ LET rest == Last(frames).rest
       IN  \/ rest = <<>> /\ Pop /\ UNCHANGED <<closers, answer>>
           \/ /\ rest # <<>>
              /\ closers' = Tail(closers)
              /\ answer' = [answer EXCEPT ![Head(rest)] =
                                IF @ = "refused" THEN "not running" ELSE "closed"]
              /\ frames' = [frames EXCEPT ![Len(frames)].rest = Tail(rest)]
    /\ UNCHANGED <<options, server, stream, ticks, httpClosing, late, emitted>>

(* External: the owned HTTP server has no connection left. A connection is  *)
(* gone when its stream is destroyed, before the stream's close event. What *)
(* the application handed over is no connection of that server.             *)
HttpCloses ==
    /\ Task /\ httpClosing
    /\ \A s \in Stream : stream[s].owned => stream[s].transport \in {"destroyed", "closed"}
    /\ httpClosing' = FALSE
    /\ emitClose
    /\ UNCHANGED <<options, stream, closers, ticks, answer, late>>

-----------------------------------------------------------------------------
(* Upgrades.                                                                *)

Transported(s, to) == [stream EXCEPT ![s].transport = to]

(* abortHandshake ends the stream and destroys it when that is done; on a   *)
(* stream that was ended before, the write fails and destroys it.           *)
AfterAbort(s) ==
    CASE stream[s].transport \in {"live", "halfOpen"} -> "ending"
      [] stream[s].transport = "ending"               -> "destroyed"
      [] OTHER                                        -> stream[s].transport

(* An invalid request is refused, or left to the `wsClientError` listeners.  *)
abortOrEmit(s, arrived) ==
    /\ stream' \in {[stream EXCEPT ![s] = [arrived EXCEPT !.transport = t]] : t \in {"ending", "live"}}
    /\ UNCHANGED frames

(* A stream that is not readable and writable is destroyed, one that was    *)
(* upgraded throws, a server that was closed in the meantime answers 503.   *)
(* Otherwise the socket is built, and handleProtocols and the `headers`     *)
(* listeners run.                                                           *)
completeUpgrade(s, record) ==
    CASE record.transport # "live" ->
           /\ stream' = [stream EXCEPT ![s] = [record EXCEPT !.transport =
                            IF @ = "closed" THEN @ ELSE "destroyed"]]
           /\ UNCHANGED frames
      [] record.transport = "live" /\ record.upgraded ->
           /\ stream' = [stream EXCEPT ![s] = record]
           /\ UNCHANGED frames
      [] record.transport = "live" /\ ~record.upgraded /\ server.lifecycle # "running" ->
           /\ stream' = [stream EXCEPT ![s] = [record EXCEPT !.transport = "ending"]]
           /\ UNCHANGED frames
      [] OTHER ->
           /\ stream' = [stream EXCEPT ![s] = [record EXCEPT !.readyState = "CONNECTING"]]
           /\ Push([call |-> "handleUpgrade", stream |-> s, step |-> "hooks"])

upgradeUnchanged == <<options, server, closers, ticks, httpClosing, history>>

Arrived(s, handedOver) ==
    [stream[s] EXCEPT !.transport = "live", !.owned = options.port /\ ~handedOver]

(* A request arrives: through the wired HTTP server, or handed over by the  *)
(* application, which no mode forbids. It is refused; left to the           *)
(* `wsClientError` listeners; completed; or verifyClient is asked.          *)
handleUpgrade(s) ==
    /\ stream[s].transport = "idle"
    /\ \E handedOver \in BOOLEAN :
          /\ handedOver \/ (server.wired /\ Task)
          /\ LET arrived == Arrived(s, handedOver)
             IN  \/ abortOrEmit(s, arrived)
                 \/ completeUpgrade(s, arrived)
                 \/ /\ stream' = [stream EXCEPT ![s] = [arrived EXCEPT !.answers = MaxAnswers]]
                    /\ UNCHANGED frames
    /\ UNCHANGED upgradeUnchanged

(* verifyClient answers, at once or whenever it likes, and maybe again. It  *)
(* does not answer from within the hooks of the upgrade it has let through. *)
VerifyAnswers(s) ==
    /\ ~Upgrading(s)
    /\ stream[s].answers > 0
    /\ LET answered == [stream[s] EXCEPT !.answers = @ - 1]
       IN  \/ completeUpgrade(s, answered)
           \/ /\ stream' = [stream EXCEPT ![s] = [answered EXCEPT !.transport = AfterAbort(s)]]
              /\ UNCHANGED frames
    /\ UNCHANGED upgradeUnchanged

At(step) == OnTop("handleUpgrade") /\ Last(frames).step = step
Upgraded == Last(frames).stream
GoOn(step) == frames' = [frames EXCEPT ![Len(frames)].step = step]

(* The hooks returned: UPGRADED, the 101 response, attachSocket, whose last *)
(* call emits `open`.                                                       *)
attachSocket ==
    /\ At("hooks")
    /\ stream' = [stream EXCEPT ![Upgraded].upgraded = TRUE,
                                ![Upgraded].readyState = "OPEN"]
    /\ GoOn("open")
    /\ UNCHANGED <<options, server, closers, ticks, httpClosing, history>>

(* Mutant: a server that is closing no longer tracks clients.               *)
trackClient_WhileRunning ==
    /\ At("open")
    /\ server' = IF options.clientTracking /\ server.lifecycle = "running"
                 THEN [server EXCEPT !.clients = @ \cup {Upgraded}] ELSE server
    /\ GoOn("callback")
    /\ UNCHANGED <<options, stream, closers, ticks, httpClosing, history>>

(* The `open` listeners returned: trackClient, then the caller's callback,  *)
(* which emits `connection` when an HTTP server is wired.                   *)
trackClient ==
    /\ At("open")
    /\ server' = IF options.clientTracking THEN [server EXCEPT !.clients = @ \cup {Upgraded}]
                 ELSE server
    /\ GoOn("callback")
    /\ UNCHANGED <<options, stream, closers, ticks, httpClosing, history>>

CallbackReturns ==
    /\ At("callback")
    /\ Pop
    /\ UNCHANGED <<options, server, stream, closers, ticks, httpClosing, history>>

-----------------------------------------------------------------------------
(* The accepted socket and its stream.                                      *)

(* close(): a socket that is still CONNECTING is finished at once.          *)
closeConnection(s) ==
    /\ stream[s].readyState \in {"CONNECTING", "OPEN"}
    /\ stream' = [stream EXCEPT ![s].readyState =
                      IF @ = "CONNECTING" THEN "CLOSED" ELSE "CLOSING"]
    /\ UNCHANGED <<options, server, closers, ticks, httpClosing, frames, history>>

(* terminate() before the stream is attached; afterwards it is one of the   *)
(* ways in which a stream is destroyed, as are errors and the application.  *)
terminateConnection(s) ==
    /\ stream[s].readyState = "CONNECTING"
    /\ stream' = [stream EXCEPT ![s].readyState = "CLOSED"]
    /\ UNCHANGED <<options, server, closers, ticks, httpClosing, frames, history>>

StreamDestroyed(s) ==
    /\ stream[s].transport \in {"live", "halfOpen", "ending"}
    /\ stream' = Transported(s, "destroyed")
    /\ UNCHANGED <<options, server, closers, ticks, httpClosing, frames, history>>

(* The peer ends: an attached stream is ended in turn.                      *)
StreamEnds(s) ==
    /\ Task
    /\ stream[s].transport = "live"
    /\ stream' = IF stream[s].upgraded
                 THEN [stream EXCEPT ![s].transport = "ending",
                                     ![s].readyState = "CLOSING"]
                 ELSE Transported(s, "halfOpen")
    /\ UNCHANGED <<options, server, closers, ticks, httpClosing, frames, history>>

(* The close event of the stream: an attached one finishes its socket,      *)
(* whose listeners run, trackClient's among them.                           *)
StreamCloses(s) ==
    /\ Task
    /\ stream[s].transport \in {"ending", "destroyed"}
    /\ stream' = [stream EXCEPT ![s].transport = "closed",
                      ![s].readyState = IF stream[s].upgraded THEN "CLOSED" ELSE @]
    /\ IF stream[s].upgraded
       THEN Push([call |-> "socketClose", stream |-> s, step |-> "before"])
       ELSE UNCHANGED frames
    /\ UNCHANGED <<options, server, closers, ticks, httpClosing, history>>

(* Mutant: the client is dropped from the set, the waiting close forgotten. *)
Untrack_Forgets ==
    /\ OnTop("socketClose") /\ Last(frames).step = "before"
    /\ server' = [server EXCEPT !.clients = @ \ {Upgraded}]
    /\ GoOn("after")
    /\ UNCHANGED <<options, stream, closers, ticks, httpClosing, history>>

Untrack ==
    /\ OnTop("socketClose") /\ Last(frames).step = "before"
    /\ server' = [server EXCEPT !.clients = @ \ {Upgraded}]
    /\ ticks' = IF Upgraded \in server.clients /\ server.shouldEmitClose
                    /\ server'.clients = {}
                THEN Append(ticks, "emitClose") ELSE ticks
    /\ GoOn("after")
    /\ UNCHANGED <<options, stream, closers, httpClosing, history>>

SocketClosed ==
    /\ OnTop("socketClose") /\ Last(frames).step = "after"
    /\ Pop
    /\ UNCHANGED <<options, server, stream, closers, ticks, httpClosing, history>>

(* Application code returns to the function that called it.                 *)
Resume == EmitStep \/ attachSocket \/ trackClient \/ CallbackReturns
             \/ Untrack \/ SocketClosed

Next ==
    \/ \E c \in Callback : closeWebSocketServer(c)
    \/ RunTick \/ HttpCloses \/ Resume
    \/ \E s \in Stream :
          \/ handleUpgrade(s) \/ VerifyAnswers(s)
          \/ closeConnection(s) \/ terminateConnection(s)
          \/ StreamDestroyed(s) \/ StreamEnds(s) \/ StreamCloses(s)

Spec == Init /\ [][Next]_vars

(* Application code returns, the event loop turns, and Node closes streams  *)
(* that were ended or destroyed. Peers need not leave, nobody need close.   *)
FairSpec ==
    /\ Spec
    /\ WF_vars(Resume) /\ WF_vars(RunTick) /\ WF_vars(HttpCloses)
    /\ \A s \in Stream : WF_vars(StreamCloses(s))

-----------------------------------------------------------------------------
(* When the server has emitted close no client is left, but for those whose *)
(* own upgrade called close() from a hook, after the running check, and,    *)
(* with an owned HTTP server, those whose stream is destroyed and whose     *)
(* socket is still to be told, and those the application handed over, for   *)
(* which that server does not wait (closeWebSocketServer, trackClient).     *)
ClosedMeansDrained ==
    server.lifecycle = "closed" =>
        \A s \in server.clients :
            IF External THEN s \in late
            ELSE stream[s].owned => stream[s].transport \in {"destroyed", "closed"}

(* server.clients holds exactly the attached sockets that are not closed,   *)
(* but while the functions that add and remove one are running, whatever    *)
(* their hooks do to the socket, its stream or the server.                  *)
ClientsAreOpenSockets ==
    \A s \in Stream :
        ~(\E f \in ToSet(frames) : f.call # "emitClose" /\ f.stream = s
                                     /\ f.step \in {"open", "before"})
        => (s \in server.clients <=> options.clientTracking /\ stream[s].upgraded
                                                  /\ stream[s].readyState # "CLOSED")

(* The close event under way is the outermost frame: it begins in a tick or  *)
(* a task of its own.                                                       *)
Heard == IF frames # <<>> /\ frames[1].call = "emitClose"
         THEN ToSet(frames[1].rest) ELSE {}

Owed(queue) == Cardinality({i \in DOMAIN queue : queue[i] = "emitCloseAgain"})

Promise == INSTANCE ServerClose WITH
    phase   <- server.lifecycle,
    told    <- [c \in Callback |-> IF answer[c] = "refused" THEN "asked" ELSE answer[c]],
    refused <- {c \in Callback : answer[c] = "refused"},
    heard   <- Heard,
    owed    <- Owed(ticks)

(* Whatever hooks and listeners do, the server closes once and emits close  *)
(* once for it and once for every close() that came later; each event tells *)
(* the callbacks handed over before it, "not running" to the late ones only *)
(* (emitClose, closeWebSocketServer).                                       *)
ImplementsPromise == Promise!Spec

(* Every callback of close() is called once the streams have gone: the last *)
(* client that leaves releases the deferred event, and no close() is lost   *)
(* that a hook or a close listener makes.                                   *)
CloseAnswered ==
    <>[](\A s \in Stream : stream[s].transport \in {"idle", "closed"}) =>
        \A c \in Callback : (answer[c] \in {"asked", "refused"}) ~> (answer[c] \in {"closed", "not running"})
=============================================================================
