--------------------------- MODULE ServerLifecycle --------------------------
(***************************************************************************)
(* One native server from create to free (server.zig, server_cleanup.zig,  *)
(* and the events of connections.zig), composed with the event channel it  *)
(* owns.  Two threads: the Node main thread runs the exported operations,  *)
(* the dispatches, and the environment cleanup hook; the engine thread     *)
(* runs run_engine.  The instance holds the ring, so the question of this  *)
(* module is when it may be freed, and what JavaScript was told by then.   *)
(*                                                                         *)
(* The event loop of the engine library is external: while it runs it      *)
(* opens and closes connections, it may fail at any time, and it returns   *)
(* some time after request_shutdown.                                       *)
(***************************************************************************)
EXTENDS Integers, Sequences

CONSTANTS ConnectionCapacity, \* connections the engine pool can hold
          MaxConnections,     \* the configured limit, at most the capacity
          Capacity,           \* slots of the event ring
          TsfnMayFail,        \* whether a call of the tsfn may fail unprovoked
          MaxTraffic          \* bound: events emitted before connection traffic
                              \* stops

\* sizing.zig
ShutdownReserve == 2
TerminalReserve == ConnectionCapacity + ShutdownReserve
Kind == {"listening", "connection_open", "connection_close",
         "engine_error", "server_closed"}
\* `listening` and the shutdown events are emitted beyond MaxTraffic.
MaxEmits == MaxTraffic + 3

ASSUME ConnectionAssumption ==
    /\ ConnectionCapacity \in Nat \ {0}
    /\ MaxConnections \in 1 .. ConnectionCapacity
ASSUME CapacityAssumption ==
    Capacity \in Nat /\ Capacity >= 2 * ConnectionCapacity + 2
ASSUME TrafficAssumption == TsfnMayFail \in BOOLEAN /\ MaxTraffic \in Nat

VARIABLES reserved, completed, dropped, abandoned, slots, closing,
          ppc, pevent, pseq, tsfnq, envAlive, cpc, cslot, cevent,
          emitted, shutdowns, refused, handled

Channel == INSTANCE EventChannel

VARIABLES state,       \* created, listening, closing, closed
          spawned,     \* the engine thread was started and not joined
          epc,         \* where the engine thread is in run_engine
          acquired,    \* run_engine's local of that name
          refs,        \* references on the tsfn
          shutdownRequested, \* the wakeup of the cluster was signalled
          live,        \* connections open in the engine
          mpc,         \* where the main thread is in an operation
          hook,        \* the environment cleanup hook is registered
          exiting,     \* the environment is being torn down
          frees        \* how many times destroy freed the instance

chVars   == <<reserved, completed, dropped, abandoned, slots, closing,
              ppc, pevent, pseq, tsfnq, envAlive, cpc, cslot, cevent,
              emitted, shutdowns, refused, handled>>
engVars  == <<epc, acquired, live>>
mainVars == <<mpc, hook, exiting, frees, spawned>>
vars     == <<chVars, state, engVars, refs, shutdownRequested, mainVars>>

\* create has published the instance: channel open, hook registered.
Init == /\ Channel!Init
        /\ state = "created"
        /\ spawned = FALSE
        /\ epc = "off" /\ acquired = FALSE /\ live = 0
        /\ refs = 1
        /\ shutdownRequested = FALSE
        /\ mpc = "idle" /\ hook = TRUE /\ exiting = FALSE /\ frees = 0

-----------------------------------------------------------------------------
(* The engine thread: run_engine.  It is the publisher of the channel, so it
   moves on when its last publication ended. *)

Emit(k) == Channel!Publish(k) \/ Channel!PublishLatched(k)

Engine(from, to) == /\ epc = from
                    /\ ppc = "idle"
                    /\ epc' = to

EngineAcquire ==
    /\ Engine("acquire", "emit_listening")
    /\ acquired' = TRUE
    /\ refs' = refs + 1
    /\ UNCHANGED <<chVars, state, live, shutdownRequested, mainVars>>

EngineAcquireRefused ==
    /\ Engine("acquire", "emit_listening")
    /\ Channel!AcquireRefused
    /\ UNCHANGED <<state, acquired, live, refs, shutdownRequested, mainVars>>

EngineEmitListening ==
    /\ Engine("emit_listening", "run")
    /\ Emit("listening")
    /\ UNCHANGED <<state, acquired, live, refs, shutdownRequested, mainVars>>

\* on_open: a connection beyond the limit is terminated and not announced.
EngineConnectionOpen ==
    /\ Engine("run", "run")
    /\ emitted < MaxTraffic
    /\ live < MaxConnections
    /\ live' = live + 1
    /\ Emit("connection_open")
    /\ UNCHANGED <<state, acquired, refs, shutdownRequested, mainVars>>

EngineConnectionClose ==
    /\ Engine("run", "run")
    /\ emitted < MaxTraffic
    /\ live > 0
    /\ live' = live - 1
    /\ Emit("connection_close")
    /\ UNCHANGED <<state, acquired, refs, shutdownRequested, mainVars>>

\* cluster.run returns because shutdown was requested ...
EngineStops ==
    /\ Engine("run", "store_closed")
    /\ shutdownRequested
    /\ UNCHANGED <<chVars, state, acquired, live, refs, shutdownRequested,
                   mainVars>>

\* ... or fails.
EngineFails ==
    /\ Engine("run", "emit_error")
    /\ UNCHANGED <<chVars, state, acquired, live, refs, shutdownRequested,
                   mainVars>>

\* Mutant: a failing engine reports server_closed, and so does its epilogue.
EngineEmitError_WrongKind ==
    /\ Engine("emit_error", "store_closed")
    /\ Emit("server_closed")
    /\ UNCHANGED <<state, acquired, live, refs, shutdownRequested, mainVars>>

EngineEmitError ==
    /\ Engine("emit_error", "store_closed")
    /\ Emit("engine_error")
    /\ UNCHANGED <<state, acquired, live, refs, shutdownRequested, mainVars>>

EngineStoreClosed ==
    /\ Engine("store_closed", "emit_closed")
    /\ state' = "closed"
    /\ UNCHANGED <<chVars, acquired, live, refs, shutdownRequested, mainVars>>

EngineEmitClosed ==
    /\ Engine("emit_closed", "release")
    /\ Emit("server_closed")
    /\ UNCHANGED <<state, acquired, live, refs, shutdownRequested, mainVars>>

\* Mutant: the engine thread ends without releasing its reference.
EngineRelease_Forgotten ==
    /\ Engine("release", "done")
    /\ UNCHANGED <<chVars, state, acquired, live, refs, shutdownRequested,
                   mainVars>>

EngineRelease ==
    /\ Engine("release", "done")
    /\ refs' = IF acquired THEN refs - 1 ELSE refs
    /\ UNCHANGED <<chVars, state, acquired, live, shutdownRequested, mainVars>>

Publishing == /\ Channel!PublisherStep
              /\ UNCHANGED <<state, engVars, refs, shutdownRequested, mainVars>>

EngineStep == \/ EngineAcquire \/ EngineAcquireRefused \/ EngineEmitListening
              \/ EngineConnectionOpen \/ EngineConnectionClose
              \/ EngineStops \/ EngineFails \/ EngineEmitError
              \/ EngineStoreClosed \/ EngineEmitClosed \/ EngineRelease

-----------------------------------------------------------------------------
(* The main thread.  JavaScript calls the exported operations from a turn of
   its own or from inside the event handler; an operation runs to its end. *)

MayCall == /\ mpc = "idle"
           /\ cpc \in {"idle", "handler"}
           /\ ~exiting
           /\ frees = 0 \* else the table refuses the handle

\* What destroy does to the channel and to the instance.
Destroy == /\ closing' = TRUE
           /\ refs' = refs - 1
           /\ frees' = frees + 1
           /\ UNCHANGED <<reserved, completed, dropped, abandoned, slots,
                          ppc, pevent, pseq, tsfnq, envAlive, cpc, cslot,
                          cevent, emitted, shutdowns, refused, handled>>

Listen == /\ MayCall
          /\ state = "created"
          /\ state' = "listening"
          /\ spawned' = TRUE
          /\ epc' = "acquire"
          /\ UNCHANGED <<chVars, acquired, live, refs, shutdownRequested, mpc,
                         hook, exiting, frees>>

\* The engine thread cannot be spawned: listen frees the instance itself.
ListenSpawnFails == /\ MayCall
                    /\ state = "created"
                    /\ state' = "listening"
                    /\ hook' = FALSE
                    /\ Destroy
                    /\ UNCHANGED <<engVars, shutdownRequested, mpc, exiting,
                                   spawned>>

\* Mutant: close emits for the engine thread while that is still running.
CloseCreated_AnyState == /\ MayCall
                         /\ state \in {"created", "listening"}
                         /\ state' = "closed"
                         /\ Emit("server_closed")
                         /\ mpc' = "emitting"
                         /\ UNCHANGED <<engVars, refs, shutdownRequested, hook,
                                        exiting, frees, spawned>>

\* close before listen: the main thread emits server_closed itself.
CloseCreated == /\ MayCall
                /\ state = "created"
                /\ state' = "closed"
                /\ Emit("server_closed")
                /\ mpc' = "emitting"
                /\ UNCHANGED <<engVars, refs, shutdownRequested, hook, exiting,
                               frees, spawned>>

CloseCreatedReturns == /\ mpc = "emitting"
                       /\ ppc = "idle"
                       /\ mpc' = "idle"
                       /\ UNCHANGED <<chVars, state, engVars, refs,
                                      shutdownRequested, hook, exiting, frees,
                                      spawned>>

\* close while listening: the state is loaded, then swapped.
CloseListening == /\ MayCall
                  /\ state = "listening"
                  /\ mpc' = "close_swap"
                  /\ UNCHANGED <<chVars, state, engVars, refs,
                                 shutdownRequested, hook, exiting, frees,
                                 spawned>>

CloseSwap == /\ mpc = "close_swap"
             /\ state = "listening"
             /\ state' = "closing"
             /\ mpc' = "close_request"
             /\ UNCHANGED <<chVars, engVars, refs, shutdownRequested, hook,
                            exiting, frees, spawned>>

\* The engine failed in between: InvalidServerState.
CloseSwapFails == /\ mpc = "close_swap"
                  /\ state # "listening"
                  /\ mpc' = "idle"
                  /\ UNCHANGED <<chVars, state, engVars, refs,
                                 shutdownRequested, hook, exiting, frees,
                                 spawned>>

\* Mutant: close changes the state and never wakes the engine thread.
CloseRequest_Forgotten ==
    /\ mpc = "close_request"
    /\ mpc' = "idle"
    /\ UNCHANGED <<chVars, state, engVars, refs, shutdownRequested, hook,
                   exiting, frees, spawned>>

CloseRequest == /\ mpc = "close_request"
                /\ shutdownRequested' = TRUE
                /\ mpc' = "idle"
                /\ UNCHANGED <<chVars, state, engVars, refs, hook, exiting,
                               frees, spawned>>

\* Mutant: finalize does not look at the state.
Finalize_AnyState == /\ MayCall
                     /\ mpc' = "join"
                     /\ UNCHANGED <<chVars, state, engVars, refs,
                                    shutdownRequested, hook, exiting, frees,
                                    spawned>>

\* finalize is refused unless the server is closed; then it joins the engine
\* thread, which may not have emitted server_closed yet.
Finalize == /\ MayCall
            /\ state = "closed"
            /\ mpc' = "join"
            /\ UNCHANGED <<chVars, state, engVars, refs, shutdownRequested,
                           hook, exiting, frees, spawned>>

\* Mutant: the pending check comes before the join.
Joined_NotAwaited == spawned' = FALSE

\* runner.join: blocks until run_engine has returned.
Joined == /\ spawned => epc = "done"
          /\ spawned' = FALSE

FinalizeJoins == /\ mpc = "join"
                 /\ Joined
                 /\ mpc' = "check_pending"
                 /\ UNCHANGED <<chVars, state, engVars, refs,
                                shutdownRequested, hook, exiting, frees>>

FinalizeRefused == /\ mpc = "check_pending"
                   /\ Channel!Pending # 0
                   /\ mpc' = "idle"
                   /\ UNCHANGED <<chVars, state, engVars, refs,
                                  shutdownRequested, hook, exiting, frees,
                                  spawned>>

\* Mutant: finalize frees with events still queued.
FinalizeFrees_Unchecked ==
    /\ mpc = "check_pending"
    /\ mpc' = "idle"
    /\ hook' = FALSE
    /\ Destroy
    /\ UNCHANGED <<state, engVars, shutdownRequested, exiting, spawned>>

\* Mutant: finalize leaves the cleanup hook registered.
FinalizeFrees_KeepsHook ==
    /\ mpc = "check_pending"
    /\ Channel!Pending = 0
    /\ mpc' = "idle"
    /\ Destroy
    /\ UNCHANGED <<state, engVars, shutdownRequested, hook, exiting, spawned>>

FinalizeFrees == /\ mpc = "check_pending"
                 /\ Channel!Pending = 0
                 /\ mpc' = "idle"
                 /\ hook' = FALSE
                 /\ Destroy
                 /\ UNCHANGED <<state, engVars, shutdownRequested, exiting,
                                spawned>>

\* The environment is torn down between two turns: Node runs the hook, if it
\* is still registered, and then closes the tsfn, which was created earlier.
BeginExit == /\ mpc = "idle" /\ cpc = "idle"
             /\ ~exiting
             /\ exiting' = TRUE
             /\ mpc' = IF hook THEN "hook_stop" ELSE "idle"
             /\ UNCHANGED <<chVars, state, engVars, refs, shutdownRequested,
                            hook, frees, spawned>>

HookStop == /\ mpc = "hook_stop"
            /\ Channel!Stop
            /\ mpc' = "hook_request"
            /\ UNCHANGED <<state, engVars, refs, shutdownRequested, hook,
                           exiting, frees, spawned>>

\* Mutant: the hook joins an engine thread nobody asked to stop.
HookRequest_Forgotten ==
    /\ mpc = "hook_request"
    /\ mpc' = "hook_join"
    /\ UNCHANGED <<chVars, state, engVars, refs, shutdownRequested, hook,
                   exiting, frees, spawned>>

HookRequest == /\ mpc = "hook_request"
               /\ shutdownRequested' = \/ shutdownRequested
                                         \/ state = "listening"
               /\ mpc' = "hook_join"
               /\ UNCHANGED <<chVars, state, engVars, refs, hook, exiting,
                              frees, spawned>>

HookJoins == /\ mpc = "hook_join"
             /\ Joined
             /\ mpc' = "hook_destroy"
             /\ UNCHANGED <<chVars, state, engVars, refs, shutdownRequested,
                            hook, exiting, frees>>

HookFrees == /\ mpc = "hook_destroy"
             /\ mpc' = "idle"
             /\ hook' = FALSE \* Node has run it
             /\ Destroy
             /\ UNCHANGED <<state, engVars, shutdownRequested, exiting,
                            spawned>>

\* The tsfn closes and hands every queued address to call_js without an
\* environment.
TearDown == /\ exiting /\ mpc = "idle"
            /\ Channel!TearDown
            /\ UNCHANGED <<state, engVars, refs, shutdownRequested, mainVars>>

\* A turn of the loop dispatches one event; the handler may call the exported
\* operations before it returns.
Dispatching == /\ mpc = "idle" /\ ~exiting
               /\ Channel!ConsumerStep
               /\ UNCHANGED <<state, engVars, refs, shutdownRequested,
                              mainVars>>

Call == \/ Listen \/ ListenSpawnFails \/ CloseCreated \/ CloseListening
        \/ Finalize

MainStep == \/ CloseCreatedReturns \/ CloseSwap \/ CloseSwapFails
            \/ CloseRequest \/ FinalizeJoins \/ FinalizeRefused
            \/ FinalizeFrees \/ HookStop \/ HookRequest \/ HookJoins
            \/ HookFrees \/ TearDown

Next == \/ EngineStep \/ Publishing
        \/ Call \/ MainStep \/ Dispatching \/ BeginExit

\* The engine thread runs, and its loop notices the wakeup even while traffic
\* goes on; the main thread ends the operation it is in, and JavaScript
\* returns to its loop, however often it calls an operation before.  Nothing
\* makes JavaScript call an operation, or the engine fail.
EngineProgress == \/ EngineAcquire \/ EngineAcquireRefused
                  \/ EngineEmitListening \/ EngineEmitError
                  \/ EngineStoreClosed \/ EngineEmitClosed \/ EngineRelease

Fairness == /\ WF_vars(EngineProgress)
            /\ SF_vars(EngineStops)
            /\ WF_vars(Publishing)
            /\ SF_vars(Publishing /\ Channel!Claim)
            /\ WF_vars(MainStep)
            /\ SF_vars(Dispatching)

Spec     == Init /\ [][Next]_vars
FairSpec == Spec /\ Fairness

-----------------------------------------------------------------------------
(* Properties *)

TypeOK == /\ Channel!TypeOK
          /\ state \in {"created", "listening", "closing", "closed"}
          /\ spawned \in BOOLEAN /\ acquired \in BOOLEAN
          /\ epc \in {"off", "acquire", "emit_listening", "run", "emit_error",
                      "store_closed", "emit_closed", "release", "done"}
          /\ refs \in 0 .. 2
          /\ shutdownRequested \in BOOLEAN
          /\ live \in 0 .. MaxConnections
          /\ mpc \in {"idle", "emitting", "close_swap", "close_request", "join",
                      "check_pending", "hook_stop", "hook_request",
                      "hook_join", "hook_destroy"}
          /\ hook \in BOOLEAN /\ exiting \in BOOLEAN
          /\ frees \in 0 .. 1

Freed == frees > 0

\* Nothing touches the instance once it is freed: the engine thread is gone,
\* no publication is under way, the renderer is past its last access to the
\* ring, and whatever is still queued is drained without an environment
\* (server.zig:6-8, server_cleanup.zig:7-9).
NoUseAfterFree ==
    Freed => /\ epc \in {"off", "done"} /\ ppc = "idle"
             /\ cpc \notin {"copy", "complete"}
             /\ tsfnq # <<>> => exiting

\* The hook is registered exactly as long as the instance lives, so neither a
\* finalized server is freed again at exit nor a live one leaked.
HookWhileAlive == hook = ~Freed

\* Once the instance is freed nobody holds the threadsafe function, which would
\* keep the event loop alive for ever.
NoReferenceLeak == Freed => refs = 0

Told == Channel!Dispatched

\* finalize frees nothing before JavaScript was told that the server closed,
\* even when it is called while the engine thread is between storing `closed`
\* and emitting server_closed.  Only a failed call or acquisition of the tsfn,
\* or the exit, excuses it.
ToldBeforeFree ==
    Freed /\ state = "closed" /\ ~exiting
        /\ abandoned = 0 /\ (epc # "off" => acquired) =>
        \E n \in 1 .. Len(Told) : Told[n].kind = "server_closed"

\* listening comes before any connection event, and server_closed is the last
\* event of all and comes once, whichever thread emitted it (server.zig:6,
\* server.zig:54-56).
EventOrder ==
    \A n \in 1 .. Len(Told) :
        /\ Told[n].kind \in {"connection_open", "connection_close"}
               => \E m \in 1 .. n - 1 : Told[m].kind = "listening"
        /\ Told[n].kind = "server_closed" => n = Len(Told)

\* The engine thread and the main thread never publish at the same time, which
\* is what a single-producer ring requires; and together they emit no more
\* shutdown events than the reserve holds.  This is the channel's own
\* specification, kept by every step of the lifecycle.
KeepsChannelProtocol == Channel!Spec

\* As the documentation of serverDroppedEvents has it, a full ring never costs
\* a close event (binding/server.ts:68-70).
CloseNeverRefused == "connection_close" \notin refused

ToldClosed == \E n \in 1 .. Len(Told) : Told[n].kind = "server_closed"

\* A close that was accepted, or an engine that failed, is reported to
\* JavaScript, however full the ring was, unless the environment exits or a
\* failure of the threadsafe function latched the channel.
CloseIsReported ==
    (state = "closing" \/ epc = "emit_error")
        ~> (ToldClosed \/ exiting \/ closing)

\* A join on the main thread always returns: the engine thread never waits for
\* the main thread to dispatch.
JoinReturns == (mpc \in {"join", "hook_join"}) ~> (mpc = "idle")

\* A worker that exits without finalize still frees its server.
ExitFrees == exiting ~> Freed
=============================================================================
