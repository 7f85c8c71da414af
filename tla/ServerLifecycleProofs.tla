----------------------- MODULE ServerLifecycleProofs -----------------------
(***************************************************************************)
(* Theorems about ServerLifecycle, for every number of connections, every  *)
(* ring that meets the compile-time bound, and any amount of traffic.      *)
(*                                                                         *)
(* The argument is compositional.  Every step of the lifecycle is a step   *)
(* of the channel or leaves it alone (ChannelStep), so the theorems of     *)
(* EventChannelProofs hold of the ring inside a server. What the lifecycle *)
(* adds is LifeInv, which needs from the channel only that `pending` is    *)
(* exact, and LineInv, on the queue of events that the ring implements.    *)
(***************************************************************************)
EXTENDS ServerLifecycle, TLAPS

\* The channel of the server with its theorems.
Bridge == INSTANCE EventChannelProofs

\* Where run_engine is tells which events were emitted.
EmittedInv ==
    /\ state = "created" =>
           /\ epc = "off" /\ ppc = "idle" /\ tsfnq = <<>>
           /\ emitted = 0 /\ shutdowns = 0
    /\ epc \in {"acquire", "emit_listening"} => emitted = 0 /\ shutdowns = 0
    /\ epc \in {"run", "emit_error"} =>
           emitted <= MaxTraffic + 1 /\ shutdowns = 0
    /\ epc \in {"store_closed", "emit_closed"} =>
           emitted <= MaxTraffic + 2 /\ shutdowns <= 1

\* Who publishes: the engine thread while it runs, or close before listen.
ThreadInv ==
    /\ epc \notin {"off", "done"} => spawned
    /\ epc \in {"off", "acquire"} => ~acquired
    /\ ppc # "idle" => epc \notin {"off", "done"} \/ mpc = "emitting"
    /\ mpc = "emitting" => epc = "off"

\* An operation of the main thread begins with the instance alive and outside
\* the renderer; the two that free it have joined the engine thread.
MainInv ==
    /\ mpc # "idle" => frees = 0 /\ cpc \in {"idle", "handler"}
    /\ mpc \in {"check_pending", "hook_destroy"} => ~spawned
    /\ mpc \in {"hook_stop", "hook_request", "hook_join", "hook_destroy"} =>
           exiting
    /\ frees \in 0 .. 1
    /\ hook <=> frees = 0

\* The instance holds one reference on the tsfn, a thread that acquired holds
\* another, and a freed instance is out of everybody's hands.
FreedInv ==
    /\ refs = (IF frees = 0 THEN 1 ELSE 0)
              + (IF acquired /\ epc # "done" THEN 1 ELSE 0)
    /\ NoUseAfterFree

SortInv ==
    /\ state \in {"created", "listening", "closing", "closed"}
    /\ spawned \in BOOLEAN /\ acquired \in BOOLEAN
    /\ epc \in {"off", "acquire", "emit_listening", "run", "emit_error",
                "store_closed", "emit_closed", "release", "done"}
    /\ shutdownRequested \in BOOLEAN
    /\ live \in 0 .. MaxConnections
    /\ mpc \in {"idle", "emitting", "close_swap", "close_request", "join",
                "check_pending", "hook_stop", "hook_request",
                "hook_join", "hook_destroy"}
    /\ hook \in BOOLEAN /\ exiting \in BOOLEAN

LifeInv    == SortInv /\ EmittedInv /\ ThreadInv /\ MainInv /\ FreedInv
ChannelInv == Bridge!IInv /\ Bridge!EventInv
IInv       == LifeInv /\ ChannelInv

-----------------------------------------------------------------------------
(* The channel inside the server *)

\* What the compile-time bounds of sizing.zig leave the channel to assume.
LEMMA ChannelAssumptions ==
    /\ Bridge!ReserveAssumption
    /\ Bridge!KindAssumption
    /\ Bridge!BoundAssumption
  BY ConnectionAssumption, CapacityAssumption, TrafficAssumption
  DEF Bridge!ReserveAssumption, Bridge!KindAssumption,
      Bridge!BoundAssumption, TerminalReserve, ShutdownReserve, MaxEmits,
      Kind, Bridge!EngineKind

\* The channel and the channel with its theorems are the same channel.
LEMMA SameChannel ==
    /\ Channel!Init <=> Bridge!Init
    /\ [Channel!Next]_(Channel!vars) <=> [Bridge!Next]_(Bridge!vars)
    /\ Bridge!TypeOK => Channel!TypeOK
    /\ Bridge!NoSlotReused => Channel!NoSlotReused
    /\ Channel!CallTsfn <=> Bridge!CallTsfn
    /\ Channel!TearDown <=> Bridge!TearDown
    /\ Channel!Dispatched = Bridge!Dispatched
<1>1. Channel!Init <=> Bridge!Init
  BY DEF Channel!Init, Bridge!Init, Channel!Index, Bridge!Index, Channel!NoEvent,
     Bridge!NoEvent
<1>2. [Channel!Next]_(Channel!vars) <=> [Bridge!Next]_(Bridge!vars)
  BY DEF Channel!Next, Bridge!Next, Channel!MayEmit, Bridge!MayEmit, Channel!Publish,
     Bridge!Publish, Channel!PublishLatched, Bridge!PublishLatched, Channel!CountEmit,
     Bridge!CountEmit, Channel!PublisherStep, Bridge!PublisherStep,
     Channel!ConsumerStep, Bridge!ConsumerStep, Channel!AcquireRefused,
     Bridge!AcquireRefused, Channel!Stop, Bridge!Stop, Channel!TearDown,
     Bridge!TearDown, Channel!LoadReserved, Bridge!LoadReserved, Channel!ClaimRefused,
     Bridge!ClaimRefused, Channel!ClaimAllowed, Bridge!ClaimAllowed, Channel!Claim,
     Bridge!Claim, Channel!ClaimRetried, Bridge!ClaimRetried, Channel!Fill, Bridge!Fill,
     Channel!CallTsfn, Bridge!CallTsfn, Channel!CallTsfnFails, Bridge!CallTsfnFails,
     Channel!LatchAfterFailure, Bridge!LatchAfterFailure, Channel!Take, Bridge!Take,
     Channel!Copy, Bridge!Copy, Channel!Complete, Bridge!Complete, Channel!CallHandler,
     Bridge!CallHandler, Channel!ringVars, Bridge!ringVars, Channel!pubVars,
     Bridge!pubVars, Channel!conVars, Bridge!conVars, Channel!vars, Bridge!vars,
     Channel!LimitOf, Bridge!LimitOf, Channel!ShutdownKind, Bridge!ShutdownKind,
     Channel!SlotOf, Bridge!SlotOf
<1>3. Bridge!TypeOK => Channel!TypeOK
  BY DEF Channel!TypeOK, Bridge!TypeOK, Channel!Index, Bridge!Index, Channel!Slot,
     Bridge!Slot, Channel!Event, Bridge!Event, Channel!EngineKind, Bridge!EngineKind
<1>4. Bridge!NoSlotReused => Channel!NoSlotReused
  BY DEF Channel!NoSlotReused, Bridge!NoSlotReused, Channel!Undispatched,
     Bridge!Undispatched, Channel!Held, Bridge!Held
<1>5. /\ Channel!CallTsfn <=> Bridge!CallTsfn
      /\ Channel!TearDown <=> Bridge!TearDown
      /\ Channel!Dispatched = Bridge!Dispatched
  BY DEF Channel!CallTsfn, Bridge!CallTsfn, Channel!TearDown, Bridge!TearDown,
     Channel!Dispatched, Bridge!Dispatched, Channel!ringVars, Bridge!ringVars,
     Channel!pubVars, Bridge!pubVars, Channel!conVars, Bridge!conVars, Channel!SlotOf,
     Bridge!SlotOf
<1> QED
  BY <1>1, <1>2, <1>3, <1>4, <1>5

\* The invariants of EventChannelProofs, kept by every
\* step of the channel.
LEMMA ChannelInvKept ==
    ChannelInv /\ [Channel!Next]_(Channel!vars) => ChannelInv'
<1>1. [Channel!Next]_(Channel!vars) => [Bridge!Next]_(Bridge!vars)
  BY SameChannel
<1>2. Bridge!IInv /\ [Bridge!Next]_(Bridge!vars) => Bridge!IInv'
  BY ChannelAssumptions, Bridge!Inductive
  DEF Bridge!Inductive, Bridge!ReserveAssumption, Bridge!KindAssumption,
      Bridge!BoundAssumption
<1>3. Bridge!IInv /\ Bridge!EventInv /\ [Bridge!Next]_(Bridge!vars)
          => Bridge!EventInv'
  BY ChannelAssumptions, Bridge!EventPreserved
  DEF Bridge!EventPreserved, Bridge!ReserveAssumption, Bridge!KindAssumption,
      Bridge!BoundAssumption
<1> QED
  BY <1>1, <1>2, <1>3 DEF ChannelInv

\* What LifeInv needs to know of the channel: no pending event means that no
\* address waits in the queue of the tsfn (server.zig:98-101).
LEMMA NothingPending ==
    ASSUME Bridge!IInv, ppc = "idle", Channel!Pending = 0
    PROVE  tsfnq = <<>>
<1>1. /\ reserved \in Nat /\ completed \in Nat /\ abandoned \in Nat
      /\ tsfnq \in Seq(Bridge!Index)
  BY DEF Bridge!IInv, Bridge!TypeOK
<1>2. CASE ~envAlive
  BY <1>2 DEF Bridge!IInv, Bridge!LedgerInv
<1>3. CASE envAlive
  <2>1. reserved = completed + Bridge!HeldCount + Len(tsfnq)
                   + Bridge!ClaimedCount + abandoned
    BY <1>3 DEF Bridge!IInv, Bridge!LedgerInv
  <2>2. Bridge!ClaimedCount = 0 /\ Bridge!HeldCount \in 0 .. 1
    BY DEF Bridge!ClaimedCount, Bridge!HeldCount
  <2>3. Len(tsfnq) = 0
    BY <1>1, <2>1, <2>2 DEF Channel!Pending
  <2> QED
    BY <1>1, <2>3
<1> QED
  BY <1>2, <1>3

-----------------------------------------------------------------------------
(* Every step of the lifecycle is a step of its channel *)

\* An emission the channel may make.
LEMMA EmitStep ==
    ASSUME NEW k \in Kind, Emit(k), ppc = "idle", emitted < MaxEmits,
           k \in {"engine_error", "server_closed"} => shutdowns < 2
    PROVE  Channel!Next
  BY DEF Emit, Channel!Next, Channel!MayEmit, Channel!ShutdownKind,
         ShutdownReserve

\* destroy closes the channel: for the channel this is a stop.
LEMMA DestroyStep ==
    ASSUME Destroy, cpc \in {"idle", "handler"}
    PROVE  Channel!Next
  BY DEF Destroy, Channel!Next, Channel!Stop, Channel!ringVars,
         Channel!pubVars, Channel!conVars

LEMMA SilentStep ==
    ASSUME UNCHANGED chVars
    PROVE  UNCHANGED Channel!vars
  BY DEF chVars, Channel!vars, Channel!ringVars, Channel!pubVars,
         Channel!conVars

\* No event is emitted beyond what the reserve of shutdown slots was sized
\* for, and the main thread closes the channel outside the renderer only.
LEMMA ChannelStep ==
    ASSUME LifeInv, Bridge!TypeOK, [Next]_vars
    PROVE  [Channel!Next]_(Channel!vars)
<1> USE DEF LifeInv
<1>1. emitted \in Nat /\ shutdowns \in Nat /\ MaxTraffic \in Nat
  BY TrafficAssumption DEF Bridge!TypeOK
<1>2. CASE EngineStep
  <2>1. CASE EngineAcquire \/ EngineStops \/ EngineFails
             \/ EngineStoreClosed \/ EngineRelease
    BY <2>1, SilentStep DEF EngineAcquire, EngineStops, EngineFails,
         EngineStoreClosed, EngineRelease
  <2>2. CASE EngineAcquireRefused
    BY <2>2 DEF EngineAcquireRefused, Channel!Next
  <2>3. CASE EngineEmitListening
    BY <1>1, <2>3, EmitStep
    DEF EngineEmitListening, Engine, EmittedInv, Kind, MaxEmits
  <2>4. CASE EngineConnectionOpen
    BY <1>1, <2>4, EmitStep DEF EngineConnectionOpen, Engine, Kind, MaxEmits
  <2>5. CASE EngineConnectionClose
    BY <1>1, <2>5, EmitStep DEF EngineConnectionClose, Engine, Kind, MaxEmits
  <2>6. CASE EngineEmitError
    BY <1>1, <2>6, EmitStep
    DEF EngineEmitError, Engine, EmittedInv, Kind, MaxEmits
  <2>7. CASE EngineEmitClosed
    BY <1>1, <2>7, EmitStep
    DEF EngineEmitClosed, Engine, EmittedInv, Kind, MaxEmits
  <2> QED
    BY <1>2, <2>1, <2>2, <2>3, <2>4, <2>5, <2>6, <2>7 DEF EngineStep
<1>3. CASE Publishing
  BY <1>3 DEF Publishing, Channel!Next
<1>4. CASE Call
  <2>1. CASE Listen \/ CloseListening \/ Finalize
    BY <2>1, SilentStep DEF Listen, CloseListening, Finalize
  <2>2. CASE ListenSpawnFails
    BY <2>2, DestroyStep DEF ListenSpawnFails, MayCall
  <2>3. CASE CloseCreated
    BY <1>1, <2>3, EmitStep
    DEF CloseCreated, EmittedInv, Kind, MaxEmits
  <2> QED
    BY <1>4, <2>1, <2>2, <2>3 DEF Call
<1>5. CASE MainStep
  <2>1. CASE CloseCreatedReturns \/ CloseSwap \/ CloseSwapFails
             \/ CloseRequest \/ FinalizeJoins \/ FinalizeRefused
             \/ HookRequest \/ HookJoins
    BY <2>1, SilentStep DEF CloseCreatedReturns, CloseSwap, CloseSwapFails,
         CloseRequest, FinalizeJoins, FinalizeRefused, HookRequest, HookJoins
  <2>2. CASE FinalizeFrees \/ HookFrees
    BY <2>2, DestroyStep DEF FinalizeFrees, HookFrees, MainInv
  <2>3. CASE HookStop \/ TearDown
    BY <2>3 DEF HookStop, TearDown, Channel!Next
  <2> QED
    BY <1>5, <2>1, <2>2, <2>3 DEF MainStep
<1>6. CASE Dispatching
  BY <1>6 DEF Dispatching, Channel!Next
<1>7. CASE BeginExit
  BY <1>7, SilentStep DEF BeginExit
<1>8. CASE UNCHANGED vars
  BY <1>8, SilentStep DEF vars
<1> QED
  BY <1>2, <1>3, <1>4, <1>5, <1>6, <1>7, <1>8 DEF Next

-----------------------------------------------------------------------------
(* The invariant of the lifecycle *)

LEMMA EmitEffect ==
    ASSUME NEW k, Emit(k)
    PROVE  /\ emitted' = emitted + 1
           /\ shutdowns' = IF k \in {"engine_error", "server_closed"}
                           THEN shutdowns + 1 ELSE shutdowns
           /\ ppc' \in {ppc, "load_reserved"}
           /\ tsfnq' = tsfnq /\ cpc' = cpc
  BY DEF Emit, Channel!Publish, Channel!PublishLatched, Channel!CountEmit,
         Channel!ShutdownKind, Channel!conVars

LEMMA PublisherEffect ==
    ASSUME Channel!PublisherStep
    PROVE  ppc # "idle" /\ UNCHANGED <<emitted, shutdowns, cpc>>
  BY DEF Channel!PublisherStep, Channel!LoadReserved, Channel!ClaimRefused,
         Channel!ClaimAllowed, Channel!Claim, Channel!ClaimRetried,
         Channel!Fill, Channel!CallTsfn, Channel!CallTsfnFails,
         Channel!LatchAfterFailure, Channel!conVars

\* The consumer finds nothing to hold in an empty queue.
LEMMA ConsumerEffect ==
    ASSUME Channel!ConsumerStep
    PROVE  /\ UNCHANGED <<ppc, emitted, shutdowns>>
           /\ tsfnq = <<>> =>
                  /\ tsfnq' = <<>>
                  /\ cpc \notin {"copy", "complete"} =>
                         cpc' \notin {"copy", "complete"}
  BY DEF Channel!ConsumerStep, Channel!Take, Channel!Copy, Channel!Complete,
         Channel!CallHandler, Channel!pubVars

LEMMA MainEffect ==
    ASSUME Channel!AcquireRefused \/ Channel!Stop \/ Channel!TearDown
    PROVE  /\ UNCHANGED <<ppc, emitted, shutdowns, cpc>>
           /\ tsfnq' = tsfnq \/ tsfnq' = <<>>
  BY DEF Channel!AcquireRefused, Channel!Stop, Channel!TearDown,
         Channel!pubVars, Channel!conVars

\* The reference of the instance is the one that goes.
LEMMA DestroyEffect ==
    ASSUME Destroy, frees = 0, refs = (IF frees = 0 THEN 1 ELSE 0)
                        + (IF acquired /\ epc # "done" THEN 1 ELSE 0)
    PROVE  /\ frees' = 1
           /\ refs' = IF acquired /\ epc # "done" THEN 1 ELSE 0
           /\ UNCHANGED <<ppc, emitted, shutdowns, cpc, tsfnq>>
  BY DEF Destroy

LEMMA LifeInit == Init => LifeInv
<1> SUFFICES ASSUME Init PROVE LifeInv
  OBVIOUS
<1>1. SortInv
  <2>1. 0 \in 0 .. MaxConnections
    BY ConnectionAssumption
  <2> QED
    BY <2>1, Zenon DEF Init, SortInv
<1>2. EmittedInv /\ ThreadInv /\ MainInv
  BY DEF Init, Channel!Init, EmittedInv, ThreadInv, MainInv
<1>3. FreedInv
  BY DEF Init, FreedInv, NoUseAfterFree, Freed
<1> QED
  BY <1>1, <1>2, <1>3 DEF LifeInv

\* One step per operation; the engine thread first.
LEMMA EngineKept ==
    ASSUME LifeInv, Bridge!TypeOK, EngineStep
    PROVE  LifeInv'
<1> USE ConnectionAssumption, TrafficAssumption
    DEF LifeInv, SortInv, EmittedInv, ThreadInv, MainInv, FreedInv,
        NoUseAfterFree, Freed, Engine, mainVars, chVars
<1>1. emitted \in Nat /\ shutdowns \in Nat
  BY DEF Bridge!TypeOK
<1>2. CASE EngineAcquire
  BY <1>1, <1>2 DEF EngineAcquire
<1>3. CASE EngineAcquireRefused
  BY <1>1, <1>3, MainEffect DEF EngineAcquireRefused
<1>4. CASE EngineEmitListening
  BY <1>1, <1>4, EmitEffect DEF EngineEmitListening
<1>5. CASE EngineConnectionOpen
  BY <1>1, <1>5, EmitEffect DEF EngineConnectionOpen
<1>6. CASE EngineConnectionClose
  BY <1>1, <1>6, EmitEffect DEF EngineConnectionClose
<1>7. CASE EngineStops
  BY <1>1, <1>7 DEF EngineStops
<1>8. CASE EngineFails
  BY <1>1, <1>8 DEF EngineFails
<1>9. CASE EngineEmitError
  BY <1>1, <1>9, EmitEffect DEF EngineEmitError
<1>10. CASE EngineStoreClosed
  BY <1>1, <1>10 DEF EngineStoreClosed
<1>11. CASE EngineEmitClosed
  BY <1>1, <1>11, EmitEffect DEF EngineEmitClosed
<1>12. CASE EngineRelease
  BY <1>1, <1>12 DEF EngineRelease
<1> QED
  BY <1>2, <1>3, <1>4, <1>5, <1>6, <1>7, <1>8, <1>9, <1>10, <1>11, <1>12
  DEF EngineStep

\* The two threads in the channel, and the exit of the environment.
LEMMA TrafficKept ==
    ASSUME LifeInv, Bridge!TypeOK, Publishing \/ Dispatching \/ BeginExit
    PROVE  LifeInv'
<1> USE DEF LifeInv, SortInv, EmittedInv, ThreadInv, MainInv, FreedInv,
            NoUseAfterFree, Freed, engVars, mainVars, chVars
<1>1. CASE Publishing
  BY <1>1, PublisherEffect DEF Publishing
<1>2. CASE Dispatching
  BY <1>2, ConsumerEffect DEF Dispatching
<1>3. CASE BeginExit
  BY <1>3 DEF BeginExit
<1> QED
  BY <1>1, <1>2, <1>3

\* What JavaScript calls.
LEMMA CallKept ==
    ASSUME LifeInv, Bridge!TypeOK, Call
    PROVE  LifeInv'
<1> USE DEF LifeInv, SortInv, EmittedInv, ThreadInv, MainInv, FreedInv,
            NoUseAfterFree, Freed, engVars, chVars, MayCall
<1>1. CASE Listen
  BY <1>1 DEF Listen
<1>2. CASE ListenSpawnFails
  <2>1. frees = 0 /\ epc = "off" /\ ~acquired /\ ppc = "idle"
        /\ mpc = "idle" /\ cpc \in {"idle", "handler"} /\ tsfnq = <<>>
    BY <1>2 DEF ListenSpawnFails
  <2>2. /\ frees' = 1 /\ refs' = 0
        /\ UNCHANGED <<ppc, emitted, shutdowns, cpc, tsfnq>>
    BY <1>2, <2>1, DestroyEffect DEF ListenSpawnFails
  <2>3. SortInv'
    BY <1>2, <2>1, <2>2 DEF ListenSpawnFails
  <2>4. MainInv'
    BY <1>2, <2>1, <2>2 DEF ListenSpawnFails
  <2>5. EmittedInv' /\ ThreadInv'
    BY <1>2, <2>1, <2>2 DEF ListenSpawnFails
  <2>6. FreedInv'
    BY <1>2, <2>1, <2>2 DEF ListenSpawnFails
  <2> QED
    BY <2>3, <2>4, <2>5, <2>6
<1>3. CASE CloseCreated
  BY <1>3, EmitEffect DEF CloseCreated
<1>4. CASE CloseListening
  BY <1>4 DEF CloseListening
<1>5. CASE Finalize
  BY <1>5 DEF Finalize
<1> QED
  BY <1>1, <1>2, <1>3, <1>4, <1>5 DEF Call

\* What the main thread does until the operation returns.
LEMMA MainKept ==
    ASSUME LifeInv, Bridge!IInv, MainStep
    PROVE  LifeInv'
<1> USE DEF LifeInv, SortInv, EmittedInv, ThreadInv, MainInv, FreedInv,
            NoUseAfterFree, Freed, engVars, mainVars, chVars
<1>1. CASE CloseCreatedReturns
  BY <1>1 DEF CloseCreatedReturns
<1>2. CASE CloseSwap
  BY <1>2 DEF CloseSwap
<1>3. CASE CloseSwapFails
  BY <1>3 DEF CloseSwapFails
<1>4. CASE CloseRequest
  BY <1>4 DEF CloseRequest
<1>5. CASE FinalizeJoins
  BY <1>5 DEF FinalizeJoins, Joined
<1>6. CASE FinalizeRefused
  BY <1>6 DEF FinalizeRefused
<1>7. CASE FinalizeFrees
  <2>1. ppc = "idle"
    BY <1>7 DEF FinalizeFrees
  <2>2. tsfnq = <<>>
    BY <1>7, <2>1, NothingPending DEF FinalizeFrees
  <2>3. /\ frees' = 1
        /\ refs' = IF acquired /\ epc # "done" THEN 1 ELSE 0
        /\ UNCHANGED <<ppc, emitted, shutdowns, cpc, tsfnq>>
    BY <1>7, DestroyEffect DEF FinalizeFrees
  <2>4. SortInv'
    BY <1>7, <2>1, <2>2, <2>3 DEF FinalizeFrees
  <2>5. MainInv'
    BY <1>7, <2>1, <2>2, <2>3 DEF FinalizeFrees
  <2>6. EmittedInv' /\ ThreadInv'
    BY <1>7, <2>1, <2>2, <2>3 DEF FinalizeFrees
  <2>7. FreedInv'
    BY <1>7, <2>1, <2>2, <2>3 DEF FinalizeFrees
  <2> QED
    BY <2>4, <2>5, <2>6, <2>7
<1>8. CASE HookStop
  BY <1>8, MainEffect DEF HookStop
<1>9. CASE HookRequest
  BY <1>9 DEF HookRequest
<1>10. CASE HookJoins
  BY <1>10 DEF HookJoins, Joined
<1>11. CASE HookFrees
  <2>1. /\ frees' = 1
        /\ refs' = IF acquired /\ epc # "done" THEN 1 ELSE 0
        /\ UNCHANGED <<ppc, emitted, shutdowns, cpc, tsfnq>>
    BY <1>11, DestroyEffect DEF HookFrees
  <2>2. SortInv'
    BY <1>11, <2>1 DEF HookFrees
  <2>3. MainInv'
    BY <1>11, <2>1 DEF HookFrees
  <2>4. EmittedInv' /\ ThreadInv'
    BY <1>11, <2>1 DEF HookFrees
  <2>5. FreedInv'
    BY <1>11, <2>1 DEF HookFrees
  <2> QED
    BY <2>2, <2>3, <2>4, <2>5
<1>12. CASE TearDown
  BY <1>12, MainEffect DEF TearDown
<1> QED
  BY <1>1, <1>2, <1>3, <1>4, <1>5, <1>6, <1>7, <1>8, <1>9, <1>10, <1>11, <1>12
  DEF MainStep

LEMMA Inductive ==
    ASSUME IInv, [Next]_vars
    PROVE  IInv'
<1>1. Bridge!IInv /\ Bridge!TypeOK
  BY DEF IInv, ChannelInv, Bridge!IInv
<1>2. ChannelInv'
  BY <1>1, ChannelStep, ChannelInvKept DEF IInv
<1>3. CASE EngineStep
  BY <1>1, <1>2, <1>3, EngineKept DEF IInv
<1>4. CASE Publishing \/ Dispatching \/ BeginExit
  BY <1>1, <1>2, <1>4, TrafficKept DEF IInv
<1>5. CASE Call
  BY <1>1, <1>2, <1>5, CallKept DEF IInv
<1>6. CASE MainStep
  BY <1>1, <1>2, <1>6, MainKept DEF IInv
<1>7. CASE UNCHANGED vars
  BY <1>2, <1>7 DEF IInv, LifeInv, SortInv, EmittedInv, ThreadInv, MainInv,
      FreedInv, NoUseAfterFree, Freed, vars, engVars, mainVars, chVars
<1> QED
  BY <1>3, <1>4, <1>5, <1>6, <1>7 DEF Next

LEMMA InvInit == Init => IInv
<1>1. Init => Bridge!Init
  BY SameChannel DEF Init
<1>2. Bridge!Init => Bridge!IInv
  BY ChannelAssumptions, Bridge!InvInit
  DEF Bridge!InvInit, Bridge!ReserveAssumption, Bridge!KindAssumption,
      Bridge!BoundAssumption
<1>3. Bridge!Init => Bridge!EventInv
  BY ChannelAssumptions, Bridge!EventInit
  DEF Bridge!EventInit, Bridge!ReserveAssumption, Bridge!KindAssumption,
      Bridge!BoundAssumption
<1> QED
  BY <1>1, <1>2, <1>3, LifeInit DEF IInv, ChannelInv

LEMMA Invariant == Spec => []IInv
<1>1. IInv /\ [Next]_vars => IInv'
  BY Inductive
<1> QED
  BY <1>1, InvInit, PTL DEF Spec

-----------------------------------------------------------------------------
(* The order of the events.  The line holds every event accepted and not
   discarded: what JavaScript was told, then what waits.  It grows at its end
   only, when the engine's publication queues its address. *)

Line == Bridge!Line

Empty      == Line = <<>>
NoClosed   == \A n \in 1 .. Len(Line) : Line[n].kind # "server_closed"
OnlyClosed == \A n \in 1 .. Len(Line) : Line[n].kind = "server_closed"
ClosedLast == \A n \in 1 .. Len(Line) :
                  Line[n].kind = "server_closed" => n = Len(Line)
Headed     == Line # <<>> => Line[1].kind = "listening"

\* The engine thread announces itself first and ends with server_closed; close
\* before listen emits server_closed alone.
OrderInv ==
    /\ ClosedLast
    /\ epc = "off" => /\ OnlyClosed
                      /\ ppc # "idle" => pevent.kind = "server_closed"
    /\ epc # "off" => Headed
    /\ ppc # "idle" => NoClosed
    /\ state = "created" \/ epc \notin {"off", "release", "done"} =>
           /\ NoClosed
           /\ ppc # "idle" => pevent.kind # "server_closed"

\* `listening` finds the ring empty, so that it is not refused; when it is not
\* queued, nothing after it is.
StartInv ==
    /\ state = "created" \/ epc \in {"acquire", "emit_listening"} =>
           Empty /\ reserved = 0 /\ ppc = "idle"
    /\ /\ ppc \in {"load_reserved", "load_completed", "swap"}
       /\ pevent.kind = "listening"
       => reserved = 0
    /\ /\ ppc = "idle" /\ Empty /\ envAlive
       /\ epc \notin {"off", "acquire", "emit_listening"}
       => closing
    /\ ppc \notin {"idle", "latch"} /\ Empty /\ envAlive /\ epc # "off" =>
           pevent.kind = "listening"

\* What excuses a server that closed without a word.
Excused == \/ exiting
           \/ abandoned > 0
           \/ epc \notin {"off", "acquire"} /\ ~acquired

\* server_closed was emitted.
Ended == epc \in {"release", "done"} \/ (epc = "off" /\ state = "closed")

EndInv ==
    /\ ~envAlive => exiting
    /\ ppc = "latch" => abandoned > 0
    /\ closing => Excused \/ frees > 0
    /\ Ended => \/ ~NoClosed
                \/ ppc # "idle" /\ pevent.kind = "server_closed"
                \/ Excused

LineInv == OrderInv /\ StartInv /\ EndInv

LEMMA LineType ==
    ASSUME IInv
    PROVE  Line \in Seq(Bridge!Event) /\ Told \in Seq(Bridge!Event)
<1>1. Bridge!TypeOK
  BY DEF IInv, ChannelInv, Bridge!IInv
<1>2. Bridge!Line \in Seq(Bridge!Event)
      /\ Bridge!Dispatched \in Seq(Bridge!Event)
  BY <1>1, ChannelAssumptions, Bridge!LineType
  DEF Bridge!LineType, Bridge!ReserveAssumption, Bridge!KindAssumption,
      Bridge!BoundAssumption
<1> QED
  BY <1>2, SameChannel DEF Line, Told

\* What JavaScript was told is the front of the line.
LEMMA ToldIsFront ==
    ASSUME IInv
    PROVE  /\ Len(Told) \in Nat /\ Len(Line) \in Nat
           /\ Len(Told) <= Len(Line)
           /\ \A n \in 1 .. Len(Told) : Told[n] = Line[n]
<1>1. Bridge!TypeOK
  BY DEF IInv, ChannelInv, Bridge!IInv
<1>2. /\ Bridge!Dispatched \in Seq(Bridge!Event)
      /\ Bridge!QueuedEvents \in Seq(Bridge!Event)
  BY <1>1, ChannelAssumptions, Bridge!LineType
  DEF Bridge!LineType, Bridge!ReserveAssumption, Bridge!KindAssumption,
      Bridge!BoundAssumption
<1>3. PICK q \in Seq(Bridge!Event) : Line = Bridge!Dispatched \o q
  <2> DEFINE q == IF envAlive THEN Bridge!QueuedEvents ELSE <<>>
  <2>1. q \in Seq(Bridge!Event)
    BY <1>2
  <2>2. Line = Bridge!Dispatched \o q
    BY DEF Line, Bridge!Line
  <2> QED
    BY <2>1, <2>2
<1>4. Told = Bridge!Dispatched
  BY SameChannel DEF Told
<1> QED
  BY <1>2, <1>3, <1>4

LEMMA LineStep ==
    ASSUME IInv, [Next]_vars
    PROVE  /\ Channel!CallTsfn => Line' = Append(Line, pevent)
           /\ Channel!TearDown => Line' = Told
           /\ ~Channel!CallTsfn /\ ~Channel!TearDown => Line' = Line
<1>1. Bridge!IInv /\ Bridge!EventInv /\ [Bridge!Next]_(Bridge!vars)
  BY ChannelStep, SameChannel DEF IInv, ChannelInv, Bridge!IInv
<1> QED
  BY <1>1, SameChannel, ChannelAssumptions, Bridge!LineStep
  DEF Bridge!LineStep, Bridge!ReserveAssumption, Bridge!KindAssumption,
      Bridge!BoundAssumption, Line, Told

\* A step that ends no publication and tears nothing down.
LEMMA LineKept ==
    ASSUME IInv, [Next]_vars, ppc' # "idle" \/ ppc = "idle",
           envAlive' = envAlive
    PROVE  Line' = Line
<1>1. ~Channel!CallTsfn /\ ~Channel!TearDown
  BY DEF Channel!CallTsfn, Channel!TearDown
<1> QED
  BY <1>1, LineStep

LEMMA SameLine ==
    ASSUME Line' = Line
    PROVE  /\ Empty' = Empty /\ NoClosed' = NoClosed
           /\ OnlyClosed' = OnlyClosed /\ ClosedLast' = ClosedLast
           /\ Headed' = Headed
  BY DEF Empty, NoClosed, OnlyClosed, ClosedLast, Headed

LEMMA EmptyLine ==
    ASSUME Empty
    PROVE  NoClosed /\ OnlyClosed /\ ClosedLast /\ Headed
  BY DEF Empty, NoClosed, OnlyClosed, ClosedLast, Headed

LEMMA LongerLine ==
    ASSUME Line \in Seq(Bridge!Event), pevent \in Bridge!Event,
           Line' = Append(Line, pevent)
    PROVE  /\ ~Empty'
           /\ NoClosed' <=> NoClosed /\ pevent.kind # "server_closed"
           /\ NoClosed => ClosedLast'
           /\ OnlyClosed /\ pevent.kind = "server_closed" => OnlyClosed'
           /\ (IF Empty THEN pevent.kind = "listening" ELSE Headed) => Headed'
<1>1. /\ Len(Line') = Len(Line) + 1 /\ Len(Line) \in Nat
      /\ \A n \in 1 .. Len(Line) : Line'[n] = Line[n]
      /\ Line'[Len(Line) + 1] = pevent
  OBVIOUS
<1>2. Line' # <<>> /\ (Line = <<>> <=> Len(Line) = 0)
  OBVIOUS
<1> QED
  BY <1>1, <1>2 DEF Empty, NoClosed, OnlyClosed, ClosedLast, Headed

LEMMA ShorterLine ==
    ASSUME IInv, Line' = Told
    PROVE  /\ Empty => Empty'
           /\ NoClosed => NoClosed'
           /\ OnlyClosed => OnlyClosed'
           /\ ClosedLast => ClosedLast'
           /\ Headed => Headed'
<1>1. /\ Len(Told) \in Nat /\ Len(Line) \in Nat /\ Len(Told) <= Len(Line)
      /\ \A n \in 1 .. Len(Told) : Told[n] = Line[n]
  BY ToldIsFront
<1>2. /\ Line = <<>> <=> Len(Line) = 0
      /\ Told = <<>> <=> Len(Told) = 0
  BY LineType
<1> QED
  BY <1>1, <1>2 DEF Empty, NoClosed, OnlyClosed, ClosedLast, Headed

LEMMA LineInit == Init => LineInv
<1> SUFFICES ASSUME Init PROVE LineInv
  OBVIOUS
<1>1. Bridge!Dispatched = <<>> /\ Bridge!QueuedEvents = <<>>
  BY DEF Init, Channel!Init, Bridge!Dispatched, Bridge!QueuedEvents,
         Bridge!Undispatched, Bridge!Held
<1>2. Empty
  BY <1>1 DEF Empty, Line, Bridge!Line
<1> QED
  BY <1>2, EmptyLine
  DEF Init, Channel!Init, LineInv, OrderInv, StartInv, EndInv, Ended

\* Emissions: by run_engine, and by close before listen.
LEMMA EmitDetail ==
    ASSUME NEW k, Emit(k), ppc = "idle"
    PROVE  /\ UNCHANGED <<closing, envAlive, reserved, abandoned>>
           /\ \/ closing /\ ppc' = "idle"
              \/ ~closing /\ ppc' = "load_reserved" /\ pevent'.kind = k
  BY DEF Emit, Channel!Publish, Channel!PublishLatched, Channel!ringVars

LEMMA EmitKeepsLine ==
    ASSUME IInv, LineInv,
           \/ EngineEmitListening \/ EngineConnectionOpen
           \/ EngineConnectionClose \/ EngineEmitError \/ EngineEmitClosed
           \/ CloseCreated
    PROVE  LineInv'
<1>1. PICK k \in Kind :
          /\ Emit(k) /\ ppc = "idle"
          /\ UNCHANGED <<acquired, exiting, frees>>
          /\ \/ /\ k = "listening" /\ epc = "emit_listening" /\ epc' = "run"
                /\ state' = state
             \/ /\ k \in {"connection_open", "connection_close"}
                /\ epc = "run" /\ epc' = "run" /\ state' = state
             \/ /\ k = "engine_error" /\ epc = "emit_error"
                /\ epc' = "store_closed" /\ state' = state
             \/ /\ k = "server_closed" /\ epc = "emit_closed"
                /\ epc' = "release" /\ state' = state
             \/ /\ k = "server_closed" /\ state = "created" /\ epc' = epc
                /\ state' = "closed" /\ frees = 0
  <2> USE DEF Engine, MayCall, mainVars, engVars, Kind
  <2>1. CASE EngineEmitListening
    <3>1. Emit("listening")
      BY <2>1 DEF EngineEmitListening
    <3> QED
      BY <2>1, <3>1 DEF EngineEmitListening
  <2>2. CASE EngineConnectionOpen
    <3>1. Emit("connection_open")
      BY <2>2 DEF EngineConnectionOpen
    <3> QED
      BY <2>2, <3>1 DEF EngineConnectionOpen
  <2>3. CASE EngineConnectionClose
    <3>1. Emit("connection_close")
      BY <2>3 DEF EngineConnectionClose
    <3> QED
      BY <2>3, <3>1 DEF EngineConnectionClose
  <2>4. CASE EngineEmitError
    <3>1. Emit("engine_error")
      BY <2>4 DEF EngineEmitError
    <3> QED
      BY <2>4, <3>1 DEF EngineEmitError
  <2>5. CASE EngineEmitClosed
    <3>1. Emit("server_closed")
      BY <2>5 DEF EngineEmitClosed
    <3> QED
      BY <2>5, <3>1 DEF EngineEmitClosed
  <2>6. CASE CloseCreated
    <3>1. Emit("server_closed") /\ ppc = "idle"
      BY <2>6 DEF CloseCreated, IInv, LifeInv, EmittedInv
    <3> QED
      BY <2>6, <3>1 DEF CloseCreated
  <2> QED
    BY <2>1, <2>2, <2>3, <2>4, <2>5, <2>6
<1>2. /\ UNCHANGED <<closing, envAlive, reserved, abandoned>>
      /\ \/ closing /\ ppc' = "idle"
         \/ ~closing /\ ppc' = "load_reserved" /\ pevent'.kind = k
  BY <1>1, EmitDetail
<1>3. Line' = Line
  BY <1>1, <1>2, LineKept DEF Next, EngineStep, Call
<1>4. /\ state = "created" => epc = "off"
      /\ epc = "emit_closed" => frees = 0
  BY DEF IInv, LifeInv, EmittedInv, FreedInv, NoUseAfterFree, Freed, MainInv
<1>5. OrderInv'
  BY <1>1, <1>2, <1>3, <1>4, SameLine, EmptyLine
  DEF LineInv, OrderInv, StartInv
<1>6. StartInv'
  BY <1>1, <1>2, <1>3, <1>4, SameLine DEF LineInv, StartInv
<1>7. EndInv'
  BY <1>1, <1>2, <1>3, <1>4, SameLine
  DEF LineInv, EndInv, Ended, Excused
<1> QED
  BY <1>5, <1>6, <1>7 DEF LineInv

\* A shutdown event is never refused, and `listening` finds the ring empty.
LEMMA NotRefused ==
    ASSUME IInv, LineInv, Publishing, Channel!ClaimRefused
    PROVE  pevent.kind \notin {"listening", "server_closed"}
<1>1. pevent.kind # "server_closed"
  <2>1. Bridge!IInv'
    BY Inductive DEF IInv, ChannelInv, Next
  <2> QED
    BY <2>1 DEF Bridge!IInv, Bridge!ReserveInv, Bridge!ShutdownKind,
                Channel!ClaimRefused
<1>2. ASSUME pevent.kind = "listening" PROVE FALSE
  <2>1. reserved = 0 /\ pseq = reserved /\ completed \in Nat
    BY <1>2 DEF IInv, ChannelInv, LineInv, StartInv, Bridge!IInv,
                Bridge!PublisherInv, Bridge!TypeOK, Channel!ClaimRefused
  <2>2. Channel!LimitOf("listening") = Capacity - TerminalReserve
    BY DEF Channel!LimitOf, Channel!ShutdownKind
  <2>3. Capacity - TerminalReserve > 0 /\ Capacity - TerminalReserve \in Int
    BY ConnectionAssumption, CapacityAssumption
    DEF TerminalReserve, ShutdownReserve
  <2>4. pseq - completed >= Capacity - TerminalReserve
    BY <1>2, <2>2 DEF Channel!ClaimRefused
  <2> QED
    BY <2>1, <2>3, <2>4
<1> QED
  BY <1>1, <1>2

LEMMA PublishingKeepsLine ==
    ASSUME IInv, LineInv, Publishing
    PROVE  LineInv'
<1> USE DEF LineInv, Channel!ringVars, Channel!pubVars, Channel!conVars
<1>0. /\ UNCHANGED <<state, epc, acquired, exiting, frees>>
      /\ ppc # "idle" => frees = 0
      /\ abandoned \in Nat /\ pevent \in Bridge!Event
      /\ Channel!PublisherStep
  BY DEF Publishing, engVars, mainVars, IInv, LifeInv, FreedInv, MainInv,
         NoUseAfterFree, Freed, ChannelInv, Bridge!IInv, Bridge!TypeOK
<1>1. CASE Channel!ClaimRefused
  <2>1. pevent.kind \notin {"listening", "server_closed"}
    BY <1>1, NotRefused
  <2>2. /\ ppc = "load_completed" /\ ppc' = "idle"
        /\ UNCHANGED <<closing, envAlive, reserved, abandoned, pevent>>
    BY <1>1 DEF Channel!ClaimRefused
  <2>3. Line' = Line
    BY <1>1, <2>2, LineStep DEF Next, Channel!CallTsfn, Channel!TearDown
  <2> QED
    BY <1>0, <2>1, <2>2, <2>3, SameLine
    DEF OrderInv, StartInv, EndInv, Ended, Excused
<1>2. CASE Channel!CallTsfn
  <2>1. /\ ppc = "call" /\ ppc' = "idle"
        /\ UNCHANGED <<closing, envAlive, reserved, abandoned, pevent>>
    BY <1>2 DEF Channel!CallTsfn
  <2>2. Line' = Append(Line, pevent)
    BY <1>2, LineStep DEF Next
  <2>3. envAlive
    BY <1>2 DEF Channel!CallTsfn
  <2>4. /\ ~Empty'
        /\ NoClosed' <=> NoClosed /\ pevent.kind # "server_closed"
        /\ NoClosed => ClosedLast'
        /\ OnlyClosed /\ pevent.kind = "server_closed" => OnlyClosed'
        /\ (IF Empty THEN pevent.kind = "listening" ELSE Headed) => Headed'
    BY <1>0, <2>2, LineType, LongerLine
  <2>5. OrderInv'
    BY <1>0, <2>1, <2>3, <2>4 DEF OrderInv, StartInv
  <2>6. StartInv'
    BY <1>0, <2>1, <2>4 DEF StartInv
  <2>7. EndInv'
    BY <1>0, <2>1, <2>3, <2>4 DEF EndInv, Ended, Excused
  <2> QED
    BY <2>5, <2>6, <2>7
<1>3. CASE Channel!CallTsfnFails \/ Channel!LatchAfterFailure
  <2>1. /\ UNCHANGED <<envAlive, reserved, pevent>>
        /\ \/ /\ ppc = "call" /\ ppc' = "latch" /\ abandoned' = abandoned + 1
              /\ closing' = closing
           \/ /\ ppc = "latch" /\ ppc' = "idle" /\ abandoned' = abandoned
              /\ closing' = TRUE
    BY <1>3 DEF Channel!CallTsfnFails, Channel!LatchAfterFailure
  <2>2. Line' = Line
    BY <1>3, <2>1, LineStep DEF Next, Channel!CallTsfn, Channel!TearDown,
       Channel!CallTsfnFails, Channel!LatchAfterFailure
  <2>3. OrderInv' /\ StartInv'
    BY <1>0, <2>1, <2>2, SameLine DEF OrderInv, StartInv
  <2>4. EndInv'
    BY <1>0, <2>1, <2>2, SameLine DEF EndInv, Ended, Excused
  <2> QED
    BY <2>3, <2>4
<1>4. CASE \/ Channel!LoadReserved \/ Channel!ClaimAllowed \/ Channel!Claim
           \/ Channel!ClaimRetried \/ Channel!Fill
  <2>1. /\ UNCHANGED <<closing, envAlive, abandoned, pevent>>
        /\ ppc \notin {"idle", "latch"} /\ ppc' \notin {"idle", "latch"}
        /\ ppc' \in {"load_reserved", "load_completed", "swap"} =>
               /\ ppc \in {"load_reserved", "load_completed", "swap"}
               /\ reserved' = reserved
    BY <1>4 DEF Channel!LoadReserved, Channel!ClaimAllowed, Channel!Claim,
       Channel!ClaimRetried, Channel!Fill
  <2>2. Line' = Line
    BY <2>1, LineKept DEF Next
  <2>3. state # "created" /\ epc \notin {"acquire", "emit_listening"}
    BY <2>1 DEF StartInv
  <2>4. OrderInv' /\ StartInv'
    BY <1>0, <2>1, <2>2, <2>3, SameLine DEF OrderInv, StartInv
  <2>5. EndInv'
    BY <1>0, <2>1, <2>2, SameLine DEF EndInv, Ended, Excused
  <2> QED
    BY <2>4, <2>5
<1> QED
  BY <1>0, <1>1, <1>2, <1>3, <1>4 DEF Channel!PublisherStep

\* The steps in which the publisher does nothing and the channel stays up.
Still == UNCHANGED <<ppc, pevent, reserved, abandoned, envAlive>>

LEMMA StillLine ==
    ASSUME IInv, [Next]_vars, Still
    PROVE  Line' = Line
  BY LineKept DEF Still

LEMMA EngineKeepsLine ==
    ASSUME IInv, LineInv,
           \/ EngineAcquire \/ EngineAcquireRefused \/ EngineStops
           \/ EngineFails \/ EngineStoreClosed \/ EngineRelease
    PROVE  LineInv'
<1>1. /\ Still /\ UNCHANGED <<exiting, frees>> /\ ppc = "idle"
      /\ \/ /\ epc = "acquire" /\ epc' = "emit_listening" /\ state' = state
            /\ \/ acquired' = TRUE /\ closing' = closing
               \/ acquired' = acquired /\ closing' = TRUE
         \/ /\ epc = "run" /\ epc' \in {"store_closed", "emit_error"}
            /\ UNCHANGED <<state, acquired, closing>>
         \/ /\ epc = "store_closed" /\ epc' = "emit_closed"
            /\ state' = "closed" /\ UNCHANGED <<acquired, closing>>
         \/ /\ epc = "release" /\ epc' = "done"
            /\ UNCHANGED <<state, acquired, closing>>
  BY DEF EngineAcquire, EngineAcquireRefused, EngineStops, EngineFails,
         EngineStoreClosed, EngineRelease, Engine, Channel!AcquireRefused,
         Channel!ringVars, Channel!pubVars, chVars, mainVars, Still
<1>2. Line' = Line
  BY <1>1, StillLine DEF Next, EngineStep
<1>3. epc = "acquire" => ~acquired
  BY DEF IInv, LifeInv, ThreadInv
<1>4. state = "created" => epc = "off"
  BY DEF IInv, LifeInv, EmittedInv
<1>5. OrderInv'
  BY <1>1, <1>2, <1>4, SameLine DEF LineInv, OrderInv, Still
<1>6. StartInv'
  BY <1>1, <1>2, <1>4, SameLine DEF LineInv, StartInv, Still
<1>7. EndInv'
  BY <1>1, <1>2, <1>3, SameLine DEF LineInv, EndInv, Ended, Excused, Still
<1> QED
  BY <1>5, <1>6, <1>7 DEF LineInv

\* Operations that neither emit nor end the environment: they may start the
\* engine thread, move the state on, or destroy.
LEMMA MainKeepsLine ==
    ASSUME IInv, LineInv, [Next]_vars, Still, acquired' = acquired,
           exiting => exiting',
           \/ closing' = closing /\ frees' = frees
           \/ closing' = TRUE /\ frees' = 1
           \/ closing' = TRUE /\ frees' = frees /\ exiting,
           \/ epc' = epc /\ state' = state
           \/ /\ state = "created" /\ state' = "listening"
              /\ epc' \in {epc, "acquire"}
           \/ epc' = epc /\ state = "listening" /\ state' = "closing"
    PROVE  LineInv'
<1>1. Line' = Line
  BY StillLine
<1>2. /\ state = "created" => epc = "off" /\ ppc = "idle"
      /\ epc = "off" => ~acquired
      /\ frees \in 0 .. 1
  BY DEF IInv, LifeInv, EmittedInv, ThreadInv, MainInv
<1>3. OrderInv'
  BY <1>1, <1>2, SameLine, EmptyLine DEF LineInv, OrderInv, StartInv, Still
<1>4. StartInv'
  BY <1>1, <1>2, SameLine DEF LineInv, StartInv, Still
<1>5. EndInv'
  BY <1>1, <1>2, SameLine DEF LineInv, EndInv, Ended, Excused, Still
<1> QED
  BY <1>3, <1>4, <1>5 DEF LineInv

LEMMA TearDownKeepsLine ==
    ASSUME IInv, LineInv, TearDown
    PROVE  LineInv'
<1>1. /\ UNCHANGED <<state, epc, acquired, frees, exiting, closing, ppc,
                     pevent, reserved, abandoned>>
      /\ exiting /\ ~envAlive'
  BY DEF TearDown, Channel!TearDown, Channel!ringVars, Channel!pubVars,
         engVars, mainVars
<1>2. Line' = Told
  BY LineStep DEF TearDown, Next, MainStep
<1>3. OrderInv'
  BY <1>1, <1>2, ShorterLine DEF LineInv, OrderInv
<1>4. StartInv'
  BY <1>1, <1>2, ShorterLine DEF LineInv, StartInv
<1>5. EndInv'
  BY <1>1 DEF LineInv, EndInv, Excused
<1> QED
  BY <1>3, <1>4, <1>5 DEF LineInv

LEMMA LineInductive ==
    ASSUME IInv, LineInv, [Next]_vars
    PROVE  LineInv'
<1> USE DEF Still, chVars, engVars, mainVars
<1>1. CASE EngineStep
  BY <1>1, EmitKeepsLine, EngineKeepsLine DEF EngineStep
<1>2. CASE Publishing
  BY <1>2, PublishingKeepsLine
<1>3. CASE Call
  <2>1. CASE CloseCreated
    BY <2>1, EmitKeepsLine
  <2>2. CASE Listen
    BY <2>2, MainKeepsLine DEF Listen
  <2>3. CASE ListenSpawnFails
    BY <2>3, MainKeepsLine DEF ListenSpawnFails, Destroy, MayCall
  <2>4. CASE CloseListening \/ Finalize
    <3>1. Still /\ UNCHANGED <<state, epc, acquired, exiting, frees, closing>>
      BY <2>4 DEF CloseListening, Finalize
    <3> QED
      BY <3>1, MainKeepsLine
  <2> QED
    BY <1>3, <2>1, <2>2, <2>3, <2>4 DEF Call
<1>4. CASE MainStep
  <2>0. /\ mpc # "idle" => frees = 0
        /\ mpc = "hook_stop" => exiting
    BY DEF IInv, LifeInv, MainInv
  <2>1. CASE CloseCreatedReturns \/ CloseSwapFails \/ CloseRequest
             \/ FinalizeJoins \/ FinalizeRefused \/ HookRequest \/ HookJoins
    <3>1. Still /\ UNCHANGED <<state, epc, acquired, exiting, frees, closing>>
      BY <2>1 DEF CloseCreatedReturns, CloseSwapFails, CloseRequest,
         FinalizeJoins, FinalizeRefused, HookRequest, HookJoins
    <3> QED
      BY <3>1, MainKeepsLine
  <2>2. CASE CloseSwap
    BY <2>2, MainKeepsLine DEF CloseSwap
  <2>3. CASE FinalizeFrees \/ HookFrees
    <3>1. /\ Still /\ UNCHANGED <<state, epc, acquired, exiting>>
          /\ closing' = TRUE /\ frees' = 1
      BY <2>0, <2>3 DEF FinalizeFrees, HookFrees, Destroy
    <3> QED
      BY <3>1, MainKeepsLine
  <2>4. CASE HookStop
    BY <2>0, <2>4, MainKeepsLine DEF HookStop, Channel!Stop, Channel!ringVars,
       Channel!pubVars
  <2>5. CASE TearDown
    BY <2>5, TearDownKeepsLine
  <2> QED
    BY <1>4, <2>1, <2>2, <2>3, <2>4, <2>5 DEF MainStep
<1>5. CASE Dispatching
  <2>1. /\ Still
        /\ UNCHANGED <<state, epc, acquired, exiting, frees, closing>>
    BY <1>5 DEF Dispatching, Channel!ConsumerStep, Channel!Take, Channel!Copy,
       Channel!Complete, Channel!CallHandler, Channel!ringVars,
       Channel!pubVars
  <2> QED
    BY <2>1, MainKeepsLine
<1>6. CASE BeginExit
  BY <1>6, MainKeepsLine DEF BeginExit
<1>7. CASE UNCHANGED vars
  BY <1>7, MainKeepsLine DEF vars
<1> QED
  BY <1>1, <1>2, <1>3, <1>4, <1>5, <1>6, <1>7 DEF Next

LEMMA LineInvariant == Spec => [](IInv /\ LineInv)
<1>1. IInv /\ LineInv /\ [Next]_vars => (IInv /\ LineInv)'
  BY Inductive, LineInductive
<1> QED
  BY <1>1, InvInit, LineInit, PTL DEF Spec

-----------------------------------------------------------------------------
(* Theorems *)

\* A server never leaves its sorts: it holds at most two references on the
\* threadsafe function and is freed at most once, whoever frees it.
THEOREM TypeCorrect == Spec => []TypeOK
<1>1. IInv => TypeOK
  BY SameChannel, ConnectionAssumption
  DEF IInv, LifeInv, SortInv, MainInv, FreedInv, TypeOK, ChannelInv,
      Bridge!IInv
<1> QED
  BY <1>1, Invariant, PTL

\* Whichever of finalize, a failed listen and the cleanup hook frees the
\* instance, neither thread is inside it and no dispatch can follow.
THEOREM NothingUsedAfterFree == Spec => []NoUseAfterFree
<1>1. IInv => NoUseAfterFree
  BY DEF IInv, LifeInv, FreedInv
<1> QED
  BY <1>1, Invariant, PTL

\* The cleanup hook is registered as long as the instance lives, no longer.
THEOREM HookProved == Spec => []HookWhileAlive
<1>1. IInv => HookWhileAlive
  <2> SUFFICES ASSUME IInv PROVE HookWhileAlive
    OBVIOUS
  <2>1. hook \in BOOLEAN /\ (hook <=> frees = 0)
    BY DEF IInv, LifeInv, SortInv, MainInv
  <2>2. Freed <=> ~(frees = 0)
    BY DEF IInv, LifeInv, MainInv, Freed
  <2> QED
    BY <2>1, <2>2, Zenon DEF HookWhileAlive
<1> QED
  BY <1>1, Invariant, PTL

\* A freed server leaves no reference on the threadsafe function behind.
THEOREM ReferencesReturned == Spec => []NoReferenceLeak
<1>1. IInv => NoReferenceLeak
  BY DEF IInv, LifeInv, MainInv, FreedInv, NoUseAfterFree, NoReferenceLeak,
         Freed, ThreadInv
<1> QED
  BY <1>1, Invariant, PTL

\* The lifecycle uses its channel as the channel's own specification demands:
\* one publisher at a time, and no more shutdown events than slots are
\* reserved for.
THEOREM ProtocolKept == Spec => KeepsChannelProtocol
<1>1. Init => Channel!Init
  BY DEF Init
<1>2. IInv /\ [Next]_vars => [Channel!Next]_(Channel!vars)
  BY ChannelStep DEF IInv, ChannelInv, Bridge!IInv
<1> QED
  BY <1>1, <1>2, Invariant, PTL DEF Spec, KeepsChannelProtocol, Channel!Spec

\* So what is proved of the channel holds of the ring inside every server: no
\* slot is filled again while its address waits (ring.zig:98-101).
THEOREM RingSafeInServer == Spec => []Channel!NoSlotReused
<1>1. KeepsChannelProtocol => Bridge!Spec
  BY SameChannel, PTL DEF KeepsChannelProtocol, Channel!Spec, Bridge!Spec
<1>2. Bridge!Spec => []Bridge!NoSlotReused
  BY ChannelAssumptions, Bridge!SlotsSafe, PTL
  DEF Bridge!SlotsSafe, Bridge!ReserveAssumption, Bridge!KindAssumption,
      Bridge!BoundAssumption
<1>3. Bridge!NoSlotReused => Channel!NoSlotReused
  BY SameChannel
<1> QED
  BY <1>1, <1>2, <1>3, ProtocolKept, PTL

\* JavaScript hears of no connection before `listening`, and server_closed is
\* the last it hears, once, whichever thread emitted it and however calls of
\* the threadsafe function fail.
THEOREM OrderProved == Spec => []EventOrder
<1>1. IInv /\ LineInv => EventOrder
  <2> SUFFICES ASSUME IInv, LineInv, NEW n \in 1 .. Len(Told)
               PROVE  /\ Told[n].kind \in {"connection_open",
                                           "connection_close"}
                          => \E m \in 1 .. n - 1 : Told[m].kind = "listening"
                      /\ Told[n].kind = "server_closed" => n = Len(Told)
    BY DEF EventOrder
  <2>1. /\ Len(Told) \in Nat /\ Len(Line) \in Nat /\ Len(Told) <= Len(Line)
        /\ Told[n] = Line[n] /\ n \in 1 .. Len(Line)
        /\ 1 \in 1 .. Len(Told) /\ Told[1] = Line[1]
    BY ToldIsFront
  <2>2. Told[n].kind = "server_closed" => n = Len(Told)
    BY <2>1 DEF LineInv, OrderInv, ClosedLast
  <2>3. ASSUME Told[n].kind \in {"connection_open", "connection_close"}
        PROVE  \E m \in 1 .. n - 1 : Told[m].kind = "listening"
    <3>1. epc # "off"
      BY <2>1, <2>3 DEF LineInv, OrderInv, OnlyClosed
    <3>2. Line # <<>>
      BY <2>1, LineType
    <3>3. Told[1].kind = "listening"
      BY <2>1, <3>1, <3>2 DEF LineInv, OrderInv, Headed
    <3>4. n # 1
      BY <2>3, <3>3
    <3> QED
      BY <3>3, <3>4
  <2> QED
    BY <2>2, <2>3
<1> QED
  BY <1>1, LineInvariant, PTL

\* finalize frees a closed server only after JavaScript was told.
THEOREM ToldProved == Spec => []ToldBeforeFree
<1>1. IInv /\ LineInv => ToldBeforeFree
  <2> SUFFICES ASSUME IInv, LineInv, Freed, state = "closed", ~exiting,
                      abandoned = 0, epc # "off" => acquired
               PROVE  \E n \in 1 .. Len(Told) : Told[n].kind = "server_closed"
    BY DEF ToldBeforeFree
  <2>1. /\ epc \in {"off", "done"} /\ ppc = "idle"
        /\ cpc \notin {"copy", "complete"} /\ tsfnq = <<>>
    BY DEF IInv, LifeInv, FreedInv, NoUseAfterFree
  <2>2. ~NoClosed
    BY <2>1 DEF LineInv, EndInv, Ended, Excused
  <2>3. Bridge!QueuedEvents = <<>>
    <3>1. Bridge!Undispatched = <<>>
      BY <2>1 DEF Bridge!Undispatched, Bridge!Held
    <3> QED
      BY <3>1 DEF Bridge!QueuedEvents
  <2>4. Line = Told
    BY <2>3, SameChannel, LineType DEF Line, Told, Bridge!Line
  <2> QED
    BY <2>2, <2>4 DEF NoClosed
<1> QED
  BY <1>1, LineInvariant, PTL
=============================================================================
