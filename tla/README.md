# Verification of ventijs

TLA+ models of ventijs, the drop-in replacement of `ws` whose servers run on a
native engine (Zig, `src/src/engine`) behind a TypeScript layer
(`src/src/binding`, `src/src/compat`). TLC checks the models on small
instances; TLAPS proves theorems about them for every size. `PROJECT.json`
maps every definition to the lines it translates and lists runs, mutants,
findings, hazards and theorems. Source paths below are relative to
`src/src`.

## 1. The system

A JavaScript program runs in one or several Node *environments* (the main
thread and its workers), each with one main thread. A *server* belongs to the
environment that created it and has one *engine thread*, which runs the
uWebZockets event loop. They meet in four places:

```
 main thread of an environment                 engine thread of a server
 -----------------------------                 --------------------------
 create/listen/close/finalize --- state, request_shutdown ---> run_engine
 send/close/pause/buffered    --- socket records (lock) -----> on_open/on_close
                              --- staging ring --------------> (drain, to come)
 call_js -> event handler     <-- event ring + tsfn ---------- emit
        \                                                        /
         `------------ table of servers, of the process --------'
```

Above that lies the `ws`-shaped layer, all of it on the JavaScript thread of an
environment: a server over a Node HTTP server (its own, the caller's or none),
the sockets it accepts, which adopt the upgraded stream, sockets that adopt a
connection of the engine, and the event emitter under both. Its concurrency is
that of callbacks: every hook and listener may call back in, and tasks and
ticks run between.

| Part | State it keeps | Operations | What makes it correct |
|---|---|---|---|
| Event ring and channel (`engine/channel/ring.zig`, `callbacks.zig`, `sizing.zig`, `events.zig`) | counters reserved, completed, dropped, abandoned; slots; `closing` latch; the queue of the threadsafe function (tsfn) | emit in three tiers, acquire, release, stop, close, complete, pending | FIFO, each event once; shutdown events always find a slot; no slot reused while read; pending exact, since finalize frees on zero |
| Dispatch (`engine/channel/dispatch.zig`) | none of its own | call_js | copies and completes before the handler runs, touches the ring never after |
| Server lifecycle (`engine/server/server.zig`) | `state`, runner thread, shutdown request | create, listen, close, finalize, run_engine | nothing used after free; JavaScript told before free; accepted closes reported; joins return |
| Environment cleanup (`server_cleanup.zig`) | the registered hook | register, remove, on_env_cleanup, destroy | frees exactly the servers that were not finalized |
| Server table (`registry.zig`, `instance.zig`) | slots, owners, generations, claimed bits, all atomics shared by all environments | claim, publish, lookup, lookup_slot, retire | a lookup yields the caller's own live server or nothing; no slot lost or given out twice |
| Connection callbacks (`connections.zig`) | none of its own | on_open, on_close | limit kept, one close event per connection |
| Connection slab (`engine/socket/handles.zig`) | one word a slot (state, generation); active count | acquire, release, resolve | mirrors the engine's pool |
| Socket records (`socket.zig`, `socket_ops.zig`, `ffi/socket_io.zig`) | generation, state, terminal latch, buffered bytes, paused, spin lock | open, finish, send, close, pause, resume, buffered | a stale handle affects nobody; a close frame is the last; the lock is given back |
| Payload staging ring (`payload.zig`) | slots, sequence words, two positions | stage, peek, release | bounded FIFO of whole payloads, for ever |
| Status and close codes (`status.zig`, `protocol/close-codes.ts`) | none | predicates | both sides accept the same codes |
| Engine options, config, ports (`options.zig`, `engine_config.zig`, `ports.zig`) | none | trust, defaults | bounds |
| Server options (`compat/options/server.ts`) | none | one listen target, defaults | the mode decides how a server closes |
| Native binding (`binding/`) | the loaded addon | checks of arguments, ordinals to statuses | total, and no handle out of range |
| Compatibility server (`compat/server/`) | lifecycle, clients, shouldEmitClose, listeners of the HTTP server | handleUpgrade, completeUpgrade, close, trackClient | one close event; each callback answered truly; clients are the open sockets, and gone when closed |
| Compatibility socket (`compat/socket/`) | readyState, attachment, transport, close code, buffered amount | send, close, terminate, pause, resume, attach | one close event a life; never stuck in CLOSING; not CLOSED before its stream is |
| Emitter and DOM events (`compat/events/`) | listener registry | on, once, off, emit, addEventListener | once at most once; removal exact |
| Duplex stream (`compat/stream.ts`) | terminateOnDestroy, the duplex, listeners left on the socket | _write, _final, _read, _destroy | the close is told once and last; nothing waits for an event that is over |
| Client options, constructors, errors, framing constants, types, builds | none worth modelling | | |

Hard behaviours: two threads over lock-free counters; several environments
over one table; a main thread that must not dispatch while it joins; a
threadsafe function that fails or is torn down with events in it; handles that
outlive what they name; full rings; handlers that call back into the server
from inside a dispatch. `hazards` in `PROJECT.json` lists each at its line
with the properties that would catch it, or the reason why none does yet.

## 2. Modules

| Module | Models | Abstract side |
|---|---|---|
| `EventQueue` | what the channel promises: a FIFO whose events have limits | |
| `EventChannel` | ring, tiers, tsfn, dispatch | implements `EventQueue` |
| `EventChannelProofs` | theorems about `EventChannel`, that it implements `EventQueue` among them | |
| `ServerLifecycle` | server and cleanup hook; composes `EventChannel` (`Channel == INSTANCE EventChannel`), whose specification it must keep | keeps `EventChannel` |
| `ServerLifecycleProofs` | theorems about `ServerLifecycle`, that it keeps `EventChannel` among them | |
| `ServerTable`, `MCServerTable` | the table, with every environment's main thread step by step; symmetry of environments | |
| `ServerTableProofs` | theorems about `ServerTable` | |
| `ConnectionLife` | what slab and records promise: one life per handle | |
| `SocketSlab` | slab, records, lock, callbacks, operations | implements `ConnectionLife` |
| `SocketSlabProofs` | theorems about `SocketSlab`, that it implements `ConnectionLife` among them | |
| `BoundedFifo` | a queue of at most so many payloads | |
| `PayloadRing` | the staging ring with wrapping words | implements `BoundedFifo` |
| `PayloadRingProofs` | theorems about `PayloadRing`, that refinement among them | |
| `ServerClose` | what close() of a server promises | |
| `WsServer` | the `ws`-shaped server: upgrades, close protocol, clients | implements `ServerClose` |
| `WsServerProofs` | theorems about `WsServer`: that refinement and its clients | |
| `SocketFacade` | one `ws`-shaped socket over an engine connection or a stream | |
| `DuplexStream` | the stream adapter over a socket; extends `SocketFacade`, whose every step it may take | keeps `SocketFacade` |
| `DuplexStreamProofs` | theorems about `SocketFacade` and about `DuplexStream` over it | |
| `EventEmitter`, `MCEventEmitter` | the listeners of one event and the dispatches under way; symmetry of handlers | |
| `EventEmitterProofs` | theorems about `EventEmitter` | |

Definitions keep the names of the source where they can; an action is one
atomic access, or one critical section, of the code it is mapped to. An
operator named `X_Variant` under a comment `Mutant:` is a plausible bug in `X`;
no specification uses it. It is there to show that the property listed with it
in `PROJECT.json` fails when `X` is replaced by it.

**EventChannel.** The publisher's steps are those of `publish` and `claim`:
test of the latch, load of `reserved`, load of `completed`, the swap (which may
fail spuriously), the fill of the slot, the call of the tsfn, and after a
failed call the drop and then the latch. The consumer's are those of
`call_js`: take an address, copy the event, complete, run the handler. The
tsfn is external: a FIFO of slot addresses without bound that may refuse a
call (`TsfnMayFail`) and that Node drains with a null environment at teardown.
Sequence counters are natural numbers, the wrap at 2^64 being out of reach.

**ServerLifecycle.** The engine thread runs `run_engine`; the main thread calls
listen, close, finalize, step by step, between turns or from inside the event
handler; the environment may exit at any time. `cluster.run` is external: it
serves connections, returns after a shutdown was requested, or fails.
`frees` counts destroys, so that a second one shows.

**ServerTable.** `pc[e]` walks the main thread of `e` through claim, bump, build,
publish, the three loads of lookup, the four steps of retire, and the free.
JavaScript uses any handle it was ever given, and numbers it was not. What an
operation does with the server is `Use`; that of the engine thread's unchecked
lookup is the invariant `EngineFindsServer`.

**SocketSlab.** The engine thread takes and gives back the record lock within
one step (nothing else can look into it); the main thread's operation is
resolve, lock, check, stage, change of state, account, unlock, with the engine
thread free to run in between. A handle is a number to JavaScript: `to_int` and
`from_int` pack and unpack it, with words of `Uint32` values, and an operation
may be given any number ever issued and two that never are, one of them with
an index beyond the slab. Payload bytes are abstracted to one byte a
message and two a close frame. The channel is abstracted to the history
`events`: an open event may be dropped (JavaScript never learns of the
connection), and `ServerLifecycle_churn` shows when a close event is. No code in
the repository drains the staging ring yet, so here it only fills, and
`note_drained` and `latch_terminal`, which only tests call, are left out.

**PayloadRing.** One producer, the main thread of the owning environment, so the
swap of `stage` fails only spuriously and its third branch is not taken. Peek
and release are in the code without a caller; they are used as their
documentation asks.

**WsServer.** `options` are what the server was built with, after the defaults
and the check for a single listen target. `frames` is the JavaScript stack, cut
down to the functions of the server that wait for application code: an upgrade
in its hooks, in the `open` listeners, in the caller's callback; the close of a
socket before and after `trackClient`'s listener; a dispatch of `close`.
Whatever may run in between does: close(), another upgrade, the end of a
stream; with an empty stack that is a task, a tick or a microtask of the
application's own. Ticks are drained when the stack is empty, before the next
task. A stream comes through the wired HTTP server or is handed over by the
application to `handleUpgrade`, which `ws` documents for `noServer` and the code
allows in every mode (`compat/server/server.ts:96-103`); `owned` tells the two
apart for a server that made its HTTP server itself. Requests are abstracted to what becomes of them (refused, left to
`wsClientError`, completed, asked of `verifyClient`). Streams, the HTTP server's
close and the event loop are external; an owned HTTP server reports its close
when its own connections are destroyed, which is before their sockets are told.
`ClosedMeansDrained` therefore exempts destroyed streams and those handed over,
and, with an HTTP server of another or none, the clients whose upgrade was past
the running check at close() (`late`); what the set of clients holds in those
cases too is `ClientsAreOpenSockets`.
Assumed of the application: hooks do not throw, and `verifyClient` does not
answer, nor is a stream handed over, from inside the hooks of that same
stream's upgrade.

`ServerClose` is what a caller of close() may rely on, with none of this in it:
a phase, the callbacks, and the close events that are owed. The mapping reads
them off the server's state: a callback is heard while the frame of a close
event has it left, and an event is owed for each tick that will emit one for
a server that is closed.

**SocketFacade.** One record, which adopts at most one thing; the answers of
the binding are read off the state of the engine's connection (`native`), a
simplified `SocketSlab` record whose server may also be finalized. Error
listeners run between `failing` and `Finally`, and may call anything. close()
takes a code, a reason or neither: the code is valid or not to
`assertCloseCode`, then truncated, then valid or not to the engine; a
reason is absent, text, no UTF-8, too long for a control frame, or an array of
the wrong type.
`closes` counts the close events of the current life: a record that was closed
while CONNECTING can still be adopted, and is then OPEN again.

**DuplexStream.** `on` holds the listeners the adapter left on the socket with
`once`, `todo` those of the events under way, innermost first, and `ticks` the
callbacks Node queued. `Dispatch` looks at what a step of `SocketFacade` did to
`readyState` and `failing`, and runs the listeners that were registered for it
before anything else. Node's `Duplex` is external: `duplex` keeps what decides
whether it calls the adapter (one _write or _final at a time, _destroy once)
and what it does with an answer. A write or a close() that throws because the
server was finalized is caught by Node, unless a listener made it: then the
rest of that event's listeners are lost (`Unwound`). Assumed: a record that a
stream uses is not adopted again after it closed, and application code in
listeners does not throw.

**EventEmitter.** The bucket of one event (events do not interact), with the
entries of the emitter, of `addEventListener` and of the `on*` attribute; `off`
may be given a handler or a wrapper that `rawListeners` showed. The setter of
an attribute calls `addEventListener` with the option `attribute`, and so may the
application: the socket forwards its options as they are
(`compat/socket/socket.ts:104-110`). The history `foreign` says that it did and
that a wrapper it did not assign may still be in the bucket; until none is,
what the attribute reads is not tied to what was assigned. Assumed: a function
the application registers has no property `listener` of its own. `dispatches`
holds, for each dispatch under way, what is left of the array it started with;
application code runs between any two of its steps.

## 3. Runs

| Run | Instance | Shows |
|---|---|---|
| `EventChannel_ring` | 4 slots, 3 + 2 reserved, 5 events of all tiers; calls of the tsfn may fail | `ShutdownNeverRefused`, `NoSlotReused`, `PendingExact`, `ImplementsQueue`; `AcceptedIsHandled`, `ShutdownArrives` |
| `ServerLifecycle_threads` | 2 connections, 8 slots, 6 events; the tsfn may fail or refuse; environment exit | `NoUseAfterFree`, `HookWhileAlive`, `NoReferenceLeak`, `ToldBeforeFree`, `EventOrder`, `KeepsChannelProtocol`; `CloseIsReported`, `JoinReturns`, `ExitFrees` |
| `ServerLifecycle_churn` | 1 connection, 4 slots, 6 events | *violation*: finding 1 |
| `ServerTable_workers` | 3 environments, 2 slots, 3 servers, 2 claims a slot | `LookupIsOwnAndAlive`, `EngineFindsServer`, `ClaimedExact` |
| `SocketSlab_reuse` | 2 slots, a limit of 1, ring of 2, 2 connections opened, words of 4 values | `LiveHandleWorks`, `BufferedExact`, `MirrorsPool`, `ClosedExactlyOnce`, `ImplementsLife`; `OperationReturns` |
| `PayloadRing_wrap` | 4 slots, 4-bit words, 2 payloads | `ImplementsFifo`, `ViewIsHead`, `RefusedOnlyWhenFull` |
| `WsServer_close` | 2 streams, 2 calls of close(), 2 answers of verifyClient, every mode, tracking on and off | `ClosedMeansDrained`, `ClientsAreOpenSockets`, `ImplementsPromise`; `CloseAnswered` |
| `DuplexStream_adopt` | a stream over a record; a ring of 2, 2 bytes counted, 4 close codes | `CloseToldOnce`, `LatchedByFinalizeOnly`, `StreamGoneWhenClosed`, `ClosedIsLast`, `NothingWaitsForClose`; `DyingStreamCloses`, `DestroyedCloses` |
| `DuplexStream_end` | the same | *violation*: finding 4 |
| `SocketFacade_latch` | the record alone, 3 bytes counted | *violation*: finding 2 |
| `EventEmitter_surfaces` | 2 handlers, 3 entries, 1 one-shot wrapper, one dispatch at a time | `DomListenersUnique`, `AttributeReadsBack` |
| `EventEmitter_once` | 2 handlers, 2 entries, 1 one-shot wrapper, dispatches two deep | *violation*: finding 3 |

`DuplexStream_adopt` checks the properties of `SocketFacade` as well: a record
whose stream is never created (`createWebSocketStream` need not be called) is
the record alone.

A `TypeOK` that no run lists is proved (`EventChannel`, `ServerLifecycle`, `ServerTable`,
`SocketSlab`, `PayloadRing`, `SocketFacade`, `WsServer`, `EventEmitter`) or
states the types of the variables for the reader.

Why the bounds are enough. Five events over four slots wrap the ring and fill
every tier; what a longer run adds is proved (section 5). In the lifecycle all
the interleavings of the closing handshake happen with a single connection; a
second makes closes outstanding beside opens. Two table slots let one be
retired while the other is claimed, three environments put a bystander beside
any two that race, and two claims a slot are what a stale handle needs; larger
tables are covered by the theorems. Two slab slots under a limit of one
connection refuse a slot that is free, and two connections use the same slot
one after the other: an operation on the first may meet the second at any of
its steps. Words of four values put numbers that are no handle next to those
that are. Positions of four bits wrap after 16 payloads, and that run has no
other bound. Two upgrades and two callers of close() make every pair of server
functions meet on the stack, in both orders; a third would only wait. A socket
record and the stream over it have no second actor of their kind; the bounds
cap what they count, and of the four close codes (999.5, 1000, 1004 and 1004.5,
counted in halves) both sides accept one, the facade refuses two, and the
engine alone the last.
Three entries let one handler be on the three surfaces at once, or twice on one
with another beside it; while a dispatch runs, its listeners do what the main
program can do. A dispatch inside a dispatch changes the bucket by the same
removals of one-shot entries; two deep is what such an entry needs to be called
from an array that no longer holds it (`EventEmitter_once`), and any depth is
proved.

Bounds by name: `MaxEmits` (events in `EventChannel`), `MaxTraffic` (events
before connections stop coming), `MaxServers` and `MaxClaims` (table),
`MaxOpened` (connections of a slab), `Uint32` and `WordSize` (values of a word of
the slab and of the staging ring), `GenerationMod` (values of a generation of the
table), `MaxAnswers` (answers of `verifyClient`), `MaxBuffered` (bytes a socket
counts), `MaxListeners`, `MaxOnce` and `MaxDepth` (emitter).

Deadlock is checked for the channel, the table, the staging ring and the
emitter. A server or a socket may really stop (freed, or closed and never
finalized; no peer connects and JavaScript does not call), so the other runs say
`CHECK_DEADLOCK FALSE` and rely on their liveness properties.

## 4. Fairness

- Engine thread and publisher: weak fairness of each step; the operating
  system runs both threads. `EngineStops` is strong, because the event loop
  looks at the wakeup in every turn even while traffic goes on. The engine is
  under no obligation to fail and peers under none to come.
- The swap of `claim` and the spin lock: strong fairness. A weak
  compare-and-swap may fail spuriously but not for ever, and the lock is held
  for a few stores at a time by two threads.
- Main thread: weak fairness of the steps of an operation it is in; dispatching
  is strong, as JavaScript returns to its loop between any calls it makes.
  Nothing makes it call close or finalize.
- `WsServer`: application code returns (`Resume`), the tick queue is drained,
  and Node closes a stream that was ended or destroyed, and an HTTP server
  without connections. `CloseAnswered` is conditional on the streams going
  away, as a server really waits for ever for a client that stays.
- `DuplexStream`: listeners and ticks that are due run, and Node closes a
  transport that was ended on both sides or destroyed. One that only its peer
  ended is owed nothing, so `DyingStreamCloses` rests on the `end` that
  attachSocket calls. Nothing makes the application read or end the stream.

## 5. Theorems

`EventChannelProofs` proves, for every `Capacity`, reserve and number of
events, with failing calls allowed or not:

- `TypeCorrect`: `Spec => []TypeOK`;
- `ShutdownSafe`: `Spec => []ShutdownNeverRefused`;
- `SlotsSafe`: `Spec => []NoSlotReused`;
- `PendingSafe`: `Spec => []PendingExact`.

They rest on the assumptions of `EventChannel` only: the reserves are ordered
and smaller than the ring, as `ring.zig` checks at compile time, and the engine
emits no more shutdown events than the shutdown reserve (`MayEmit`;
`ServerLifecycleProofs` proves that the lifecycle obeys). The invariants are not inductive: that a
slot is free when it is filled depends on what the publisher loaded two steps
before. `IInv` adds four parts: `PublisherInv` (what was loaded is still true:
only the publisher reserves and the consumer only makes room), `ReserveInv`
(outstanding sequences stay out of the shutdown reserve but for the shutdown
events emitted), `LedgerInv` (every outstanding sequence is held, queued,
being published, or abandoned by the call that latched the channel) and
`AddressInv` (the slots held and queued carry consecutive sequences). With
`SlotOfInjective`, which says that two sequences less than a ring apart have
different slots, each is preserved by every action.

The same module shows that the channel implements its abstract side:

- `QueueImplemented`: `Spec => ImplementsQueue`.

The queue of events the refinement shows is read through the slots, so
`EventInv` says what they carry: while an address is being queued its slot
holds the event the publication began with, and while a copy is being handled
its slot holds that copy. A fill changes no event queued, as the slot it writes
is free (`SlotsSafe`'s argument). The accepted call is Accept, `Complete` is
Deliver, `TearDown` Discard, and nothing else moves the queue; the limits of
Accept are those of the reservation (`UndispatchedLength`).

`ServerLifecycleProofs` proves, for every number of connections, every ring of
at least the size `sizing.zig` gives it, any amount of traffic, and calls of the
tsfn that may fail at any time or not:

- `TypeCorrect`: `Spec => []TypeOK`;
- `ProtocolKept`: `Spec => KeepsChannelProtocol`;
- `RingSafeInServer`: `Spec => []Channel!NoSlotReused`;
- `NothingUsedAfterFree`: `Spec => []NoUseAfterFree`;
- `HookProved`: `Spec => []HookWhileAlive`;
- `ReferencesReturned`: `Spec => []NoReferenceLeak`;
- `OrderProved`: `Spec => []EventOrder`;
- `ToldProved`: `Spec => []ToldBeforeFree`.

These are all the safety properties of `ServerLifecycle_threads`. The proof is
compositional. It takes the channel with its theorems
(`Bridge == INSTANCE EventChannelProofs`); the assumptions of the channel follow
from the sizes of `sizing.zig` (`ChannelAssumptions`), and every step of a server
is a step of its channel or leaves it alone (`ChannelStep`). So the invariants of
the channel are invariants of the server, and its theorems hold of the ring in
every server, as `RingSafeInServer` shows. `ChannelStep` needs to know how much
was emitted: `EmittedInv` reads that off the place `run_engine` is at. `ThreadInv`
says who may be publishing, `MainInv` that the two operations that free the
instance have joined the engine thread, and `FreedInv` counts references; from the
channel they need that no pending event means an empty queue (`NothingPending`).

The order of the events is proved on the line of that refinement, the events
dispatched followed by those that wait, which only a queued publication makes
longer (`LineStep`). `OrderInv` says how the line begins and ends for each place
of the engine thread; `StartInv` that `listening` meets an empty ring, so that it
is not refused, and that if it was lost then the channel is latched and nothing
follows; `EndInv` that once server_closed was emitted it is in the line, being
published, or lost to an excuse. `ShutdownSafe`'s invariant rules the refusal out.

`ServerTableProofs` proves, for any number of environments (infinitely many
even), slots up to 32 and servers:

- `TypeCorrect`: `Spec => []TypeOK`;
- `OwnAndAlive`: `Spec => []LookupIsOwnAndAlive`;
- `EngineFinds`: `Spec => []EngineFindsServer`;
- `ClaimedProved`: `Spec => []ClaimedExact`.

`GenerationMod` may be any positive number, one included: that a lookup yields
the caller's own live server does not need generations that never repeat.
They only tell a stale handle from the handle that has its number now.

The invariant says what each party may rely on while the others move. `HoldInv`:
a thread in the middle of create or retire finds in its slot exactly what its
own last step left there; `DisjointInv`: no two such threads have the same slot;
`LiveInv`: a published server nobody retires is in its slot; `FreeInv` and
`ClaimInv`: a slot is claimed exactly while one of these two uses it;
`TargetInv`: a thread works on its own servers only; `LookupInv`: between the
loads of a lookup, a slot that carries the caller's environment keeps its
generation. None is inductive alone. That the pointer a lookup loads is a live
server (`ItemIsOwn`) takes all of them: the slot carries the caller's name, so
no other thread holds it; the caller, being in a lookup, does not either; so it
is claimed by a live server, whose owner and generation are those just checked.
Steps that leave the table alone are done once, in `LookingKeeps`; the others
have one lemma each.

`SocketSlabProofs` proves, for every number of slots below 2^32, every limit and
every number of connections:

- `TypeCorrect`: `Spec => []TypeOK`;
- `MirrorProved`: `Spec => []MirrorsPool`;
- `LiveHandleProved`: `Spec => []LiveHandleWorks`;
- `ClosedOnce`: `Spec => []ClosedExactlyOnce`;
- `BytesCounted`: `Spec => []BufferedExact`;
- `LifeImplemented`: `Spec => ImplementsLife`.

`MirrorsPool` says nothing of a slot while a callback is under way.
`CallbackInv` does: what the slot, the record and the pool hold between its
steps; `PoolInv` is the mirror for all other slots. `GenerationInv` and `ToldInv`
order the three places a generation appears in: JavaScript's handle is never
ahead of the record, and the record never ahead of the slab. So a handle that was
refused once (`MainInv`) names a generation that has passed and cannot become
live later. An operation's own steps change no generation and no slot, which
`MainFrame` says once for all of them. That a slab has fewer slots than there are
32-bit indices (`SlabAssumption`) is the type of its capacity (`handles.zig:51`).

The last two are about what operations stage, so about the record lock:
`LifeInv` adds to the invariant that a record is locked exactly while an operation
holds it (`LockInv`), that what the operation found under the lock is still so when
it acts on it (`WorkInv`), how far a record may lag behind its slot (`SlotInv`),
that nothing was staged for a connection still to come (`RingInv`), that a close
frame comes before the state that forbids a second (`CloseInv`), and that a
record counts what was staged for its own generation, less the frame its
operation has just staged (`BytesInv`). The bytes of a connection are counted
over the whole ring, and staging one payload adds to those of its own handle only.
The frames of a handle, in order, are a recursive function of the ring (`Kinds`):
that it exists, and that a payload appended to the ring is appended to the frames
of its handle, is an induction, made from the library's well-founded order of
the naturals with the statement to prove given as a set (`SetInduction`), since
the library's induction rules, whose parameter is an operator, cannot be
instantiated. For the refinement, staging a payload and the pause are each a step
of the abstract life, the callbacks open and end it, and the other steps (the
lock, the count, the state that follows a staged close frame) change nothing a
handle promises.

`PayloadRingProofs` proves, for every number of slots above one and every word
that is a multiple of it and more than twice as large:

- `TypeCorrect`: `Spec => []TypeOK`;
- `ViewSafe`: `Spec => []ViewIsHead`;
- `RefusalJustified`: `Spec => RefusedOnlyWhenFull`;
- `RingImplemented`: `Spec => ImplementsFifo`.

So the 16 positions of the run stand for the 2^64 of the code. `RingInv` counts
from the oldest position not given back: the first `Published` slots carry the
successor of their position and whole payloads, the others the position that
may claim them. `ProducerInv` and `ConsumerInv` say which position each end
works on. All rests on a few facts about words: positions less than a ring
apart have slots of their own (`SlotsDistinct`), a position one lap on has the
same slot (`NextLap`, where the word must be a multiple of the ring), a distance
grows and shrinks by one across the wrap (`Distance`), and what an end reads in
a sequence word tells free from published (`Readings`; this is where a ring of
one slot fails).

`WsServerProofs` proves, for all streams, callbacks and numbers of answers:

- `TypeCorrect`: `Spec => []TypeOK`;
- `PromiseKept`: `Spec => ImplementsPromise`;
- `ClientsTracked`: `Spec => []ClientsAreOpenSockets`;
- `DrainedBeforeClosed`: `Spec => []ClosedMeansDrained`.

`PromiseInv` is what a step of `ServerClose` needs to know of the stack and of the
queue: `FramesInv` (a close event is the outermost frame, of a closed server,
and what it has left is a beginning of the callbacks registered),
`ClosersInv` (those registered are those that wait, once each) and `OwedInv`
(nothing is owed before close() was called, and only a closed server owes an
event for a late one). Each step then maps to Close, Emit or Tell, or changes
nothing the promise speaks of; most of the server's work, upgrades included,
is of the last kind.

`TrackInv`, preserved together with `PromiseInv`, is about the clients.
`StackInv` says that a stream is in one upgrade at a time and that a socket's
close is the outermost frame; `ClientAt` where one stream is between its
upgrade, the set of clients and its close (before the 101 response it is not
upgraded, while the `open` listeners run it is not tracked yet, and an attached
socket is CLOSED only when its stream has closed); `DrainInv` that whoever is in
an upgrade while the server is closing was in it at close(), so is in `late`,
and that a deferred event is queued only when no client outside `late` is left.
Most steps are `Steady` for every stream but one and `Calm` for the close
protocol; those two notions carry the invariant over, and each action has only
its own stream to account for.

`DuplexStreamProofs` proves, for every ring size, set of close codes and number
of bytes, of a socket record

- `TypeCorrect`: `Spec => []TypeOK`;
- `CloseTold`: `Spec => []CloseToldOnce`;
- `StreamGone`: `Spec => []StreamGoneWhenClosed`;
- `LatchedOnlyByFinalize`: `Spec => []LatchedByFinalizeOnly`;

and of the stream adapter over one

- `StreamOverSocket`: `StreamSpec => Spec`;
- `ClosedOnceAndLast`: `StreamSpec => []ClosedIsLast`;
- `NothingLeftWaiting`: `StreamSpec => []NothingWaitsForClose`;
- `SocketUnderStream`: the first three invariants of the record, of `StreamSpec`;
- `DestroyErrorUnheard`: `StreamSpec => [](~duplex.called)`;
- `StreamTyped`: every variable of the adapter keeps its type.

The invariants of the record support each other and need one more,
`AdoptionInv`: a record adopts one thing at most, only an adopted connection can
make close() fail, and a record with a stream is not CONNECTING. Without it a
stream that ends could push a record with a connection into CLOSING, and a failing
close could end a record whose stream is alive.

The adapter adds listeners and callbacks of Node, but every step it makes is a
step of the record or leaves it alone (`StreamOverSocket`), so the record's
theorems are theorems of `StreamSpec`. Beyond them `StreamInv` says where the close
of a destroyed stream is to come from: exactly one of the socket (which still has
to close, and has _destroy's listener), a listener the dispatch under way has
still to run, a tick that was queued, or a close already told (`ClosePart`); for
a stream not destroyed, none of them. Every action moves the close from one
place to the next, and neither loses nor doubles it. This needs that a closed
socket has no close listener left, and that the `error` path cannot start a
second destruction: an error is raised only by an attached record in OPEN that
is not failing yet, and by the time _destroy left its listener the record is
CLOSED, failing, or over a transport that raises none (`ErrorUnheard`,
`ErrorPart`). So the error listener of _destroy, which `stream.ts` adds as `ws`
does, is never called with this facade (`DestroyErrorUnheard`). The assumption of the
module, `StreamAssumption`, is that the code the adapter itself closes with
(1000) is one of the codes close() may be called with.

`EventEmitterProofs` proves, for any number of handlers, listeners, one-shot
registrations and nested dispatches:

- `TypeCorrect`: `Spec => []TypeOK`;
- `DomRegistrationsUnique`: `Spec => []DomListenersUnique`;
- `AttributeKept`: `Spec => []AttributeReadsBack`.

`BucketInv` states both of a bucket: no two registrations of one handler, and no
two attribute entries while `foreign` is false (`Apart`); and then the attribute
entry, if any, holds the handler assigned last, and there is one while a handler
is assigned (`Reads`). All removals of the code go through
unsubscribeMatching, which splices out the last index whose entry matches;
`Spliced` says what that does to a bucket for any set of indices, and the surfaces
(`on`/`off`, DOM listeners, attributes, and the removal of a one-shot entry by
its own wrapper) are instances of it. So a removal keeps the order and the
distinctness of the rest whatever surface it comes from, and can touch the
attribute entry only when it names it. That a one-shot entry runs at most once is not
among the theorems: it is false (finding 3).

Every safety property of the passing runs, invariant, action property or
refinement, is thus proved for all constants. Only model-checked is liveness:
`AcceptedIsHandled`, `ShutdownArrives`, `CloseIsReported`, `JoinReturns`,
`ExitFrees`, `OperationReturns`, `DyingStreamCloses`, `DestroyedCloses`
and `CloseAnswered`, as fairness and ENABLED are beyond the prover; and the
violations behind the findings, which TLC shows by a counterexample.

## 6. Findings

1. *A close event can be dropped* (`ServerLifecycle_churn`). The close tail is
   sized by connection slots, and a slot is reused while its last close event
   is still queued; the documentation of `serverDroppedEvents`
   (`binding/server.ts:69-70`) says closes are kept out of the dropped set.
2. *close() after finalize latches a socket* (`SocketFacade_latch`).
   closeConnection sets CLOSING and then calls the binding, which throws once
   the connection's server was finalized; no close event follows, and a second
   close() does nothing. The comment at `compat/socket/lifecycle.ts:61-62` says
   that a rejected close is reported instead.
3. *A one-shot listener runs twice* (`EventEmitter_once`). A dispatch goes on
   over the array it started with; when an earlier listener emits the same
   event, the nested dispatch and then the outer one call the same wrapper,
   which has no flag that it fired (`compat/events/tags.ts:72-87`).
4. *A stream both sides of which ended stays open* (`DuplexStream_end`). Only the
   end listener destroys it, when finish was first; after an end that came
   first nothing does, where `ws` destroys from _final. The comment at
   `compat/stream.ts:5` says the adapter mirrors `ws` byte for byte.

Seen while modelling, with no run of their own:

- The comment on `claim` (`registry.zig:53-55`) argues that its loop ends
  because `claimed` only gains bits; `retire` clears them. The loop is
  lock-free, not bounded.
- `payload_ring` accepts a ring of one slot (`payload.zig:36`), for which the
  sequence word of a staged payload equals that of a free slot a lap later: with
  `Slots = 1`, `ImplementsFifo` fails, so `RingAssumption` asks for two. Servers
  use eight.
- terminate() of a socket with an engine connection, and a close() that fails,
  tell the close without telling the engine, whose connection stays open.
- A code such as 1004.5 is valid to the facade, is truncated, and is refused by
  the engine, as is a reason that is no UTF-8: the socket then fails with 1006
  (`CloseFails`).
- attachNativeSocket and attachSocket do not look at readyState: a record that
  was closed while CONNECTING opens again.
- A close() from a hook of an upgrade that passed the running check lets that
  client in after the server's close event (`late` in `ClosedMeansDrained`).
- end() of a stream whose socket is CONNECTING waits for `open` (`openFinal`); if
  the socket closes instead, the callback of _final is never called.
- A write that waited for `open` and then throws, as the server was finalized,
  throws into the dispatch of `open`: its callback, and the listeners after it,
  are lost.
- The `open` listeners of an accepted socket see an empty protocol:
  `compat/server/accept.ts:58-60` sets it after attachSocket.
- `server: false` with a port counts as an external server
  (`compat/server/close.ts:57`), which the types rule out.
- A server with an HTTP server of its own does not wait for clients whose streams
  the application handed over: it emits close as soon as its own connections are
  gone (`owned` in `ClosedMeansDrained`).
- `addEventListener(type, f, { attribute: true })`, an option the types do not
  have (`types/ws.d.ts:461-463`) and the facade forwards, leaves two attribute
  wrappers when called twice, and `onopen` then reads `f` though nothing was
  assigned; with `once` it lets in a handler that is registered already. `ws`
  keys that flag with a symbol.
- `status.zig:5` says acceptance mirrors that of the facade; fractional codes
  differ, as above.

## 7. Not modelled

- The rendering of an event to a JavaScript value and its failure in `call_js`:
  the failure is decided in the N-API wrapper, which is not in the repository.
- Memory orderings: the models are sequentially consistent; every word the code
  shares is an atomic with acquire and release, or under the record lock.
- Wraps at 2^32 and 2^64 except those of the staging ring and, in the theorems,
  of the generations of the table.
- Engine options, ports, client options, constructors, errors, framing
  constants, types: pure or static, without state. The client itself is not
  implemented yet.
- Build and check scripts, and the skill reference under `.agents`: not part of
  the program.
- Loading of the addon and the checks of arguments in `binding/`.
- `note_drained` and `latch_terminal` of the records, and the drain of the staging
  ring: no caller in the program.
- Functions with a property `listener` of their own, registered as handlers: Node's
  one-shot wrappers, or wrappers that `rawListeners()` gave, registered again.
  `originalOf` follows that property, although the comment at
  `compat/events/tags.ts:27-29` says that a user function cannot extend the chain.
- The queries `pending` of the staging ring and `listeners()`, `rawListeners()` and
  `eventNames()` of an emitter, which change nothing.
- Hooks of an upgrade that throw, and data read from an upgraded stream (the
  code drops it).
- close() of a server without a callback: as with one, but that nobody waits.
- The payloads a duplex stream carries, and exceptions of application code in
  its listeners.

## 8. What could come next

Every part of the program that keeps state has its module. In order:

1. When the engine drains the staging ring, `PayloadRing` and `SocketSlab` are to
   be composed, and `note_drained` gets its action: it takes no generation, so
   bytes of an earlier connection could be subtracted from a later one.
2. Theorems: the safety parts of the liveness arguments, such as that an operation
   the engine thread waits for is always able to go on.
3. An abstract life of a socket that `SocketFacade` implements, over both things
   it may adopt.
4. Validation of options as operators, once it decides more than defaults.
