----------------------------- MODULE SocketSlab -----------------------------
(***************************************************************************)
(* The connections of one server: the connection slab (handles.zig), the   *)
(* socket records beside it (socket.zig, socket_ops.zig), the callbacks of *)
(* the engine thread that open and close them (connections.zig), and the   *)
(* operations of the main thread on a handle (socket_io.zig).              *)
(*                                                                         *)
(* The slab is one atomic word a slot, read without a lock; the record is  *)
(* under its spin lock.  An operation resolves its handle in the first and *)
(* then works on the second, and the engine thread may close the           *)
(* connection and open another in the slot between any two of its steps.   *)
(*                                                                         *)
(* Nothing in the program drains the staging ring, so it only fills.       *)
(***************************************************************************)
EXTENDS Integers, Sequences, FiniteSets, SequencesExt, Functions

CONSTANTS Connections,    \* slots of the engine's pool and of the slab
          MaxConnections, \* limits.max_connections
          RingCapacity,   \* records the staging ring holds
          Uint32,         \* values of an index and of a generation, 2^32
          MaxOpened       \* bound: connections opened in all

ASSUME SlabAssumption ==
    /\ Connections \in Nat \ {0}
    /\ MaxConnections \in Nat
    /\ RingCapacity \in Nat \ {0}
    /\ Uint32 \in Nat /\ Connections < Uint32
    /\ MaxOpened \in Nat /\ MaxOpened < Uint32

Index      == 0 .. Connections - 1
Generation == 0 .. MaxOpened
Handle     == [index : Index, generation : Generation]
Nobody     == [index |-> 0, generation |-> 0]

\* A handle is a number to JavaScript, and an operation takes any number of 64
\* bits: one never issued may have an index beyond the slab.
to_int(h)     == h.generation * Uint32 + h.index
from_int(raw) == [index |-> raw % Uint32, generation |-> raw \div Uint32]

assertConnectionHandle(raw) == raw \in 0 .. Uint32 * Uint32 - 1

NeverIssued == {to_int(Nobody), to_int([index |-> Uint32 - 1, generation |-> 1])}

Operations == {"send", "close", "pause", "resume", "buffered"}

VARIABLES pool,      \* the engine's pool: slot -> free, live or refused
          word,      \* slab: slot -> its state and generation, one word
          active,    \* slab: its count of active slots
          record,    \* slot -> its socket record
          ring,      \* payloads staged for the engine, of every connection
          events,    \* connection events emitted so far
          delivered, \* how many of them JavaScript has seen
          engine,    \* engine thread: its step, and the handle it works on
          main       \* main thread: its step, its operation and handle

vars == <<pool, word, active, record, ring, events, delivered, engine, main>>
slab == <<word, active>>

IdleEngine == [pc |-> "idle", handle |-> Nobody]
IdleMain   == [pc |-> "idle", op |-> "send", handle |-> Nobody]

Init == /\ pool = [i \in Index |-> "free"]
        /\ word = [i \in Index |-> [state |-> "free", generation |-> 0]]
        /\ active = 0
        /\ record = [i \in Index |-> [generation |-> 0, state |-> "open",
                                      terminal |-> FALSE, buffered |-> 0,
                                      paused |-> FALSE, locked |-> FALSE]]
        /\ ring = <<>>
        /\ events = <<>>
        /\ delivered = 0
        /\ engine = IdleEngine
        /\ main = IdleMain

-----------------------------------------------------------------------------
(* The engine thread: on_open *)

Opening(i) == engine.pc = "idle" /\ pool[i] = "free"

\* Over the limit: terminated, with no slab slot.
OnOpenRefused(i) == /\ Opening(i)
                    /\ active >= MaxConnections
                    /\ pool' = [pool EXCEPT ![i] = "refused"]
                    /\ UNCHANGED <<slab, record, ring, events, delivered,
                                   engine, main>>

\* The bound, on all slots together and, which follows, on each.
Opened == FoldFunction(+, 0, [j \in Index |-> word[j].generation])
MayOpen(i) == Opened < MaxOpened /\ word[i].generation < MaxOpened

\* The slab slot is never busy (see MirrorsPool), so the duplicate connection
\* that on_open would terminate does not come up.
OnOpenAcquire(i) ==
    /\ Opening(i)
    /\ active < MaxConnections
    /\ word[i].state = "free"
    /\ MayOpen(i)
    /\ LET g == word[i].generation + 1
       IN  /\ word' = [word EXCEPT ![i] = [state |-> "active",
                                           generation |-> g]]
           /\ engine' = [pc |-> "open",
                         handle |-> [index |-> i, generation |-> g]]
    /\ active' = active + 1
    /\ pool' = [pool EXCEPT ![i] = "live"]
    /\ UNCHANGED <<record, ring, events, delivered, main>>

\* Mutant: the bytes of the slot's former connection are not reset.
OnOpenReset_KeepsBuffered ==
    LET i == engine.handle.index
    IN  /\ engine.pc = "open"
        /\ ~record[i].locked
        /\ record' = [record EXCEPT ![i] =
               [generation |-> engine.handle.generation, state |-> "open",
                terminal |-> FALSE, buffered |-> record[i].buffered,
                paused |-> FALSE, locked |-> FALSE]]
        /\ engine' = [engine EXCEPT !.pc = "emit_open"]
        /\ UNCHANGED <<pool, slab, ring, events, delivered, main>>

\* Mutant: the generation of the slot's former connection stays.
OnOpenReset_KeepsGeneration ==
    LET i == engine.handle.index
    IN  /\ engine.pc = "open"
        /\ ~record[i].locked
        /\ record' = [record EXCEPT ![i] =
               [generation |-> record[i].generation, state |-> "open",
                terminal |-> FALSE, buffered |-> 0, paused |-> FALSE,
                locked |-> FALSE]]
        /\ engine' = [engine EXCEPT !.pc = "emit_open"]
        /\ UNCHANGED <<pool, slab, ring, events, delivered, main>>

\* open: the record is reset under its lock, which the engine thread takes
\* and gives back within one step no other thread can look into.
OnOpenReset ==
    LET i == engine.handle.index
    IN  /\ engine.pc = "open"
        /\ ~record[i].locked
        /\ record' = [record EXCEPT ![i] =
               [generation |-> engine.handle.generation, state |-> "open",
                terminal |-> FALSE, buffered |-> 0, paused |-> FALSE,
                locked |-> FALSE]]
        /\ engine' = [engine EXCEPT !.pc = "emit_open"]
        /\ UNCHANGED <<pool, slab, ring, events, delivered, main>>

\* A full channel drops the event and on_open does not look: JavaScript never
\* learns of the connection.
OnOpenEmit == /\ engine.pc = "emit_open"
              /\ engine' = IdleEngine
              /\ \/ events' = Append(events, [kind |-> "connection_open",
                                              handle |-> engine.handle])
                 \/ events' = events
              /\ UNCHANGED <<pool, slab, record, ring, delivered, main>>

(* The engine thread: on_close *)

\* The latch was taken before: a refused connection whose slot was used.
OnCloseTerminal(i) == /\ engine.pc = "idle"
                      /\ pool[i] # "free"
                      /\ ~record[i].locked
                      /\ record[i].terminal
                      /\ pool' = [pool EXCEPT ![i] = "free"]
                      /\ UNCHANGED <<slab, record, ring, events, delivered,
                                     engine, main>>

OnCloseFinish(i) ==
    /\ engine.pc = "idle"
    /\ pool[i] # "free"
    /\ ~record[i].locked
    /\ ~record[i].terminal
    /\ record' = [record EXCEPT ![i].terminal = TRUE, ![i].state = "closed"]
    /\ engine' = [pc |-> "release", handle |-> [Nobody EXCEPT !.index = i]]
    /\ UNCHANGED <<pool, slab, ring, events, delivered, main>>

\* Mutant: release does not look at the state of the slot.
OnCloseRelease_AnyState ==
    LET i == engine.handle.index
    IN  /\ engine.pc = "release"
        /\ word' = [word EXCEPT ![i].state = "free"]
        /\ active' = active - 1
        /\ engine' = [pc |-> "emit_close",
                      handle |-> [engine.handle EXCEPT
                                      !.generation = word[i].generation]]
        /\ UNCHANGED <<pool, record, ring, events, delivered, main>>

\* Mutant: release forgets the count of active slots.
OnCloseRelease_KeepsCount ==
    LET i == engine.handle.index
    IN  /\ engine.pc = "release"
        /\ word[i].state = "active"
        /\ word' = [word EXCEPT ![i].state = "free"]
        /\ engine' = [pc |-> "emit_close",
                      handle |-> [engine.handle EXCEPT
                                      !.generation = word[i].generation]]
        /\ UNCHANGED <<pool, active, record, ring, events, delivered, main>>

\* release hands back the handle that was live; without one, a connection
\* refused before its slot was ever used, nothing is told.
OnCloseRelease ==
    LET i == engine.handle.index
    IN  /\ engine.pc = "release"
        /\ word[i].state = "active"
        /\ word' = [word EXCEPT ![i].state = "free"]
        /\ active' = active - 1
        /\ engine' = [pc |-> "emit_close",
                      handle |-> [engine.handle EXCEPT
                                      !.generation = word[i].generation]]
        /\ UNCHANGED <<pool, record, ring, events, delivered, main>>

OnCloseNothing ==
    LET i == engine.handle.index
    IN  /\ engine.pc = "release"
        /\ word[i].state # "active"
        /\ pool' = [pool EXCEPT ![i] = "free"]
        /\ engine' = IdleEngine
        /\ UNCHANGED <<slab, record, ring, events, delivered, main>>

OnCloseEmit ==
    /\ engine.pc = "emit_close"
    /\ events' = Append(events, [kind |-> "connection_close",
                                 handle |-> engine.handle])
    /\ pool' = [pool EXCEPT ![engine.handle.index] = "free"]
    /\ engine' = IdleEngine
    /\ UNCHANGED <<slab, record, ring, delivered, main>>

Callback == \/ OnOpenReset \/ OnOpenEmit
            \/ OnCloseRelease \/ OnCloseNothing \/ OnCloseEmit
            \/ \E i \in Index : \/ OnCloseTerminal(i) \/ OnCloseFinish(i)

Accept == \E i \in Index : OnOpenRefused(i) \/ OnOpenAcquire(i)

-----------------------------------------------------------------------------
(* The main thread *)

\* The handles JavaScript was given, dead or alive.
Known == {to_int(events[k].handle) :
             k \in {j \in 1 .. delivered : events[j].kind = "connection_open"}}

Deliver == /\ main.pc = "idle"
           /\ delivered < Len(events)
           /\ delivered' = delivered + 1
           /\ UNCHANGED <<pool, slab, record, ring, events, engine, main>>

\* resolve_connection: one load of the slab word.
Resolves(h) == /\ h.index \in Index
               /\ word[h.index] = [state |-> "active",
                                   generation |-> h.generation]

Resolve(op, raw) ==
    /\ main.pc = "idle"
    /\ assertConnectionHandle(raw)
    /\ main' = [pc |-> IF Resolves(from_int(raw)) THEN "lock" ELSE "stale",
                op |-> op, handle |-> from_int(raw)]
    /\ UNCHANGED <<pool, slab, record, ring, events, delivered, engine>>

\* invalid_handle from the slab; or, for send, a payload above the frame cap.
Return == /\ \/ main.pc = "stale"
             \/ main.pc = "lock" /\ main.op = "send"
          /\ main' = IdleMain
          /\ UNCHANGED <<pool, slab, record, ring, events, delivered, engine>>

\* The record of the operation, and the operation's next step.
Mine == record[main.handle.index]
Goto(from, to) == main.pc = from /\ main' = [main EXCEPT !.pc = to]

Lock == /\ Goto("lock", "check")
        /\ ~Mine.locked
        /\ record' = [record EXCEPT ![main.handle.index].locked = TRUE]
        /\ UNCHANGED <<pool, slab, ring, events, delivered, engine>>

\* Mutant: the handle that resolved before the lock is trusted after it.
Accepted_Resolved == Mine.state = "open" \/ main.op = "buffered"

\* buffered reports the bytes of its own generation and looks at no state.
Accepted == /\ Mine.generation = main.handle.generation
            /\ Mine.state = "open" \/ main.op = "buffered"

\* The generation, the state, and for close the code and the reason.
Check == /\ Goto("check", IF main.op = "buffered" THEN "unlock" ELSE "act")
         /\ Accepted
         /\ UNCHANGED <<pool, slab, record, ring, events, delivered, engine>>

\* Mutant: the early return comes before the deferred unlock.
CheckOutlived_KeepsLock ==
    /\ main.pc = "check"
    /\ Mine.generation # main.handle.generation
    /\ main' = IdleMain
    /\ UNCHANGED <<pool, slab, record, ring, events, delivered, engine>>

\* invalid_handle: the record belongs to another generation.
CheckOutlived == /\ Goto("check", "outlived")
                 /\ Mine.generation # main.handle.generation
                 /\ UNCHANGED <<pool, slab, record, ring, events, delivered,
                                engine>>

\* closing or closed; or an invalid close code or reason.
CheckRefused == /\ Goto("check", "unlock")
                /\ Mine.generation = main.handle.generation
                /\ main.op = "close" \/ (main.op # "buffered"
                                         /\ Mine.state # "open")
                /\ UNCHANGED <<pool, slab, record, ring, events, delivered,
                               engine>>

\* A message is one byte and a close frame two, its code.
BytesOf(kind) == IF kind = "close" THEN 2 ELSE 1

Stage == /\ main.op \in {"send", "close"}
         /\ Goto("act", IF main.op = "close" THEN "state" ELSE "account")
         /\ Len(ring) < RingCapacity
         /\ ring' = Append(ring, [kind   |-> IF main.op = "close" THEN "close"
                                             ELSE "message",
                                  handle |-> main.handle])
         /\ UNCHANGED <<pool, slab, record, events, delivered, engine>>

\* backpressure: a close that does not fit leaves the connection open.
StageFull == /\ main.op \in {"send", "close"}
             /\ Goto("act", "unlock")
             /\ Len(ring) = RingCapacity
             /\ UNCHANGED <<pool, slab, record, ring, events, delivered,
                            engine>>

EnterClosing == /\ Goto("state", "account")
                /\ record' = [record EXCEPT
                                  ![main.handle.index].state = "closing"]
                /\ UNCHANGED <<pool, slab, ring, events, delivered, engine>>

Account == /\ Goto("account", "unlock")
           /\ record' = [record EXCEPT ![main.handle.index].buffered =
                             @ + BytesOf(main.op)]
           /\ UNCHANGED <<pool, slab, ring, events, delivered, engine>>

SetPaused == /\ main.op \in {"pause", "resume"}
             /\ Goto("act", "unlock")
             /\ record' = [record EXCEPT ![main.handle.index].paused =
                               (main.op = "pause")]
             /\ UNCHANGED <<pool, slab, ring, events, delivered, engine>>

Unlock == /\ main.pc \in {"unlock", "outlived"}
          /\ main' = IdleMain
          /\ record' = [record EXCEPT ![main.handle.index].locked = FALSE]
          /\ UNCHANGED <<pool, slab, ring, events, delivered, engine>>

Operate == \/ Return \/ Check \/ CheckOutlived \/ CheckRefused
           \/ Stage \/ StageFull \/ EnterClosing \/ Account \/ SetPaused
           \/ Unlock

Next == \/ Accept \/ Callback
        \/ Deliver \/ Lock \/ Operate
        \/ \E op \in Operations, raw \in Known \cup NeverIssued : Resolve(op, raw)

Spec == Init /\ [][Next]_vars

\* Both threads run; the spin on the lock wins against a thread that keeps
\* giving it back.  JavaScript need not dispatch or call, peers need not come.
FairSpec == Spec /\ WF_vars(Callback) /\ WF_vars(Operate) /\ SF_vars(Lock)

-----------------------------------------------------------------------------
(* Properties *)

TypeOK ==
    /\ pool \in [Index -> {"free", "live", "refused"}]
    /\ word \in [Index -> [state : {"free", "active"},
                           generation : Generation]]
    /\ active \in 0 .. Connections
    /\ record \in [Index -> [generation : Generation,
                             state : {"open", "closing", "closed"},
                             terminal : BOOLEAN, buffered : Nat,
                             paused : BOOLEAN, locked : BOOLEAN]]
    /\ ring \in Seq([kind : {"message", "close"}, handle : Handle])
    /\ Len(ring) <= RingCapacity
    /\ events \in Seq([kind : {"connection_open", "connection_close"},
                       handle : Handle])
    /\ delivered \in 0 .. Len(events)
    /\ engine \in [pc : {"idle", "open", "emit_open", "release",
                         "emit_close"}, handle : Handle]
    /\ main \in [pc : {"idle", "lock", "stale", "check", "outlived", "act",
                       "state", "account", "unlock"},
                 op : Operations,
                 handle : [index : 0 .. Uint32 - 1, generation : 0 .. Uint32 - 1]]

\* The slab and the records mirror the engine's pool: a connection the pool
\* hands out never finds its slab slot busy, the count that the limit is
\* checked against is the number of live connections, and the record is the
\* live connection's own (connections.zig:42-53).
MirrorsPool ==
    engine.pc = "idle" =>
        /\ active = Cardinality({i \in Index : pool[i] = "live"})
        /\ active <= MaxConnections
        /\ \A i \in Index :
               /\ (word[i].state = "active") = (pool[i] = "live")
               /\ pool[i] = "live" =>
                      /\ record[i].generation = word[i].generation
                      /\ ~record[i].terminal

\* Every connection that ended is told as closed exactly once, and nothing is
\* told of a connection that never was, however it ended and however often its
\* slot was used or refused (socket.zig:88-97, connections.zig:62-73).
ClosedExactlyOnce ==
    \A h \in Handle :
        LET tells == {k \in 1 .. Len(events) :
                         /\ events[k].kind = "connection_close"
                         /\ events[k].handle = h}
        IN  Cardinality(tells) =
                IF /\ h.generation \in 1 .. word[h.index].generation
                   /\ ~Resolves(h)
                   /\ ~(engine.pc = "emit_close" /\ engine.handle = h)
                THEN 1 ELSE 0

\* A handle JavaScript holds is never invalid while its connection is live:
\* the record is reset before the handle is published, and closed before the
\* slab lets go (socket_io.zig:83-90, connections.zig:49-54).
LiveHandleWorks ==
    main.pc \in {"stale", "outlived"} => ~Resolves(main.handle)

\* With the lock free, the record counts exactly the bytes its own generation
\* has staged: a slot's former connection leaves nothing behind and a stale
\* send adds nothing (socket.zig:110-119).
Payloads(q, h, kind) == {k \in DOMAIN q : q[k] = [kind |-> kind, handle |-> h]}

Bytes(q, h) == Cardinality(Payloads(q, h, "message")) * BytesOf("message")
                  + Cardinality(Payloads(q, h, "close")) * BytesOf("close")

BufferedExact ==
    \A i \in Index :
        ~record[i].locked /\ record[i].generation > 0 =>
            record[i].buffered =
                Bytes(ring, [index |-> i, generation |-> record[i].generation])

\* What was staged for a handle and where its record stands, seen as one
\* connection's life.  A close takes effect when its frame is staged; before
\* the lock is given back the state has to follow.
Kinds(q, h) ==
    LET upTo[n \in 0 .. Len(q)] ==
            IF n = 0 THEN <<>>
            ELSE IF q[n].handle = h THEN Append(upTo[n - 1], q[n].kind)
                                    ELSE upTo[n - 1]
    IN  upTo[Len(q)]

Staged(h) == Kinds(ring, h)

Phase(h) ==
    LET r == record[h.index]
    IN  IF h.generation > r.generation THEN "none"
        ELSE IF h.generation < r.generation \/ r.state = "closed" THEN "closed"
        ELSE IF \/ r.state = "closing"
                \/ r.locked /\ Contains(Staged(h), "close")
             THEN "closing" ELSE "open"

\* Generations count from one.
Named == [index : Index, generation : 1 .. MaxOpened]

Silent == {h \in Named : /\ Phase(h) \in {"open", "closing"}
                         /\ record[h.index].paused}

Life == INSTANCE ConnectionLife WITH
            Generation <- 1 .. MaxOpened,
            phase  <- [h \in Named |-> Phase(h)],
            staged <- [h \in Named |-> Staged(h)],
            silent <- Silent

\* Slab, records and lock implement one life per handle: nothing is staged for
\* a connection after its close frame or its end, and no operation on a stale
\* handle touches the connection that took its slot over, whenever the engine
\* thread closes and reopens it (socket.zig:7-10, socket_ops.zig:3-6).
ImplementsLife == Life!Spec

\* Every operation returns: no path leaves a record locked.
OperationReturns == (main.pc # "idle") ~> (main.pc = "idle")
=============================================================================
