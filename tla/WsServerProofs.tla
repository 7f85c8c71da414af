--------------------------- MODULE WsServerProofs ---------------------------
(***************************************************************************)
(* Theorems about WsServer, for any streams, callbacks and answers: it       *)
(* implements ServerClose, and tracks its clients until they are gone.       *)
(***************************************************************************)
EXTENDS WsServer, TLAPS, FiniteSetTheorems

(* Only the outermost frame is a close event; its server is closed, and it  *)
(* has yet to reach the oldest of the callbacks registered.                 *)
FramesInv ==
    \A i \in DOMAIN frames : frames[i].call = "emitClose" =>
        /\ i = 1
        /\ server.lifecycle = "closed"
        /\ Len(frames[i].rest) <= Len(closers)
        /\ \A k \in 1 .. Len(frames[i].rest) : frames[i].rest[k] = closers[k]

(* The callbacks registered are those that wait, each of them once.         *)
ClosersInv ==
    /\ \A i, j \in DOMAIN closers : closers[i] = closers[j] => i = j
    /\ \A c \in Callback :
          answer[c] \in {"asked", "refused"} <=> \E i \in DOMAIN closers : closers[i] = c

(* Who owes a close event: nobody while the server runs, and a close() of a *)
(* closed server only when it has closed.                                   *)
OwedInv ==
    /\ server.lifecycle = "running" =>
          ticks = <<>> /\ ~httpClosing /\ ~server.shouldEmitClose
    /\ server.lifecycle # "closed" =>
          /\ \A i \in DOMAIN ticks : ticks[i] = "emitClose"
          /\ \A c \in Callback : answer[c] \in {"unasked", "asked"}

PromiseInv == TypeOK /\ FramesInv /\ ClosersInv /\ OwedInv

-----------------------------------------------------------------------------
(* The stack *)

Stack == Seq(Frame)
(* What the frame of an upgrade, of a socket's close and of a close event   *)
(* are made of.                                                             *)
LEMMA FrameParts ==
    ASSUME NEW f \in Frame
    PROVE  /\ f.call = "handleUpgrade" =>
                 /\ f.stream \in Stream
                 /\ \A e \in {"hooks", "open", "callback"} :
                       /\ [f EXCEPT !.step = e] \in Frame
                       /\ [f EXCEPT !.step = e].call = f.call
           /\ f.call = "socketClose" =>
                 /\ f.stream \in Stream
                 /\ \A e \in {"before", "after"} :
                       /\ [f EXCEPT !.step = e] \in Frame
                       /\ [f EXCEPT !.step = e].call = f.call
           /\ f.call = "emitClose" =>
                 /\ f.rest \in Seq(Callback)
                 /\ \A r \in Seq(Callback) : 
                       /\ [f EXCEPT !.rest = r] \in Frame
                       /\ [f EXCEPT !.rest = r].call = f.call
                       /\ [f EXCEPT !.rest = r].rest = r
BY DEF Frame

(* A step that begins, carries on or ends no close event.                   *)
SameEvents(q, r) ==
    \/ r = q
    \/ \E f \in Frame : f.call # "emitClose" /\ r = Append(q, f)
    \/ /\ q # <<>> /\ Last(q).call # "emitClose"
       /\ \/ r = Front(q)
          \/ \E f \in Frame : f.call # "emitClose" /\ r = [q EXCEPT ![Len(q)] = f]

LEMMA SameEventsKeep ==
    ASSUME NEW q \in Stack, NEW r, SameEvents(q, r)
    PROVE  /\ r \in Stack
           /\ \A i \in DOMAIN r : r[i].call = "emitClose" => i \in DOMAIN q /\ r[i] = q[i]
           /\ \A i \in DOMAIN q : q[i].call = "emitClose" => i \in DOMAIN r /\ r[i] = q[i]
<1> USE DEF Stack
<1>1. CASE r = q
    BY <1>1
<1>2. CASE \E f \in Frame : f.call # "emitClose" /\ r = Append(q, f)
    BY <1>2
<1>3. CASE q # <<>> /\ Last(q).call # "emitClose" /\ r = Front(q)
    BY <1>3 DEF Last, Front
<1>4. CASE /\ q # <<>> /\ Last(q).call # "emitClose"
           /\ \E f \in Frame : f.call # "emitClose" /\ r = [q EXCEPT ![Len(q)] = f]
    BY <1>4 DEF Last
<1> QED BY <1>1, <1>2, <1>3, <1>4 DEF SameEvents

(* The frame on top.                                                        *)
LEMMA TopFrame ==
    ASSUME NEW q \in Stack, q # <<>>
    PROVE  /\ Last(q) \in Frame
           /\ Last(q) = q[Len(q)] /\ Len(q) \in DOMAIN q
           /\ Front(q) \in Stack
BY DEF Stack, Last, Front

-----------------------------------------------------------------------------
(* Types *)

LEMMA InitPromiseInv == Init => PromiseInv
<1> SUFFICES ASSUME Init PROVE PromiseInv
    OBVIOUS
<1>1. options \in Option
    BY DEF Init, normalizeServerOptions
<1>2. server \in Server
    <2>1. (options.port \/ options.server) \in BOOLEAN
        BY <1>1, Zenon DEF Option
    <2> QED BY <2>1 DEF Init, Server
<1>3. stream \in [Stream -> Record]
    <2>1. [transport |-> "idle", owned |-> FALSE, upgraded |-> FALSE, answers |-> 0,
           readyState |-> "none"] \in Record
        BY ServerAssumption DEF Record, Transport, ReadyState
    <2> QED BY <2>1 DEF Init
<1>4. TypeOK
    <2>1. answer \in [Callback -> Answer]
        BY DEF Init, Answer
    <2>2. /\ closers \in Seq(Callback) /\ frames \in Seq(Frame)
          /\ ticks \in Seq({"emitClose", "emitCloseAgain"})
        BY DEF Init
    <2>3. httpClosing \in BOOLEAN /\ late \in SUBSET Stream /\ emitted \in Nat
        BY DEF Init
    <2> QED BY <1>1, <1>2, <1>3, <2>1, <2>2, <2>3 DEF TypeOK
<1> QED BY <1>4 DEF Init, PromiseInv, FramesInv, ClosersInv, OwedInv

(* What a step may change of a stream leaves it one.                        *)
LEMMA RecordUpdates ==
    ASSUME NEW r \in Record
    PROVE  /\ \A t \in Transport : [r EXCEPT !.transport = t] \in Record
           /\ \A n \in 0 .. MaxAnswers : [r EXCEPT !.answers = n] \in Record
           /\ \A t \in ReadyState :
                 [r EXCEPT !.readyState = t] \in Record
           /\ [r EXCEPT !.upgraded = TRUE] \in Record
BY DEF Record

(* The record of a stream that arrives, which nothing else has changed.      *)
LEMMA ArrivedRecord ==
    ASSUME TypeOK, NEW s \in Stream, NEW b \in BOOLEAN
    PROVE  /\ Arrived(s, b) \in Record
           /\ Arrived(s, b).transport = "live"
           /\ Arrived(s, b).owned = (options.port /\ ~b)
           /\ Arrived(s, b).upgraded = stream[s].upgraded
           /\ Arrived(s, b).readyState = stream[s].readyState
           /\ Arrived(s, b).answers = stream[s].answers
<1>1. stream[s] \in Record
    BY DEF TypeOK
<1>2. (options.port /\ ~b) \in BOOLEAN
    BY Zenon DEF TypeOK, Option
<1> DEFINE o == options.port /\ ~b
<1>3. Arrived(s, b) = [stream[s] EXCEPT !.transport = "live", !.owned = o]
    BY DEF Arrived
<1> QED
    <2> HIDE DEF o
    <2>1. o \in BOOLEAN => [stream[s] EXCEPT !.transport = "live", !.owned = o] \in Record
        BY <1>1 DEF Record, Transport
    <2>2. LET t == [stream[s] EXCEPT !.transport = "live", !.owned = o]
          IN  /\ t.transport = "live" /\ t.owned = o /\ t.upgraded = stream[s].upgraded
              /\ t.readyState = stream[s].readyState /\ t.answers = stream[s].answers
        BY <1>1, Zenon DEF Record
    <2> QED BY <1>2, <1>3, <2>1, <2>2 DEF o

LEMMA ServerUpdates ==
    ASSUME NEW r \in Server
    PROVE  /\ \A b \in BOOLEAN : 
                 LET t == [r EXCEPT !.lifecycle = "closing", !.wired = FALSE,
                                    !.shouldEmitClose = b]
                 IN  t \in Server /\ t.lifecycle = "closing"
           /\ LET t == [r EXCEPT !.lifecycle = "closed"]
              IN  t \in Server /\ t.lifecycle = "closed"
<1>1. ASSUME NEW b \in BOOLEAN
      PROVE  LET t == [r EXCEPT !.lifecycle = "closing", !.wired = FALSE,
                                !.shouldEmitClose = b]
             IN  t \in Server /\ t.lifecycle = "closing"
    BY Zenon DEF Server
<1>2. LET t == [r EXCEPT !.lifecycle = "closed"]
      IN  t \in Server /\ t.lifecycle = "closed"
    BY DEF Server
<1> QED BY <1>1, <1>2

LEMMA ClientsUpdate ==
    ASSUME NEW r \in Server, NEW c \in SUBSET Stream, NEW t,
           t = [r EXCEPT !.clients = c]
    PROVE  /\ t \in Server /\ t.lifecycle = r.lifecycle
           /\ t.shouldEmitClose = r.shouldEmitClose
BY DEF Server

-----------------------------------------------------------------------------
(* The steps that leave the close protocol alone, but for the deferred      *)
(* event the last client releases.                                          *)

Aside ==
    /\ SameEvents(frames, frames')
    /\ server'.lifecycle = server.lifecycle
    /\ server'.shouldEmitClose = server.shouldEmitClose
    /\ \/ ticks' = ticks
       \/ server.shouldEmitClose /\ ticks' = Append(ticks, "emitClose")
    /\ UNCHANGED <<httpClosing, answer, closers, emitted>>

LEMMA AsideTypes ==
    ASSUME TypeOK, Aside, options' = options, late' = late, server' \in Server,
           stream' \in [Stream -> Record]
    PROVE  TypeOK'
<1>1. frames' \in Seq(Frame)
    BY SameEventsKeep DEF TypeOK, Aside, Stack
<1>2. ticks' \in Seq({"emitClose", "emitCloseAgain"})
    <2>1. CASE ticks' = ticks
        BY <2>1 DEF TypeOK
    <2>2. CASE ticks' = Append(ticks, "emitClose")
        BY <2>2 DEF TypeOK
    <2> QED BY <2>1, <2>2 DEF Aside
<1> QED BY <1>1, <1>2 DEF TypeOK, Aside

(* A step that touches streams and the stack only.                          *)
LEMMA StreamStep ==
    ASSUME TypeOK, UNCHANGED <<options, server, closers, ticks, httpClosing, history>>,
           stream' \in [Stream -> Record], SameEvents(frames, frames')
    PROVE  TypeOK' /\ Aside
<1>1. Aside
    BY DEF Aside, history
<1>2. server' \in Server /\ options' = options /\ late' = late
    BY DEF TypeOK, history
<1> QED BY <1>1, <1>2, AsideTypes

LEMMA UpgradeCompletes ==
    ASSUME TypeOK, NEW s \in Stream, NEW r \in Record, completeUpgrade(s, r)
    PROVE  stream' \in [Stream -> Record] /\ SameEvents(frames, frames')
<1>1. \A t \in Record : [stream EXCEPT ![s] = t] \in [Stream -> Record]
    BY DEF TypeOK
<1>2. [call |-> "handleUpgrade", stream |-> s, step |-> "hooks"] \in Frame
    BY DEF Frame
<1>3. CASE r.transport # "live"
    <2>1. r.transport \in Transport
        BY DEF Record
    <2>2. [r EXCEPT !.transport = IF @ = "closed" THEN @ ELSE "destroyed"] \in Record
        BY <2>1, RecordUpdates DEF Transport
    <2> QED BY <1>1, <1>3, <2>2 DEF completeUpgrade, SameEvents
<1>4. CASE r.transport = "live" /\ r.upgraded
    BY <1>1, <1>4 DEF completeUpgrade, SameEvents
<1>5. CASE r.transport = "live" /\ ~r.upgraded /\ server.lifecycle # "running"
    <2>1. [r EXCEPT !.transport = "ending"] \in Record
        BY RecordUpdates DEF Transport
    <2> QED BY <1>1, <1>5, <2>1 DEF completeUpgrade, SameEvents
<1>6. CASE r.transport = "live" /\ ~r.upgraded /\ server.lifecycle = "running"
    <2>1. [r EXCEPT !.readyState = "CONNECTING"] \in Record
        BY RecordUpdates DEF ReadyState
    <2> QED BY <1>1, <1>2, <1>6, <2>1 DEF completeUpgrade, Push, SameEvents
<1> QED BY <1>3, <1>4, <1>5, <1>6

LEMMA UpgradeArrives ==
    ASSUME TypeOK, NEW s \in Stream, handleUpgrade(s) \/ VerifyAnswers(s)
    PROVE  TypeOK' /\ Aside
<1> stream[s] \in Record
    BY DEF TypeOK
<1>0. \A t \in Record : [stream EXCEPT ![s] = t] \in [Stream -> Record]
    BY DEF TypeOK
<1>2. stream' \in [Stream -> Record] /\ SameEvents(frames, frames')
    <2>1. CASE handleUpgrade(s)
        <3>1. PICK b \in BOOLEAN :
                 \/ abortOrEmit(s, Arrived(s, b))
                 \/ completeUpgrade(s, Arrived(s, b))
                 \/ /\ stream' = [stream EXCEPT ![s] =
                                     [Arrived(s, b) EXCEPT !.answers = MaxAnswers]]
                    /\ UNCHANGED frames
            BY <2>1, Zenon DEF handleUpgrade
        <3> DEFINE arrived == Arrived(s, b)
        <3>2. arrived \in Record
            BY ArrivedRecord
        <3> HIDE DEF arrived
        <3>3. CASE abortOrEmit(s, arrived)
            <4>1. PICK t \in {"ending", "live"} :
                     stream' = [stream EXCEPT ![s] = [arrived EXCEPT !.transport = t]]
                BY <3>3 DEF abortOrEmit
            <4>2. [arrived EXCEPT !.transport = t] \in Record
                BY <3>2, RecordUpdates DEF Transport
            <4> QED BY <1>0, <3>3, <4>1, <4>2 DEF abortOrEmit, SameEvents
        <3>4. CASE completeUpgrade(s, arrived)
            BY <3>2, <3>4, UpgradeCompletes
        <3>5. CASE /\ stream' = [stream EXCEPT ![s] = [arrived EXCEPT !.answers = MaxAnswers]]
                   /\ UNCHANGED frames
            <4>1. MaxAnswers \in 0 .. MaxAnswers
                BY ServerAssumption
            <4>2. [arrived EXCEPT !.answers = MaxAnswers] \in Record
                BY <3>2, <4>1, RecordUpdates
            <4> QED BY <1>0, <3>5, <4>2 DEF SameEvents
        <3> QED BY <3>1, <3>3, <3>4, <3>5 DEF arrived
    <2>2. CASE VerifyAnswers(s)
        <3> DEFINE answered == [stream[s] EXCEPT !.answers = @ - 1]
        <3>1. answered \in Record
            <4>1. stream[s].answers - 1 \in 0 .. MaxAnswers
                BY <2>2, ServerAssumption DEF VerifyAnswers, Record
            <4> QED BY <4>1, RecordUpdates
        <3>2. AfterAbort(s) \in Transport
            BY DEF AfterAbort, Transport, Record
        <3>3. [answered EXCEPT !.transport = AfterAbort(s)] \in Record
            BY <3>1, <3>2, RecordUpdates
        <3> HIDE DEF answered
        <3>4. CASE completeUpgrade(s, answered)
            BY <3>1, <3>4, UpgradeCompletes
        <3>5. CASE /\ stream' = [stream EXCEPT ![s] =
                                    [answered EXCEPT !.transport = AfterAbort(s)]]
                   /\ UNCHANGED frames
            BY <1>0, <3>3, <3>5 DEF SameEvents
        <3> QED BY <2>2, <3>4, <3>5 DEF VerifyAnswers, answered
    <2> QED BY <2>1, <2>2
<1> QED BY <1>2, StreamStep DEF handleUpgrade, VerifyAnswers, upgradeUnchanged

(* The upgrade or the socket's close on top goes on, or returns.             *)
LEMMA TopGoesOn ==
    ASSUME TypeOK, NEW e,
           \/ OnTop("handleUpgrade") /\ e \in {"hooks", "open", "callback"}
           \/ OnTop("socketClose") /\ e \in {"before", "after"}
    PROVE  /\ Upgraded \in Stream
           /\ GoOn(e) => SameEvents(frames, frames')
           /\ Pop => SameEvents(frames, frames')
<1> USE DEF OnTop
<1>1. /\ frames \in Stack /\ frames # <<>>
      /\ Last(frames) \in Frame /\ Last(frames) = frames[Len(frames)]
    BY TopFrame DEF TypeOK, Stack
<1>2. /\ Last(frames).call # "emitClose" /\ Last(frames).stream \in Stream
      /\ [Last(frames) EXCEPT !.step = e] \in Frame
      /\ [Last(frames) EXCEPT !.step = e].call = Last(frames).call
    BY <1>1, FrameParts
<1>3. GoOn(e) => frames' = [frames EXCEPT ![Len(frames)] = [Last(frames) EXCEPT !.step = e]]
    BY <1>1 DEF GoOn
<1> QED BY <1>1, <1>2, <1>3 DEF SameEvents, Pop, Upgraded

LEMMA SocketStep ==
    ASSUME TypeOK, NEW s \in Stream,
           closeConnection(s) \/ terminateConnection(s) \/ StreamDestroyed(s)
              \/ StreamEnds(s) \/ StreamCloses(s)
    PROVE  TypeOK' /\ Aside
<1> stream[s] \in Record
    BY DEF TypeOK
<1>0. \A t \in Record : [stream EXCEPT ![s] = t] \in [Stream -> Record]
    BY DEF TypeOK
<1>1. SameEvents(frames, frames')
    <2>1. [call |-> "socketClose", stream |-> s, step |-> "before"] \in Frame
        BY DEF Frame
    <2> QED BY <2>1 DEF closeConnection, terminateConnection, StreamDestroyed,
                        StreamEnds, StreamCloses, SameEvents, Push
<1>2. ASSUME NEW t \in Transport, NEW r \in ReadyState
      PROVE  /\ [stream EXCEPT ![s].transport = t, ![s].readyState = r]
                    \in [Stream -> Record]
             /\ [stream EXCEPT ![s].transport = t] \in [Stream -> Record]
             /\ [stream EXCEPT ![s].readyState = r] \in [Stream -> Record]
    <2>1. /\ [stream[s] EXCEPT !.transport = t] \in Record
          /\ [stream[s] EXCEPT !.readyState = r] \in Record
          /\ [stream[s] EXCEPT !.transport = t, !.readyState = r] \in Record
        BY DEF Record
    <2>2. /\ [stream EXCEPT ![s].transport = t, ![s].readyState = r]
                  = [stream EXCEPT ![s] = [stream[s] EXCEPT !.transport = t, !.readyState = r]]
          /\ [stream EXCEPT ![s].transport = t]
                  = [stream EXCEPT ![s] = [stream[s] EXCEPT !.transport = t]]
          /\ [stream EXCEPT ![s].readyState = r]
                  = [stream EXCEPT ![s] = [stream[s] EXCEPT !.readyState = r]]
        BY DEF TypeOK
    <2> QED BY <1>0, <2>1, <2>2
<1>3. stream' \in [Stream -> Record]
    <2>1. CASE closeConnection(s)
        <3>1. PICK r \in ReadyState : stream' = [stream EXCEPT ![s].readyState = r]
            BY <2>1 DEF closeConnection, TypeOK, ReadyState
        <3>2. "live" \in Transport
            BY DEF Transport
        <3> QED BY <1>2, <3>1, <3>2
    <2>2. CASE terminateConnection(s)
        BY <1>2, <2>2 DEF terminateConnection, ReadyState, Transport
    <2>3. CASE StreamDestroyed(s)
        BY <1>2, <2>3 DEF StreamDestroyed, Transported, Transport, ReadyState
    <2>4. CASE StreamEnds(s)
        BY <1>2, <2>4 DEF StreamEnds, Transported, Transport, ReadyState
    <2>5. CASE StreamCloses(s)
        <3>1. PICK r \in ReadyState :
                 stream' = [stream EXCEPT ![s].transport = "closed", ![s].readyState = r]
            <4>1. CASE stream[s].upgraded
                BY <2>5, <4>1 DEF StreamCloses, TypeOK, ReadyState
            <4>2. CASE ~stream[s].upgraded
                <5>1. stream[s].readyState \in ReadyState
                    BY DEF Record
                <5>2. stream' = [stream EXCEPT ![s].transport = "closed",
                                               ![s].readyState = stream[s].readyState]
                    BY <2>5, <4>2 DEF StreamCloses, TypeOK
                <5> QED BY <5>1, <5>2
            <4> QED BY <4>1, <4>2
        <3> QED BY <1>2, <3>1 DEF Transport
    <2> QED BY <2>1, <2>2, <2>3, <2>4, <2>5
<1> QED BY <1>1, <1>3, StreamStep
        DEF closeConnection, terminateConnection, StreamDestroyed, StreamEnds, StreamCloses

LEMMA UpgradeGoesOn ==
    ASSUME TypeOK, attachSocket \/ trackClient \/ CallbackReturns \/ Untrack \/ SocketClosed
    PROVE  TypeOK' /\ Aside
<1> USE DEF At
<1>1. CASE attachSocket
    <2>1. Upgraded \in Stream /\ SameEvents(frames, frames')
        BY <1>1, TopGoesOn DEF attachSocket
    <2>2. stream' \in [Stream -> Record]
        <3> DEFINE t == [stream[Upgraded] EXCEPT !.upgraded = TRUE, !.readyState = "OPEN"]
        <3>1. t \in Record
            <4>1. stream[Upgraded] \in Record
                BY <2>1 DEF TypeOK
            <4> QED BY <4>1 DEF Record, ReadyState
        <3>2. stream' = [stream EXCEPT ![Upgraded] = t]
            BY <1>1, <2>1 DEF attachSocket, TypeOK
        <3> QED BY <3>1, <3>2, <2>1 DEF TypeOK
    <2> QED BY <1>1, <2>1, <2>2, StreamStep DEF attachSocket
<1>2. CASE CallbackReturns \/ SocketClosed
    <2>1. SameEvents(frames, frames')
        BY <1>2, TopGoesOn DEF CallbackReturns, SocketClosed
    <2> QED BY <1>2, <2>1, StreamStep DEF CallbackReturns, SocketClosed, TypeOK
<1>3. CASE trackClient \/ Untrack
    <2>1. Upgraded \in Stream /\ SameEvents(frames, frames')
        BY <1>3, TopGoesOn DEF trackClient, Untrack
    <2>2. /\ server' \in Server /\ server'.lifecycle = server.lifecycle
          /\ server'.shouldEmitClose = server.shouldEmitClose
        <3>1. /\ server \in Server /\ server.clients \in SUBSET Stream
            BY DEF TypeOK, Server
        <3>2. /\ server.clients \cup {Upgraded} \in SUBSET Stream
              /\ server.clients \ {Upgraded} \in SUBSET Stream
            BY <2>1, <3>1
        <3>3. \/ server' = server
              \/ server' = [server EXCEPT !.clients = server.clients \cup {Upgraded}]
              \/ server' = [server EXCEPT !.clients = server.clients \ {Upgraded}]
            BY <1>3 DEF trackClient, Untrack
        <3> QED BY <3>1, <3>2, <3>3, ClientsUpdate
    <2>3. Aside
        BY <1>3, <2>1, <2>2 DEF Aside, trackClient, Untrack, history
    <2>4. options' = options /\ late' = late /\ stream' \in [Stream -> Record]
        BY <1>3 DEF trackClient, Untrack, history, TypeOK
    <2> QED BY <2>2, <2>3, <2>4, AsideTypes
<1> QED BY <1>1, <1>2, <1>3

-----------------------------------------------------------------------------
(* What the close events owed come to. *)

Events == Seq({"emitClose", "emitCloseAgain"})
Again(q) == {i \in DOMAIN q : q[i] = "emitCloseAgain"}

LEMMA AgainFinite ==
    ASSUME NEW q \in Events
    PROVE  IsFiniteSet(Again(q)) /\ Owed(q) = Cardinality(Again(q)) /\ Owed(q) \in Nat
<1>1. IsFiniteSet(1 .. Len(q))
    BY FS_Interval DEF Events
<1>2. Again(q) \subseteq 1 .. Len(q)
    BY DEF Again, Events
<1>3. IsFiniteSet(Again(q))
    BY <1>1, <1>2, FS_Subset
<1> QED BY <1>3, FS_CardinalityType DEF Owed, Again

(* A deferred event of the server's own adds nothing, one for a close() that *)
(* came late adds one.                                                      *)
LEMMA OwedAppend ==
    ASSUME NEW q \in Events
    PROVE  /\ Owed(Append(q, "emitClose")) = Owed(q)
           /\ Owed(Append(q, "emitCloseAgain")) = Owed(q) + 1
<1>1. Append(q, "emitClose") \in Events /\ Append(q, "emitCloseAgain") \in Events
    BY DEF Events
<1>2. Again(Append(q, "emitClose")) = Again(q)
    BY DEF Again, Events
<1>3. /\ Again(Append(q, "emitCloseAgain")) = Again(q) \cup {Len(q) + 1}
      /\ Len(q) + 1 \notin Again(q)
    BY DEF Again, Events
<1>4. Cardinality(Again(q) \cup {Len(q) + 1}) = Cardinality(Again(q)) + 1
    BY <1>3, AgainFinite, FS_AddElement
<1> QED BY <1>1, <1>2, <1>3, <1>4, AgainFinite

LEMMA OwedTail ==
    ASSUME NEW q \in Events, q # <<>>
    PROVE  /\ Tail(q) \in Events
           /\ Head(q) # "emitCloseAgain" => Owed(Tail(q)) = Owed(q)
           /\ Head(q) = "emitCloseAgain" => Owed(q) > 0 /\ Owed(Tail(q)) = Owed(q) - 1
<1> DEFINE Later == Again(q) \ {1}
           Shift == [i \in Again(Tail(q)) |-> i + 1]
<1>1. Tail(q) \in Events
    BY DEF Events
<1>2. Shift \in Bijection(Again(Tail(q)), Later)
    <2>1. \A i \in Again(Tail(q)) : i \in Nat /\ i + 1 \in Later
        BY DEF Again, Events
    <2>2. \A j \in Later : \E k \in Again(Tail(q)) : j = k + 1
        <3> TAKE j \in Later
        <3>1. j \in 2 .. Len(q) /\ q[j] = "emitCloseAgain"
            BY DEF Again, Events
        <3>2. PICK k \in 1 .. Len(Tail(q)) : j = k + 1
            BY <3>1 DEF Events
        <3>3. Tail(q)[k] = "emitCloseAgain" /\ k \in DOMAIN Tail(q)
            BY <3>1, <3>2 DEF Events
        <3> QED BY <3>2, <3>3 DEF Again
    <2>3. Shift \in [Again(Tail(q)) -> Later]
        BY <2>1
    <2>4. \A i, j \in Again(Tail(q)) : Shift[i] = Shift[j] => i = j
        BY <2>1
    <2>5. \A j \in Later : \E i \in Again(Tail(q)) : Shift[i] = j
        BY <2>2
    <2>6. DOMAIN Shift = Again(Tail(q))
        BY <2>3
    <2> QED BY <2>3, <2>4, <2>5, <2>6 DEF Bijection, Injection, Surjection, IsInjective
<1>3. Cardinality(Again(Tail(q))) = Cardinality(Later)
    <2> HIDE DEF Shift, Later
    <2>1. IsFiniteSet(Again(Tail(q)))
        BY <1>1, AgainFinite
    <2>2. ExistsBijection(Again(Tail(q)), Later)
        BY <1>2 DEF ExistsBijection
    <2> QED BY <2>1, <2>2, FS_Bijection
<1>4. CASE Head(q) # "emitCloseAgain"
    <2>1. Later = Again(q)
        BY <1>4 DEF Again, Events
    <2> QED BY <1>1, <1>3, <1>4, <2>1, AgainFinite
<1>5. CASE Head(q) = "emitCloseAgain"
    <2>1. 1 \in Again(q)
        BY <1>5 DEF Again, Events
    <2>2. Cardinality(Later) = Cardinality(Again(q)) - 1
        BY <2>1, AgainFinite, FS_RemoveElement
    <2>3. Cardinality(Later) \in Nat
        BY <1>1, <1>3, AgainFinite
    <2> QED BY <1>1, <1>3, <1>5, <2>2, <2>3, AgainFinite
<1> QED BY <1>1, <1>4, <1>5

-----------------------------------------------------------------------------
(* The close event under way. *)

LEMMA HeardKept ==
    ASSUME TypeOK, SameEvents(frames, frames')
    PROVE  Heard' = Heard
<1>1. frames \in Stack
    BY DEF TypeOK, Stack
<1>2. /\ frames' \in Stack
      /\ \A i \in DOMAIN frames' :
            frames'[i].call = "emitClose" => i \in DOMAIN frames /\ frames'[i] = frames[i]
      /\ \A i \in DOMAIN frames :
            frames[i].call = "emitClose" => i \in DOMAIN frames' /\ frames'[i] = frames[i]
    BY <1>1, SameEventsKeep
<1>3. /\ frames # <<>> <=> 1 \in DOMAIN frames
      /\ frames' # <<>> <=> 1 \in DOMAIN frames'
    BY <1>1, <1>2 DEF Stack
<1> QED BY <1>2, <1>3 DEF Heard

LEMMA AsideStep ==
    ASSUME PromiseInv, TypeOK', Aside
    PROVE  PromiseInv' /\ UNCHANGED Promise!vars
<1> USE DEF PromiseInv
<1>1. FramesInv'
    <2>1. \A i \in DOMAIN frames' :
             frames'[i].call = "emitClose" => i \in DOMAIN frames /\ frames'[i] = frames[i]
        BY SameEventsKeep DEF Aside, TypeOK, Stack
    <2> QED BY <2>1 DEF FramesInv, Aside
<1>2. ClosersInv'
    BY DEF ClosersInv, Aside
<1>3. OwedInv'
    <2>1. CASE ticks' = ticks
        BY <2>1 DEF OwedInv, Aside
    <2>2. CASE server.shouldEmitClose /\ ticks' = Append(ticks, "emitClose")
        <3>1. \A i \in DOMAIN ticks' :
                 \/ ticks'[i] = "emitClose"
                 \/ i \in DOMAIN ticks /\ ticks'[i] = ticks[i]
            BY <2>2 DEF TypeOK
        <3> QED BY <2>2, <3>1 DEF OwedInv, Aside
    <2> QED BY <2>1, <2>2 DEF Aside
<1>4. Heard' = Heard
    BY HeardKept DEF Aside
<1>5. Owed(ticks)' = Owed(ticks)
    BY OwedAppend DEF Aside, TypeOK, Events, Owed
<1> QED BY <1>1, <1>2, <1>3, <1>4, <1>5 DEF Promise!vars, Aside

-----------------------------------------------------------------------------
(* close() *)

LEMMA CloseTypes ==
    ASSUME TypeOK, NEW c \in Callback, closeWebSocketServer(c)
    PROVE  TypeOK'
<1>1. /\ server' \in Server
      /\ ticks' \in Seq({"emitClose", "emitCloseAgain"})
      /\ httpClosing' \in BOOLEAN
      /\ answer' \in [Callback -> Answer]
      /\ late' \in SUBSET Stream
    <2>1. CASE CloseStopped(c)
        <3>1. ticks' \in Seq({"emitClose", "emitCloseAgain"})
            BY <2>1 DEF CloseStopped, TypeOK
        <3>2. answer' \in [Callback -> Answer]
            BY <2>1 DEF CloseStopped, TypeOK, Answer
        <3> QED BY <2>1, <3>1, <3>2 DEF CloseStopped, TypeOK
    <2>2. CASE CloseAgain(c)
        BY <2>2 DEF CloseAgain, TypeOK, Answer
    <2>3. CASE CloseRunning(c)
        <3>1. server' \in Server
            <4>1. (External /\ MustDrain) \in BOOLEAN
                OBVIOUS
            <4> QED BY <2>3, <4>1, ServerUpdates DEF CloseRunning, TypeOK
        <3>2. httpClosing' \in BOOLEAN
            BY <2>3, Zenon DEF CloseRunning
        <3>3. late' \in SUBSET Stream
            BY <2>3 DEF CloseRunning
        <3>4. answer' \in [Callback -> Answer]
            BY <2>3 DEF CloseRunning, TypeOK, Answer
        <3>5. ticks' \in Seq({"emitClose", "emitCloseAgain"})
            BY <2>3 DEF CloseRunning, TypeOK
        <3> QED BY <3>1, <3>2, <3>3, <3>4, <3>5
    <2> QED BY <2>1, <2>2, <2>3 DEF closeWebSocketServer
<1>2. closers' \in Seq(Callback)
    BY DEF closeWebSocketServer, TypeOK
<1> QED BY <1>1, <1>2 DEF closeWebSocketServer, TypeOK

(* One more callback is registered.                                         *)
LEMMA AppendMembers ==
    ASSUME NEW T, NEW q \in Seq(T), NEW e \in T, \A i \in DOMAIN q : q[i] # e,
           \A i, j \in DOMAIN q : q[i] = q[j] => i = j
    PROVE  LET r == Append(q, e)
           IN  /\ \A i, j \in DOMAIN r : r[i] = r[j] => i = j
               /\ \A d \in T : (\E i \in DOMAIN r : r[i] = d)
                                   <=> \/ d = e
                                       \/ \E i \in DOMAIN q : q[i] = d
<1> DEFINE r == Append(q, e)
<1>1. /\ DOMAIN q = 1 .. Len(q) /\ Len(q) \in Nat
      /\ DOMAIN r = 1 .. (Len(q) + 1)
      /\ r[Len(q) + 1] = e /\ \A i \in 1 .. Len(q) : r[i] = q[i]
    OBVIOUS
<1> HIDE DEF r
<1>2. \A i \in DOMAIN r : i = Len(q) + 1 \/ i \in DOMAIN q
    BY <1>1
<1>3. Len(q) + 1 \in DOMAIN r /\ DOMAIN q \subseteq DOMAIN r
    BY <1>1
<1>4. \A i, j \in DOMAIN r : r[i] = r[j] => i = j
    BY <1>1, <1>2, <1>3
<1>5. \A d \in T : (\E i \in DOMAIN r : r[i] = d)
                        <=> \/ d = e
                            \/ \E i \in DOMAIN q : q[i] = d
    BY <1>1, <1>2, <1>3
<1> QED BY <1>4, <1>5 DEF r

LEMMA ClosePromised ==
    ASSUME PromiseInv, TypeOK', NEW c \in Callback, closeWebSocketServer(c)
    PROVE  PromiseInv' /\ Promise!Close(c)
<1> USE DEF PromiseInv
<1>1. \A i \in DOMAIN closers : closers[i] # c
    BY DEF ClosersInv, closeWebSocketServer
<1>2. /\ Len(closers') = Len(closers) + 1 /\ closers'[Len(closers) + 1] = c
      /\ \A i \in DOMAIN closers : closers'[i] = closers[i]
      /\ DOMAIN closers = 1 .. Len(closers) /\ DOMAIN closers' = 1 .. (Len(closers) + 1)
    BY DEF closeWebSocketServer, TypeOK
<1>3. /\ answer' \in [Callback -> Answer]
      /\ answer'[c] \in {"asked", "refused"}
      /\ \A d \in Callback : d # c => answer'[d] = answer[d]
    BY DEF closeWebSocketServer, CloseStopped, CloseAgain, CloseRunning, TypeOK
<1>4. FramesInv'
    <2>1. frames' = frames
        BY DEF closeWebSocketServer
    <2>2. server.lifecycle = "closed" => server'.lifecycle = "closed"
        BY DEF closeWebSocketServer, CloseStopped, CloseAgain, CloseRunning
    <2>3. ASSUME NEW i \in DOMAIN frames, frames[i].call = "emitClose"
          PROVE  /\ Len(frames[i].rest) <= Len(closers')
                 /\ \A k \in 1 .. Len(frames[i].rest) : frames[i].rest[k] = closers'[k]
        <3>1. frames[i] \in Frame
            BY DEF TypeOK
        <3>2. Len(frames[i].rest) \in Nat
            BY <2>3, <3>1, FrameParts
        <3>3. Len(closers) \in Nat
            BY DEF TypeOK
        <3>4. /\ Len(frames[i].rest) <= Len(closers)
              /\ \A k \in 1 .. Len(frames[i].rest) : frames[i].rest[k] = closers[k]
            BY <2>3 DEF FramesInv
        <3> QED BY <1>2, <3>2, <3>3, <3>4
    <2> QED BY <2>1, <2>2, <2>3 DEF FramesInv
<1>5. ClosersInv'
    <2>1. closers \in Seq(Callback) /\ closers' = Append(closers, c)
        BY DEF closeWebSocketServer, TypeOK
    <2>2. /\ \A i, j \in DOMAIN closers' : closers'[i] = closers'[j] => i = j
          /\ \A d \in Callback :
                (\E i \in DOMAIN closers' : closers'[i] = d)
                    <=> \/ d = c
                        \/ \E i \in DOMAIN closers : closers[i] = d
        BY <1>1, <2>1, AppendMembers DEF ClosersInv
    <2>3. \A d \in Callback :
             (\E i \in DOMAIN closers' : closers'[i] = d)
                 <=> answer'[d] \in {"asked", "refused"}
        BY <1>3, <2>2 DEF ClosersInv
    <2> QED BY <2>2, <2>3 DEF ClosersInv
<1>6. OwedInv'
    <2>1. CASE CloseStopped(c)
        BY <2>1 DEF CloseStopped, OwedInv
    <2>2. CASE CloseAgain(c)
        BY <1>3, <2>2 DEF CloseAgain, OwedInv, TypeOK
    <2>3. CASE CloseRunning(c)
        <3>1. ticks' = <<>> \/ ticks' = <<"emitClose">>
            BY <2>3 DEF CloseRunning, OwedInv
        <3>2. server'.lifecycle = "closing"
            BY <2>3 DEF CloseRunning, TypeOK, Server
        <3>3. \A d \in Callback : answer'[d] \in {"unasked", "asked"}
            BY <2>3 DEF CloseRunning, OwedInv, TypeOK
        <3> QED BY <3>1, <3>2, <3>3 DEF OwedInv
    <2> QED BY <2>1, <2>2, <2>3 DEF closeWebSocketServer
<1>7. Promise!Close(c)
    <2> DEFINE told == [d \in Callback |-> IF answer[d] = "refused" THEN "asked" ELSE answer[d]]
    <2>1. told[c] = "unasked"
        BY DEF closeWebSocketServer
    <2>2. told' = [told EXCEPT ![c] = "asked"]
        <3>1. \A d \in Callback : told'[d] = IF d = c THEN "asked" ELSE told[d]
            BY <1>3
        <3> QED BY <3>1
    <2>3. Heard' = Heard /\ emitted' = emitted
        BY DEF closeWebSocketServer, Heard
    <2>4. CASE CloseStopped(c)
        <3>1. answer'[c] = "refused"
            BY <2>4 DEF CloseStopped, TypeOK
        <3>2. {d \in Callback : answer'[d] = "refused"}
                  = {d \in Callback : answer[d] = "refused"} \cup {c}
            BY <1>3, <3>1
        <3>3. Owed(ticks') = Owed(ticks) + 1
            BY <2>4, OwedAppend DEF CloseStopped, TypeOK, Events
        <3>4. Owed(ticks)' = Owed(ticks')
            BY DEF Owed
        <3>5. server.lifecycle = "closed" /\ server'.lifecycle = server.lifecycle
            BY <2>4 DEF CloseStopped
        <3> HIDE DEF told
        <3> QED BY <2>1, <2>2, <2>3, <3>2, <3>3, <3>4, <3>5 DEF Promise!Close, told
    <2>5. CASE CloseAgain(c) \/ CloseRunning(c)
        <3>1. answer'[c] = "asked"
            BY <2>5 DEF CloseAgain, CloseRunning, TypeOK
        <3>2. {d \in Callback : answer'[d] = "refused"}
                  = {d \in Callback : answer[d] = "refused"}
            BY <1>3, <3>1 DEF closeWebSocketServer
        <3>3. Owed(ticks') = Owed(ticks)
            BY <2>5, OwedAppend DEF CloseAgain, CloseRunning, TypeOK, Events
        <3>4. Owed(ticks)' = Owed(ticks')
            BY DEF Owed
        <3>5. server.lifecycle # "closed" /\ server'.lifecycle = "closing"
            BY <2>5 DEF CloseAgain, CloseRunning, TypeOK, Server
        <3> HIDE DEF told
        <3> QED BY <2>1, <2>2, <2>3, <3>2, <3>3, <3>4, <3>5 DEF Promise!Close, told
    <2> QED BY <2>4, <2>5 DEF closeWebSocketServer
<1> QED BY <1>4, <1>5, <1>6, <1>7

-----------------------------------------------------------------------------
(* The close event. *)

CloseBegins ==
    /\ frames = <<>> /\ frames' = <<[call |-> "emitClose", rest |-> closers]>>
    /\ server'.lifecycle = "closed" /\ server' \in Server
    /\ emitted' = emitted + 1
    /\ UNCHANGED <<closers, answer, options, stream, late>>

LEMMA OnlyOne ==
    ASSUME NEW T, NEW q \in Seq(T), Len(q) = 1, NEW e \in T, NEW r, r = [q EXCEPT ![1] = e]
    PROVE  r \in Seq(T) /\ r # <<>> /\ DOMAIN r = {1} /\ r[1] = e
<1>1. DOMAIN r = DOMAIN q /\ DOMAIN q = 1 .. Len(q) /\ r[1] = e
    OBVIOUS
<1>2. r \in Seq(T) /\ r # <<>>
    OBVIOUS
<1> QED BY <1>1, <1>2

LEMMA Predecessor ==
    ASSUME NEW n \in Nat, NEW j \in 1 .. n, j # 1
    PROVE  \E i \in 1 .. (n - 1) : j = i + 1
<1>1. j - 1 \in 1 .. (n - 1) /\ j = (j - 1) + 1
    OBVIOUS
<1> WITNESS j - 1 \in 1 .. (n - 1)
<1> QED BY <1>1

(* The oldest callback leaves.                                              *)
LEMMA TailMembers ==
    ASSUME NEW T, NEW q \in Seq(T), q # <<>>, \A i, j \in DOMAIN q : q[i] = q[j] => i = j
    PROVE  LET r == Tail(q)
           IN  /\ r \in Seq(T) /\ Head(q) \in T /\ Head(q) = q[1]
               /\ Len(q) \in Nat \ {0} /\ Len(r) = Len(q) - 1
               /\ \A k \in 1 .. Len(r) : r[k] = q[k + 1]
               /\ \A i, j \in DOMAIN r : r[i] = r[j] => i = j
               /\ \A d \in T : (\E i \in DOMAIN r : r[i] = d)
                                   <=> d # Head(q) /\ \E i \in DOMAIN q : q[i] = d
<1> DEFINE r == Tail(q)
<1>1. /\ r \in Seq(T) /\ Head(q) \in T /\ Head(q) = q[1]
      /\ Len(q) \in Nat \ {0} /\ Len(r) = Len(q) - 1
      /\ DOMAIN q = 1 .. Len(q) /\ DOMAIN r = 1 .. (Len(q) - 1)
      /\ \A k \in 1 .. (Len(q) - 1) : r[k] = q[k + 1]
    OBVIOUS
<1> HIDE DEF r
<1>2. \A k \in 1 .. Len(r) : r[k] = q[k + 1] /\ k + 1 \in DOMAIN q
    BY <1>1
<1>3. ASSUME NEW i \in DOMAIN r, NEW j \in DOMAIN r, r[i] = r[j]
      PROVE  i = j
    <2>1. i + 1 \in DOMAIN q /\ j + 1 \in DOMAIN q /\ q[i + 1] = q[j + 1]
        BY <1>1, <1>3
    <2>2. i + 1 = j + 1
        BY <2>1
    <2> QED BY <1>1, <2>2
<1>4. ASSUME NEW d \in T
      PROVE  (\E i \in DOMAIN r : r[i] = d) <=> d # Head(q) /\ \E i \in DOMAIN q : q[i] = d
    <2>1. ASSUME NEW i \in DOMAIN r, r[i] = d
          PROVE  d # Head(q) /\ \E j \in DOMAIN q : q[j] = d
        <3>1. i + 1 \in DOMAIN q /\ q[i + 1] = d /\ i + 1 # 1 /\ 1 \in DOMAIN q
            BY <1>1, <2>1
        <3> QED BY <1>1, <3>1
    <2>2. ASSUME NEW j \in DOMAIN q, q[j] = d, d # Head(q)
          PROVE  \E i \in DOMAIN r : r[i] = d
        <3>1. j \in 1 .. Len(q) /\ j # 1
            BY <1>1, <2>2
        <3>2. PICK i \in 1 .. (Len(q) - 1) : j = i + 1
            BY <1>1, <3>1, Predecessor
        <3> QED BY <1>1, <2>2, <3>2
    <2> QED BY <2>1, <2>2
<1> QED BY <1>1, <1>2, <1>3, <1>4 DEF r

(* The event sets out for every callback that waits.                        *)
LEMMA EventBegins ==
    ASSUME PromiseInv, CloseBegins, httpClosing' \in BOOLEAN, ticks' \in Events
    PROVE  /\ PromiseInv'
           /\ Heard = {} /\ Heard' = {c \in Callback : answer[c] \in {"asked", "refused"}}
<1> USE DEF PromiseInv, CloseBegins
<1>1. TypeOK'
    <2>1. [call |-> "emitClose", rest |-> closers] \in Frame
        BY DEF TypeOK, Frame
    <2>2. frames' \in Seq(Frame)
        BY <2>1
    <2> QED BY <2>2 DEF TypeOK, Events
<1>2. /\ frames' # <<>> /\ frames'[1].call = "emitClose" /\ frames'[1].rest = closers
      /\ DOMAIN frames' = {1}
    OBVIOUS
<1>3. FramesInv'
    <2>1. Len(closers) \in Nat
        BY DEF TypeOK
    <2> QED BY <1>2, <2>1 DEF FramesInv
<1>4. ClosersInv' /\ OwedInv'
    BY DEF ClosersInv, OwedInv
<1>5. Heard = {} /\ Heard' = ToSet(closers)
    BY <1>2 DEF Heard
<1>6. ToSet(closers) = {c \in Callback : answer[c] \in {"asked", "refused"}}
    <2>1. ToSet(closers) \subseteq Callback
        BY DEF ToSet, TypeOK
    <2>2. \A c \in Callback : c \in ToSet(closers) <=> \E i \in DOMAIN closers : closers[i] = c
        BY DEF ToSet
    <2> QED BY <2>1, <2>2 DEF ClosersInv
<1> QED BY <1>1, <1>3, <1>4, <1>5, <1>6

(* ... and tells the oldest of them, or is over.                            *)
LEMMA EventGoesOn ==
    ASSUME PromiseInv, EmitStep
    PROVE  PromiseInv' /\ (UNCHANGED Promise!vars \/ \E c \in Callback : Promise!Tell(c))
<1> USE DEF PromiseInv
<1> DEFINE rest == Last(frames).rest
<1>1. /\ frames = <<Last(frames)>> /\ Last(frames) = frames[1] /\ Last(frames) \in Frame
      /\ Len(frames) = 1 /\ 1 \in DOMAIN frames
    <2>1. /\ Last(frames) \in Frame /\ Last(frames) = frames[Len(frames)]
          /\ Len(frames) \in DOMAIN frames
        BY TopFrame DEF EmitStep, OnTop, TypeOK, Stack
    <2>2. Len(frames) = 1
        BY <2>1 DEF FramesInv, EmitStep, OnTop
    <2> QED BY <2>1, <2>2 DEF TypeOK
<1>2. /\ rest \in Seq(Callback)
      /\ \A r \in Seq(Callback) :
            /\ [Last(frames) EXCEPT !.rest = r] \in Frame
            /\ [Last(frames) EXCEPT !.rest = r].call = "emitClose"
            /\ [Last(frames) EXCEPT !.rest = r].rest = r
    BY <1>1, FrameParts DEF EmitStep, OnTop
<1>3. /\ server.lifecycle = "closed" /\ Len(rest) <= Len(closers)
      /\ \A k \in 1 .. Len(rest) : rest[k] = closers[k]
    <2>1. 1 \in DOMAIN frames /\ frames[1].call = "emitClose"
        <3>1. Last(frames).call = "emitClose"
            BY DEF EmitStep, OnTop
        <3> QED BY <1>1, <3>1
    <2>2. /\ Len(frames[1].rest) <= Len(closers)
          /\ \A k \in 1 .. Len(frames[1].rest) : frames[1].rest[k] = closers[k]
          /\ server.lifecycle = "closed"
        BY <2>1 DEF FramesInv
    <2> QED BY <1>1, <2>2
<1>4. Heard = ToSet(rest)
    BY <1>1 DEF Heard, EmitStep, OnTop
<1>5. CASE rest = <<>> /\ Pop /\ UNCHANGED <<closers, answer>>
    <2>1. frames' = <<>>
        BY <1>1, <1>5 DEF Pop, Front
    <2>2. Heard = {} /\ Heard' = {}
        <3>1. Heard' = {}
            BY <2>1 DEF Heard
        <3>2. ToSet(rest) = {}
            BY <1>5 DEF ToSet
        <3> QED BY <1>4, <3>1, <3>2
    <2>3. TypeOK'
        BY <1>5, <2>1 DEF EmitStep, TypeOK
    <2>4. FramesInv' /\ ClosersInv' /\ OwedInv'
        BY <1>5, <2>1 DEF EmitStep, FramesInv, ClosersInv, OwedInv
    <2>5. UNCHANGED Promise!vars
        BY <1>5, <2>2 DEF EmitStep, Promise!vars, Owed
    <2> QED BY <2>3, <2>4, <2>5
<1>6. CASE /\ rest # <<>>
           /\ closers' = Tail(closers)
           /\ answer' = [answer EXCEPT ![Head(rest)] =
                            IF @ = "refused" THEN "not running" ELSE "closed"]
           /\ frames' = [frames EXCEPT ![Len(frames)].rest = Tail(rest)]
    <2>1. /\ closers \in Seq(Callback) /\ Len(closers) \in Nat /\ Len(rest) \in Nat \ {0}
          /\ DOMAIN closers = 1 .. Len(closers) /\ DOMAIN rest = 1 .. Len(rest)
        <3>1. closers \in Seq(Callback)
            BY DEF TypeOK
        <3>2. rest \in Seq(Callback) /\ rest # <<>>
            BY <1>2, <1>6
        <3> HIDE DEF rest
        <3> QED BY <3>1, <3>2
    <2>2. closers # <<>>
        BY <1>3, <2>1
    <2>3. \A i, j \in DOMAIN rest : rest[i] = rest[j] => i = j
        BY <1>3, <2>1 DEF ClosersInv
    <2> HIDE DEF rest
    <2>4. PICK c \in Callback : c = Head(rest)
        BY <1>2, <1>6, <2>3, TailMembers
    <2>5. /\ Tail(rest) \in Seq(Callback) /\ c \in Callback /\ c = rest[1]
          /\ Len(Tail(rest)) = Len(rest) - 1
          /\ \A k \in 1 .. Len(Tail(rest)) : Tail(rest)[k] = rest[k + 1]
          /\ \A d \in Callback : (\E i \in DOMAIN Tail(rest) : Tail(rest)[i] = d)
                                    <=> d # c /\ \E i \in DOMAIN rest : rest[i] = d
        <3>1. rest \in Seq(Callback) /\ rest # <<>>
            BY <1>2, <1>6
        <3> QED BY <2>3, <2>4, <3>1, TailMembers
    <2>6. /\ Tail(closers) \in Seq(Callback) /\ Head(closers) = closers[1]
          /\ Len(Tail(closers)) = Len(closers) - 1
          /\ \A k \in 1 .. Len(Tail(closers)) : Tail(closers)[k] = closers[k + 1]
          /\ \A i, j \in DOMAIN Tail(closers) :
                Tail(closers)[i] = Tail(closers)[j] => i = j
          /\ \A d \in Callback : (\E i \in DOMAIN Tail(closers) : Tail(closers)[i] = d)
                                    <=> /\ d # Head(closers)
                                        /\ \E i \in DOMAIN closers : closers[i] = d
        BY <2>1, <2>2, TailMembers DEF ClosersInv
    <2>7. Head(closers) = c
        BY <1>3, <2>1, <2>5, <2>6
    <2> DEFINE f == [Last(frames) EXCEPT !.rest = Tail(rest)]
    <2>8. f \in Frame /\ f.call = "emitClose" /\ f.rest = Tail(rest)
        BY <1>2, <2>5
    <2>9. /\ frames' \in Seq(Frame) /\ frames' # <<>>
          /\ DOMAIN frames' = {1} /\ frames'[1] = f
        <3>1. frames' = [frames EXCEPT ![1] = f]
            BY <1>1, <1>6
        <3>2. frames \in Seq(Frame) /\ Len(frames) = 1
            BY <1>1 DEF TypeOK
        <3> HIDE DEF f
        <3> QED BY <2>8, <3>1, <3>2, OnlyOne
    <2> HIDE DEF f
    <2>10. /\ answer' \in [Callback -> Answer] /\ answer'[c] \in {"closed", "not running"}
          /\ \A d \in Callback : d # c => answer'[d] = answer[d]
        BY <1>6, <2>4 DEF TypeOK, Answer
    <2>11. TypeOK'
        BY <1>6, <2>6, <2>9, <2>10 DEF EmitStep, TypeOK
    <2>12. FramesInv'
        <3>1. /\ Len(Tail(rest)) <= Len(Tail(closers))
              /\ \A k \in 1 .. Len(Tail(rest)) : Tail(rest)[k] = Tail(closers)[k]
            BY <1>3, <2>1, <2>5, <2>6
        <3>2. closers' = Tail(closers) /\ server'.lifecycle = "closed"
            BY <1>3, <1>6 DEF EmitStep
        <3> QED BY <2>8, <2>9, <3>1, <3>2 DEF FramesInv
    <2>13. ClosersInv'
        <3>1. closers' = Tail(closers)
            BY <1>6
        <3>2. \A d \in Callback : answer'[d] \in {"asked", "refused"}
                                    <=> d # c /\ answer[d] \in {"asked", "refused"}
            BY <2>10
        <3>3. \A d \in Callback :
                 answer[d] \in {"asked", "refused"} <=> \E i \in DOMAIN closers : closers[i] = d
            BY DEF ClosersInv
        <3>4. \A d \in Callback :
                 answer'[d] \in {"asked", "refused"}
                    <=> \E i \in DOMAIN closers' : closers'[i] = d
            BY <2>6, <2>7, <3>1, <3>2, <3>3
        <3> QED BY <2>6, <3>1, <3>4 DEF ClosersInv
    <2>14. OwedInv'
        BY <1>3 DEF EmitStep, OwedInv
    <2>15. Promise!Tell(c)
        <3>1. Heard' = ToSet(Tail(rest))
            BY <2>8, <2>9 DEF Heard
        <3>2. c \in ToSet(rest) /\ ToSet(Tail(rest)) = ToSet(rest) \ {c}
            <4>1. 1 \in DOMAIN rest
                BY <2>1
            <4>2. ToSet(rest) \subseteq Callback /\ ToSet(Tail(rest)) \subseteq Callback
                BY <1>2, <2>5 DEF ToSet
            <4> QED BY <2>5, <4>1, <4>2 DEF ToSet
        <3> DEFINE told == [d \in Callback |->
                               IF answer[d] = "refused" THEN "asked" ELSE answer[d]]
                   refused == {d \in Callback : answer[d] = "refused"}
        <3>3. answer'[c] = IF c \in refused THEN "not running" ELSE "closed"
            BY <1>6, <2>4 DEF TypeOK
        <3>4. refused' = refused \ {c}
            BY <2>5, <2>10
        <3>5. told' = [told EXCEPT ![c] = IF c \in refused THEN "not running" ELSE "closed"]
            <4>1. \A d \in Callback : told'[d] =
                     IF d = c THEN (IF c \in refused THEN "not running" ELSE "closed")
                     ELSE told[d]
                BY <2>10, <3>3
            <4> QED BY <4>1
        <3>6. UNCHANGED <<server.lifecycle, Owed(ticks), emitted>>
            BY DEF EmitStep, Owed
        <3> HIDE DEF told, refused
        <3> QED BY <1>4, <3>1, <3>2, <3>4, <3>5, <3>6 DEF Promise!Tell, told, refused
    <2> QED BY <2>11, <2>12, <2>13, <2>14, <2>15
<1> QED BY <1>5, <1>6 DEF EmitStep

LEMMA EventArrives ==
    ASSUME PromiseInv, RunTick \/ HttpCloses
    PROVE  PromiseInv' /\ (UNCHANGED Promise!vars \/ Promise!Emit)
<1> USE DEF PromiseInv
<1> DEFINE told == [c \in Callback |-> IF answer[c] = "refused" THEN "asked" ELSE answer[c]]
           refused == {c \in Callback : answer[c] = "refused"}
<1>1. frames = <<>> /\ ticks \in Events /\ server \in Server
    BY DEF RunTick, HttpCloses, Task, TypeOK, Events
<1>2. ASSUME CloseBegins, httpClosing' \in BOOLEAN, ticks' \in Events,
             \/ server.lifecycle = "closing" /\ Owed(ticks') = Owed(ticks)
             \/ /\ server.lifecycle = "closed"
                /\ Owed(ticks) > 0 /\ Owed(ticks') = Owed(ticks) - 1
      PROVE  PromiseInv' /\ Promise!Emit
    <2>1. /\ PromiseInv' /\ Heard = {}
          /\ Heard' = {c \in Callback : answer[c] \in {"asked", "refused"}}
        BY <1>2, EventBegins
    <2>2. {c \in Callback : told[c] = "asked"}
              = {c \in Callback : answer[c] \in {"asked", "refused"}}
        OBVIOUS
    <2>3. UNCHANGED <<told, refused>> /\ emitted' = emitted + 1
          /\ server'.lifecycle = "closed"
        BY <1>2 DEF CloseBegins
    <2>4. Owed(ticks)' = Owed(ticks')
        BY DEF Owed
    <2> HIDE DEF told, refused
    <2> QED BY <1>2, <2>1, <2>2, <2>3, <2>4 DEF Promise!Emit, told, refused
<1>3. Append(frames, [call |-> "emitClose", rest |-> closers])
          = <<[call |-> "emitClose", rest |-> closers]>>
    BY <1>1
<1>4. CASE RunTick /\ Head(ticks) = "emitClose" /\ server.lifecycle = "closed"
    <2>1. ticks' \in Events /\ Owed(ticks') = Owed(ticks)
        BY <1>1, <1>4, OwedTail DEF RunTick
    <2>2. UNCHANGED <<options, server, stream, closers, httpClosing, frames, history>>
        BY <1>4 DEF RunTick, emitClose, history
    <2>3. TypeOK'
        BY <2>1, <2>2 DEF TypeOK, history, Events
    <2>4. FramesInv' /\ ClosersInv' /\ OwedInv'
        BY <1>4, <2>2 DEF FramesInv, ClosersInv, OwedInv, history
    <2>5. UNCHANGED Promise!vars
        BY <2>1, <2>2 DEF Promise!vars, Heard, Owed, history
    <2> QED BY <2>3, <2>4, <2>5
<1>5. CASE RunTick /\ Head(ticks) = "emitClose" /\ server.lifecycle # "closed"
    <2>1. ticks # <<>> /\ server.lifecycle = "closing"
        BY <1>1, <1>5 DEF RunTick, OwedInv, Server
    <2>2. ticks' \in Events /\ Owed(ticks') = Owed(ticks)
        BY <1>1, <1>5, <2>1, OwedTail DEF RunTick
    <2>3. CloseBegins /\ httpClosing' \in BOOLEAN
        BY <1>1, <1>3, <1>5, ServerUpdates DEF CloseBegins, RunTick, emitClose, Push, TypeOK
    <2> QED BY <1>2, <2>1, <2>2, <2>3
<1>6. CASE RunTick /\ Head(ticks) # "emitClose"
    <2>1. ticks # <<>> /\ Head(ticks) = "emitCloseAgain" /\ ticks[1] = Head(ticks)
        BY <1>1, <1>6 DEF RunTick, Events
    <2>2. server.lifecycle = "closed"
        BY <1>1, <2>1 DEF OwedInv, Events
    <2>3. ticks' \in Events /\ Owed(ticks) > 0 /\ Owed(ticks') = Owed(ticks) - 1
        BY <1>1, <1>6, <2>1, OwedTail DEF RunTick
    <2>4. CloseBegins /\ httpClosing' \in BOOLEAN
        BY <1>1, <1>3, <1>6, <2>2 DEF CloseBegins, RunTick, emitCloseAgain, Push, TypeOK
    <2> QED BY <1>2, <2>2, <2>3, <2>4
<1>7. CASE HttpCloses /\ server.lifecycle = "closed"
    <2>1. /\ UNCHANGED <<options, server, stream, closers, ticks, frames, history>>
          /\ httpClosing' = FALSE
        BY <1>7 DEF HttpCloses, emitClose, history
    <2>2. TypeOK'
        BY <2>1 DEF TypeOK, history
    <2>3. FramesInv' /\ ClosersInv' /\ OwedInv'
        BY <1>7, <2>1 DEF FramesInv, ClosersInv, OwedInv, history
    <2>4. UNCHANGED Promise!vars
        BY <2>1 DEF Promise!vars, Heard, Owed, history
    <2> QED BY <2>2, <2>3, <2>4
<1>8. CASE HttpCloses /\ server.lifecycle # "closed"
    <2>1. server.lifecycle = "closing"
        BY <1>1, <1>8 DEF HttpCloses, OwedInv, Server
    <2>2. ticks' \in Events /\ Owed(ticks') = Owed(ticks)
        BY <1>1, <1>8 DEF HttpCloses, Owed
    <2>3. CloseBegins /\ httpClosing' \in BOOLEAN
        BY <1>1, <1>3, <1>8, ServerUpdates DEF CloseBegins, HttpCloses, emitClose, Push, TypeOK
    <2> QED BY <1>2, <2>1, <2>2, <2>3
<1> QED BY <1>4, <1>5, <1>6, <1>7, <1>8

-----------------------------------------------------------------------------
LEMMA StepPromised ==
    ASSUME PromiseInv, [Next]_vars
    PROVE  PromiseInv' /\ [Promise!Next]_(Promise!vars)
<1> USE DEF Promise!Next
<1>1. CASE \E c \in Callback : closeWebSocketServer(c)
    BY <1>1, CloseTypes, ClosePromised DEF PromiseInv
<1>2. CASE RunTick \/ HttpCloses
    BY <1>2, EventArrives
<1>3. CASE EmitStep
    BY <1>3, EventGoesOn
<1>4. ASSUME TypeOK', Aside
      PROVE  PromiseInv' /\ [Promise!Next]_(Promise!vars)
    BY <1>4, AsideStep
<1>5. CASE attachSocket \/ trackClient \/ CallbackReturns \/ Untrack \/ SocketClosed
    BY <1>4, <1>5, UpgradeGoesOn DEF PromiseInv
<1>6. CASE \E s \in Stream : handleUpgrade(s) \/ VerifyAnswers(s)
    BY <1>4, <1>6, UpgradeArrives DEF PromiseInv
<1>7. CASE \E s \in Stream :
              \/ closeConnection(s) \/ terminateConnection(s)
              \/ StreamDestroyed(s) \/ StreamEnds(s) \/ StreamCloses(s)
    BY <1>4, <1>7, SocketStep DEF PromiseInv
<1>8. CASE UNCHANGED vars
    <2>1. SameEvents(frames, frames')
        BY <1>8 DEF vars, SameEvents
    <2>2. TypeOK' /\ Aside
        <3>1. Aside
            BY <1>8, <2>1 DEF Aside, vars, history
        <3>2. TypeOK'
            BY <1>8 DEF vars, history, TypeOK, PromiseInv
        <3> QED BY <3>1, <3>2
    <2> QED BY <1>4, <2>2
<1> QED BY <1>1, <1>2, <1>3, <1>5, <1>6, <1>7, <1>8 DEF Next, Resume

(* The state stays what the code's types say, whatever application code     *)
(* does from its hooks and listeners.                                       *)
THEOREM TypeCorrect == Spec => []TypeOK
<1>1. PromiseInv => TypeOK
    BY DEF PromiseInv
<1> QED BY InitPromiseInv, StepPromised, <1>1, PTL DEF Spec

(* emitClose and closeWebSocketServer keep the promise of ServerClose: one   *)
(* closing, one close event for it and one for each close() that came late, *)
(* one answer to each callback, in an event that began after it was given.  *)
THEOREM PromiseKept == Spec => ImplementsPromise
<1>1. Init => Promise!Init
    <2> SUFFICES ASSUME Init PROVE Promise!Init
        OBVIOUS
    <2>1. Heard = {} /\ Owed(ticks) = 0
        <3>1. {i \in DOMAIN ticks : ticks[i] = "emitCloseAgain"} = {}
            BY DEF Init
        <3> QED BY <3>1, FS_EmptySet DEF Init, Heard, Owed
    <2> QED BY <2>1 DEF Init, Promise!Init
<1> QED BY <1>1, InitPromiseInv, StepPromised, PTL
        DEF Spec, ImplementsPromise, Promise!Spec

-----------------------------------------------------------------------------
(* The clients                                                              *)

(* Which upgrades, and which closes of a socket, the stack q is in.          *)
UpgradeAt(q, s, e) ==
    \E i \in DOMAIN q : q[i].call = "handleUpgrade" /\ q[i].stream = s /\ q[i].step = e
InUpgrade(q, s) ==
    \E i \in DOMAIN q : q[i].call = "handleUpgrade" /\ q[i].stream = s
SocketAt(q, s, e) ==
    \E i \in DOMAIN q : q[i].call = "socketClose" /\ q[i].stream = s /\ q[i].step = e

(* A stream is in one upgrade at a time, and a socket closes in a task.      *)
StackInv(q) ==
    /\ \A i, j \in DOMAIN q :
          /\ q[i].call = "handleUpgrade" /\ q[j].call = "handleUpgrade"
          /\ q[i].stream = q[j].stream
          => i = j
    /\ \A i \in DOMAIN q : q[i].call = "socketClose" => i = 1

(* Where a stream is on its way into the set of clients and out of it.       *)
ClientAt(s) ==
    /\ UpgradeAt(frames, s, "hooks") => ~stream[s].upgraded
    /\ UpgradeAt(frames, s, "open") =>
          /\ stream[s].upgraded /\ s \notin server.clients
          /\ stream[s].readyState # "CLOSED"
    /\ InUpgrade(frames, s) => stream[s].transport # "idle"
    /\ SocketAt(frames, s, "before") =>
          stream[s].upgraded /\ stream[s].readyState = "CLOSED"
    /\ ~stream[s].upgraded => s \notin server.clients
    /\ stream[s].upgraded =>
          /\ stream[s].readyState \in {"OPEN", "CLOSING", "CLOSED"}
          /\ stream[s].transport # "idle"
          /\ stream[s].readyState = "CLOSED" => stream[s].transport = "closed"
    /\ /\ stream[s].upgraded
       /\ ~UpgradeAt(frames, s, "open") /\ ~SocketAt(frames, s, "before")
       => (s \in server.clients <=>
              options.clientTracking /\ stream[s].readyState # "CLOSED")
    /\ ~options.clientTracking => s \notin server.clients

(* Whom a server that is closing has yet to wait for, and who does not wait. *)
DrainInv ==
    /\ \A s \in Stream :
          server.lifecycle # "running" /\ InUpgrade(frames, s) => s \in late
    /\ External => ~httpClosing
    /\ External /\ (server.lifecycle = "closed"
                       \/ \E i \in DOMAIN ticks : ticks[i] = "emitClose") =>
          server.clients \subseteq late
    /\ ~External => /\ ~server.shouldEmitClose
                    /\ \A i \in DOMAIN ticks : ticks[i] # "emitClose"
    /\ ~External /\ server.lifecycle = "closed" =>
          \A s \in Stream :
             /\ ~InUpgrade(frames, s)
             /\ s \in server.clients =>
                   (stream[s].owned => stream[s].transport \in {"destroyed", "closed"})

TrackInv ==
    /\ StackInv(frames)
    /\ \A s \in Stream : ClientAt(s)
    /\ DrainInv

(* How the stack moves.                                                     *)
UpgradePushed(q, r, s) ==
    r = Append(q, [call |-> "handleUpgrade", stream |-> s, step |-> "hooks"])
SocketPushed(r, s) ==
    r = Append(<<>>, [call |-> "socketClose", stream |-> s, step |-> "before"])
TopMoved(q, r, e) == r = [q EXCEPT ![Len(q)].step = e]

LEMMA PushUpgrade ==
    ASSUME NEW q \in Stack, StackInv(q), NEW s \in Stream, ~InUpgrade(q, s), NEW r,
           UpgradePushed(q, r, s)
    PROVE  /\ StackInv(r)
           /\ InUpgrade(r, s) /\ UpgradeAt(r, s, "hooks")
           /\ \A e : UpgradeAt(r, s, e) => e = "hooks"
           /\ \A z, e : SocketAt(r, z, e) <=> SocketAt(q, z, e)
           /\ \A z \in Stream \ {s} : /\ InUpgrade(r, z) <=> InUpgrade(q, z)
                              /\ \A e : UpgradeAt(r, z, e) <=> UpgradeAt(q, z, e)
BY DEF UpgradePushed, Stack, StackInv, InUpgrade, UpgradeAt, SocketAt

LEMMA PushSocket ==
    ASSUME NEW s \in Stream, NEW r, SocketPushed(r, s)
    PROVE  /\ StackInv(r)
           /\ \A z : ~InUpgrade(r, z) /\ \A e : ~UpgradeAt(r, z, e)
           /\ \A z, e : SocketAt(r, z, e) <=> z = s /\ e = "before"
BY DEF SocketPushed, StackInv, InUpgrade, UpgradeAt, SocketAt

LEMMA TopMoves ==
    ASSUME NEW q \in Stack, StackInv(q), q # <<>>, NEW e, NEW r,
           Last(q).call = "handleUpgrade", TopMoved(q, r, e)
    PROVE  /\ StackInv(r)
           /\ \A z : InUpgrade(r, z) <=> InUpgrade(q, z)
           /\ InUpgrade(q, Last(q).stream) /\ UpgradeAt(q, Last(q).stream, Last(q).step)
           /\ \A d : UpgradeAt(r, Last(q).stream, d) <=> d = e
           /\ \A z, d : z # Last(q).stream => (UpgradeAt(r, z, d) <=> UpgradeAt(q, z, d))
           /\ \A z, d : SocketAt(r, z, d) <=> SocketAt(q, z, d)
<1>1. /\ Last(q) = q[Len(q)] /\ Len(q) \in DOMAIN q /\ DOMAIN r = DOMAIN q
      /\ \A i \in DOMAIN q : i # Len(q) => r[i] = q[i]
      /\ r[Len(q)] = [q[Len(q)] EXCEPT !.step = e]
    BY DEF Last, Stack, TopMoved
<1>2. /\ r[Len(q)].call = "handleUpgrade" /\ r[Len(q)].stream = Last(q).stream
      /\ r[Len(q)].step = e
    <2>1. q[Len(q)] \in Frame
        BY <1>1 DEF Stack
    <2> QED BY <1>1, <2>1 DEF Frame
<1>3. \A i \in DOMAIN q : r[i].call = q[i].call /\ r[i].stream = q[i].stream
    BY <1>1, <1>2
<1>4. StackInv(r)
    BY <1>1, <1>3 DEF StackInv
<1>5. \A z : InUpgrade(r, z) <=> InUpgrade(q, z)
    BY <1>1, <1>3 DEF InUpgrade
<1>6. /\ InUpgrade(q, Last(q).stream) /\ UpgradeAt(q, Last(q).stream, Last(q).step)
      /\ \A d : UpgradeAt(r, Last(q).stream, d) <=> d = e
    BY <1>1, <1>2, <1>3 DEF StackInv, InUpgrade, UpgradeAt
<1>7. \A z, d : z # Last(q).stream => (UpgradeAt(r, z, d) <=> UpgradeAt(q, z, d))
    BY <1>1, <1>2, <1>3 DEF UpgradeAt
<1>8. \A z, d : SocketAt(r, z, d) <=> SocketAt(q, z, d)
    BY <1>1, <1>2, <1>3 DEF SocketAt
<1> QED BY <1>4, <1>5, <1>6, <1>7, <1>8

LEMMA SocketMoves ==
    ASSUME NEW q \in Stack, StackInv(q), q # <<>>, NEW e, NEW r,
           Last(q).call = "socketClose", TopMoved(q, r, e)
    PROVE  /\ StackInv(r)
           /\ \A z : ~InUpgrade(r, z) /\ ~InUpgrade(q, z)
           /\ \A z, d : ~UpgradeAt(r, z, d) /\ ~UpgradeAt(q, z, d)
           /\ \A z, d : SocketAt(q, z, d) <=> z = Last(q).stream /\ d = Last(q).step
           /\ \A z, d : SocketAt(r, z, d) <=> z = Last(q).stream /\ d = e
<1>1. /\ Last(q) = q[Len(q)] /\ Len(q) \in DOMAIN q /\ DOMAIN r = DOMAIN q
      /\ Len(q) = 1 /\ DOMAIN q = {1}
      /\ r[1] = [q[1] EXCEPT !.step = e]
    <2>1. /\ Last(q) = q[Len(q)] /\ Len(q) \in DOMAIN q /\ DOMAIN r = DOMAIN q
          /\ DOMAIN q = 1 .. Len(q)
          /\ r[Len(q)] = [q[Len(q)] EXCEPT !.step = e]
        BY DEF Last, Stack, TopMoved
    <2>2. Len(q) = 1
        BY <2>1 DEF StackInv
    <2>3. DOMAIN q = {1}
        BY <2>1, <2>2
    <2> QED BY <2>1, <2>2, <2>3
<1>2. r[1].call = "socketClose" /\ r[1].stream = Last(q).stream /\ r[1].step = e
    <2>1. q[1] \in Frame
        BY <1>1 DEF Stack
    <2> QED BY <1>1, <2>1 DEF Frame
<1> QED BY <1>1, <1>2 DEF StackInv, InUpgrade, UpgradeAt, SocketAt

LEMMA FrontParts ==
    ASSUME NEW q \in Stack, q # <<>>
    PROVE  /\ \A i \in DOMAIN Front(q) : i \in DOMAIN q /\ Front(q)[i] = q[i]
           /\ \A i \in DOMAIN q : i \in DOMAIN Front(q) \/ i = Len(q)
BY DEF Stack, Front

LEMMA TopReturns ==
    ASSUME NEW q \in Stack, StackInv(q), q # <<>>, NEW r, r = Front(q)
    PROVE  /\ StackInv(r)
           /\ \A z : InUpgrade(r, z) => InUpgrade(q, z)
           /\ \A z, e : UpgradeAt(q, z, e) <=>
                 \/ UpgradeAt(r, z, e)
                 \/ /\ Last(q).call = "handleUpgrade"
                    /\ Last(q).stream = z /\ Last(q).step = e
           /\ \A z, e : SocketAt(q, z, e) <=>
                 \/ SocketAt(r, z, e)
                 \/ Last(q).call = "socketClose" /\ Last(q).stream = z /\ Last(q).step = e
<1>1. /\ Last(q) = q[Len(q)] /\ Len(q) \in Nat \ {0} /\ DOMAIN q = 1 .. Len(q)
      /\ DOMAIN r = 1 .. Len(q) - 1
      /\ \A i \in 1 .. Len(q) - 1 : r[i] = q[i]
    BY DEF Last, Stack, Front
<1> QED BY <1>1 DEF StackInv, InUpgrade, UpgradeAt, SocketAt

(* A close event begins or goes on.                                         *)
EventMoved(q, r) ==
    \/ \E f : f.call = "emitClose" /\ r = Append(q, f)
    \/ /\ q # <<>> /\ Last(q).call = "emitClose"
       /\ \/ r = Front(q)
          \/ \E rest : r = [q EXCEPT ![Len(q)].rest = rest]

LEMMA EventOnStack ==
    ASSUME NEW q \in Stack, NEW r, EventMoved(q, r)
    PROVE  /\ StackInv(q) => StackInv(r)
           /\ \A z : InUpgrade(r, z) <=> InUpgrade(q, z)
           /\ \A z, e : UpgradeAt(r, z, e) <=> UpgradeAt(q, z, e)
           /\ \A z, e : SocketAt(r, z, e) <=> SocketAt(q, z, e)
<1>1. CASE \E f : f.call = "emitClose" /\ r = Append(q, f)
    BY <1>1 DEF Stack, StackInv, InUpgrade, UpgradeAt, SocketAt
<1>2. CASE q # <<>> /\ Last(q).call = "emitClose" /\ r = Front(q)
    <2>1. Last(q) = q[Len(q)]
        BY <1>2, TopFrame
    <2>2. /\ \A i \in DOMAIN r : i \in DOMAIN q /\ r[i] = q[i]
          /\ \A i \in DOMAIN q : q[i].call # "emitClose" => i \in DOMAIN r
        BY <1>2, <2>1, FrontParts
    <2> QED BY <2>2 DEF StackInv, InUpgrade, UpgradeAt, SocketAt
<1>3. CASE q # <<>> /\ Last(q).call = "emitClose"
              /\ \E rest : r = [q EXCEPT ![Len(q)].rest = rest]
    <2>1. PICK rest : r = [q EXCEPT ![Len(q)].rest = rest]
        BY <1>3
    <2>2. /\ Last(q) = q[Len(q)] /\ Len(q) \in DOMAIN q /\ DOMAIN r = DOMAIN q
          /\ \A i \in DOMAIN q : i # Len(q) => r[i] = q[i]
          /\ r[Len(q)] = [q[Len(q)] EXCEPT !.rest = rest]
        BY <1>3, <2>1 DEF Last, Stack
    <2>3. r[Len(q)].call = "emitClose"
        <3>1. q[Len(q)] \in Frame
            BY <2>2 DEF Stack
        <3> QED BY <1>3, <2>2, <3>1 DEF Frame
    <2> QED BY <1>3, <2>2, <2>3 DEF StackInv, InUpgrade, UpgradeAt, SocketAt
<1> QED BY <1>1, <1>2, <1>3 DEF EventMoved

-----------------------------------------------------------------------------
(* The streams *)

(* A step that moves z neither into the set of clients nor out of it.        *)
Steady(z) ==
    /\ options' = options
    /\ \A e \in {"hooks", "open"} : UpgradeAt(frames', z, e) <=> UpgradeAt(frames, z, e)
    /\ InUpgrade(frames', z) => InUpgrade(frames, z)
    /\ SocketAt(frames', z, "before") <=> SocketAt(frames, z, "before")
    /\ z \in server'.clients <=> z \in server.clients
    /\ stream'[z].upgraded = stream[z].upgraded
    /\ stream[z].transport # "idle" => stream'[z].transport # "idle"
    /\ stream[z].upgraded /\ stream[z].readyState \in {"OPEN", "CLOSING", "CLOSED"} =>
          /\ stream'[z].readyState \in {"OPEN", "CLOSING", "CLOSED"}
          /\ stream'[z].readyState = "CLOSED" <=> stream[z].readyState = "CLOSED"
          /\ stream[z].transport = "closed" => stream'[z].transport = "closed"

LEMMA SteadyKept ==
    ASSUME NEW z, ClientAt(z), Steady(z)
    PROVE  ClientAt(z)'
BY DEF ClientAt, Steady

(* A step that closes nothing, begins an upgrade only while the server runs, *)
(* and adds no client but at the end of one.                                 *)
Calm ==
    /\ UNCHANGED <<options, ticks, httpClosing, late>>
    /\ server'.lifecycle = server.lifecycle
    /\ server'.shouldEmitClose = server.shouldEmitClose
    /\ \A s \in Stream :
          /\ InUpgrade(frames', s) =>
                InUpgrade(frames, s) \/ server.lifecycle = "running"
          /\ s \in server'.clients => s \in server.clients \/ InUpgrade(frames, s)
          /\ s \in server.clients => stream'[s].owned = stream[s].owned
          /\ stream[s].transport \in {"destroyed", "closed"} =>
                stream'[s].transport \in {"destroyed", "closed"}

LEMMA CalmKept ==
    ASSUME TypeOK, TypeOK', OwedInv, DrainInv, Calm
    PROVE  DrainInv'
<1>1. External' <=> External
    BY DEF Calm, External
<1>2. server'.clients \in SUBSET Stream
    BY DEF TypeOK, Server
<1>3. \A s \in Stream :
         server'.lifecycle # "running" /\ InUpgrade(frames', s) => s \in late'
    BY DEF Calm, DrainInv
<1>4. External' => ~httpClosing'
    BY <1>1 DEF Calm, DrainInv
<1>5. External' /\ (server'.lifecycle = "closed"
                       \/ \E i \in DOMAIN ticks' : ticks'[i] = "emitClose") =>
          server'.clients \subseteq late'
    <2> SUFFICES ASSUME External, NEW s \in server'.clients,
                        server.lifecycle = "closed"
                           \/ \E i \in DOMAIN ticks : ticks[i] = "emitClose"
                 PROVE  s \in late
        BY <1>1 DEF Calm
    <2>1. server.lifecycle # "running"
        BY DEF OwedInv
    <2>2. s \in server.clients \/ InUpgrade(frames, s)
        BY <1>2 DEF Calm
    <2> QED BY <1>2, <2>1, <2>2 DEF DrainInv
<1>6. ~External' => /\ ~server'.shouldEmitClose
                    /\ \A i \in DOMAIN ticks' : ticks'[i] # "emitClose"
    BY <1>1 DEF Calm, DrainInv
<1>7. ~External' /\ server'.lifecycle = "closed" =>
          \A s \in Stream :
             /\ ~InUpgrade(frames', s)
             /\ s \in server'.clients =>
                   (stream'[s].owned => stream'[s].transport \in {"destroyed", "closed"})
    <2> SUFFICES ASSUME ~External, server.lifecycle = "closed", NEW s \in Stream
                 PROVE  /\ ~InUpgrade(frames', s)
                        /\ s \in server'.clients =>
                              (stream'[s].owned =>
                                   stream'[s].transport \in {"destroyed", "closed"})
        BY <1>1 DEF Calm
    <2>1. /\ ~InUpgrade(frames, s)
          /\ s \in server.clients =>
                (stream[s].owned => stream[s].transport \in {"destroyed", "closed"})
        BY DEF DrainInv
    <2> QED BY <2>1 DEF Calm
<1> QED BY <1>3, <1>4, <1>5, <1>6, <1>7 DEF DrainInv

LEMMA InitTrackInv == Init => TrackInv
<1> SUFFICES ASSUME Init PROVE TrackInv
    OBVIOUS
<1>1. /\ \A s : ~InUpgrade(frames, s)
      /\ \A s, e : ~UpgradeAt(frames, s, e) /\ ~SocketAt(frames, s, e)
      /\ StackInv(frames)
    BY DEF Init, InUpgrade, UpgradeAt, SocketAt, StackInv
<1>2. \A s \in Stream : ClientAt(s)
    BY <1>1 DEF Init, ClientAt
<1>3. DrainInv
    BY <1>1 DEF Init, DrainInv
<1> QED BY <1>1, <1>2, <1>3 DEF TrackInv

-----------------------------------------------------------------------------
(* Each action *)

(* The tracking of the other streams does not move.                          *)
LEMMA SocketTracked ==
    ASSUME PromiseInv, TypeOK', TrackInv, NEW s \in Stream,
           closeConnection(s) \/ terminateConnection(s) \/ StreamDestroyed(s)
              \/ StreamEnds(s)
    PROVE  TrackInv'
<1> USE DEF PromiseInv, TrackInv
<1>1. /\ UNCHANGED <<options, server, ticks, httpClosing, late, frames>>
    BY DEF closeConnection, terminateConnection, StreamDestroyed, StreamEnds, history
<1>2. ASSUME NEW z \in Stream
      PROVE  /\ stream'[z].upgraded = stream[z].upgraded
             /\ stream'[z].owned = stream[z].owned
             /\ stream[z].transport # "idle" => stream'[z].transport # "idle"
             /\ stream[z].transport \in {"destroyed", "closed"} =>
                   stream'[z].transport = stream[z].transport
             /\ stream[z].upgraded /\ stream[z].readyState \in {"OPEN", "CLOSING", "CLOSED"} =>
                   /\ stream'[z].readyState \in {"OPEN", "CLOSING", "CLOSED"}
                   /\ stream[z].transport # "live" \/ stream[z].readyState # "CLOSED" =>
                        (stream'[z].readyState = "CLOSED" <=> stream[z].readyState = "CLOSED")
    <2>1. stream \in [Stream -> Record] /\ stream[z] \in Record
        BY DEF TypeOK
    <2>2. CASE closeConnection(s)
        BY <2>1, <2>2 DEF closeConnection, Record
    <2>3. CASE terminateConnection(s)
        BY <2>1, <2>3 DEF terminateConnection, Record
    <2>4. CASE StreamDestroyed(s)
        BY <2>1, <2>4 DEF StreamDestroyed, Transported, Record
    <2>5. CASE StreamEnds(s)
        BY <2>1, <2>5 DEF StreamEnds, Transported, Record
    <2> QED BY <2>2, <2>3, <2>4, <2>5
<1>3. ASSUME NEW z \in Stream PROVE ClientAt(z)'
    <2>1. stream[z].upgraded /\ stream[z].readyState = "CLOSED" => stream[z].transport = "closed"
        BY DEF ClientAt
    <2>2. Steady(z)
        BY <1>1, <1>2, <2>1 DEF Steady
    <2> QED BY <2>2, SteadyKept
<1>4. Calm
    BY <1>1, <1>2 DEF Calm
<1> QED BY <1>1, <1>3, <1>4, CalmKept

LEMMA UpgradeTracked ==
    ASSUME PromiseInv, TypeOK', TrackInv, NEW s \in Stream,
           handleUpgrade(s) \/ VerifyAnswers(s)
    PROVE  TrackInv'
<1> USE DEF PromiseInv, TrackInv
<1>0. /\ stream \in [Stream -> Record] /\ stream[s] \in Record /\ frames \in Stack
    BY DEF TypeOK, Stack
<1>1. /\ UNCHANGED <<options, server, ticks, httpClosing, late>>
    BY DEF handleUpgrade, VerifyAnswers, upgradeUnchanged, history
<1>2. ~InUpgrade(frames, s)
    <2>1. CASE handleUpgrade(s)
        BY <2>1 DEF handleUpgrade, ClientAt
    <2>2. CASE VerifyAnswers(s)
        BY <1>0, <2>2 DEF VerifyAnswers, Upgrading, InUpgrade, ToSet
    <2> QED BY <2>1, <2>2
(* The stream as the upgrade finds it, and as it may be left.                *)
<1>3. ASSUME NEW r \in Record, r.upgraded = stream[s].upgraded,
             r.readyState = stream[s].readyState,
             \/ r.transport = stream[s].transport
             \/ stream[s].transport = "idle" /\ r.transport = "live",
             stream[s].transport = "idle" \/ r.owned = stream[s].owned,
             completeUpgrade(s, r)
      PROVE  /\ \A z \in Stream \ {s} : stream'[z] = stream[z]
             /\ stream'[s].upgraded = stream[s].upgraded
             /\ \/ UNCHANGED frames /\ stream'[s].readyState = stream[s].readyState
                \/ /\ server.lifecycle = "running" /\ ~stream[s].upgraded
                   /\ stream'[s].transport # "idle"
                   /\ Push([call |-> "handleUpgrade", stream |-> s, step |-> "hooks"])
             /\ stream[s].transport # "idle" => stream'[s].transport # "idle"
             /\ stream[s].transport = "closed" => stream'[s].transport = "closed"
             /\ stream[s].transport = "destroyed" => stream'[s].transport = "destroyed"
             /\ stream[s].transport = "idle" \/ stream'[s].owned = stream[s].owned
    <2>1. CASE r.transport # "live"
        BY <1>0, <1>3, <2>1 DEF completeUpgrade, Record
    <2>2. CASE r.transport = "live" /\ r.upgraded
        BY <1>0, <1>3, <2>2 DEF completeUpgrade, Record
    <2>3. CASE r.transport = "live" /\ ~r.upgraded /\ server.lifecycle # "running"
        BY <1>0, <1>3, <2>3 DEF completeUpgrade, Record
    <2>4. CASE r.transport = "live" /\ ~r.upgraded /\ server.lifecycle = "running"
        BY <1>0, <1>3, <2>4 DEF completeUpgrade, Record
    <2> QED BY <2>1, <2>2, <2>3, <2>4
<1>4. /\ \A z \in Stream \ {s} : stream'[z] = stream[z]
      /\ stream'[s].upgraded = stream[s].upgraded
      /\ \/ UNCHANGED frames /\ stream'[s].readyState = stream[s].readyState
         \/ /\ server.lifecycle = "running" /\ ~stream[s].upgraded
            /\ stream'[s].transport # "idle"
            /\ Push([call |-> "handleUpgrade", stream |-> s, step |-> "hooks"])
      /\ stream[s].transport # "idle" => stream'[s].transport # "idle"
      /\ stream[s].transport = "closed" => stream'[s].transport = "closed"
      /\ stream[s].transport = "destroyed" => stream'[s].transport = "destroyed"
      /\ stream[s].transport = "idle" \/ stream'[s].owned = stream[s].owned
    <2>1. CASE handleUpgrade(s)
        <3>0. PICK b \in BOOLEAN :
                 \/ abortOrEmit(s, Arrived(s, b))
                 \/ completeUpgrade(s, Arrived(s, b))
                 \/ /\ stream' = [stream EXCEPT ![s] =
                                     [Arrived(s, b) EXCEPT !.answers = MaxAnswers]]
                    /\ UNCHANGED frames
            BY <2>1, Zenon DEF handleUpgrade
        <3> DEFINE arrived == Arrived(s, b)
        <3>1. /\ arrived \in Record /\ arrived.transport = "live"
              /\ arrived.upgraded = stream[s].upgraded
              /\ arrived.readyState = stream[s].readyState
            BY ArrivedRecord
        <3>2. stream[s].transport = "idle"
            BY <2>1 DEF handleUpgrade
        <3> HIDE DEF arrived
        <3>3. CASE abortOrEmit(s, arrived)
            BY <1>0, <3>1, <3>2, <3>3 DEF abortOrEmit, Record
        <3>4. CASE completeUpgrade(s, arrived)
            BY <1>3, <3>1, <3>2, <3>4
        <3>5. CASE /\ stream' = [stream EXCEPT ![s] = [arrived EXCEPT !.answers = MaxAnswers]]
                   /\ UNCHANGED frames
            BY <1>0, <3>1, <3>2, <3>5 DEF Record
        <3> QED BY <3>0, <3>3, <3>4, <3>5 DEF arrived
    <2>2. CASE VerifyAnswers(s)
        <3> DEFINE answered == [stream[s] EXCEPT !.answers = @ - 1]
        <3>1. /\ answered \in Record /\ answered.transport = stream[s].transport
              /\ answered.upgraded = stream[s].upgraded
              /\ answered.readyState = stream[s].readyState
              /\ answered.owned = stream[s].owned
            <4>1. stream[s].answers - 1 \in 0 .. MaxAnswers
                BY <1>0, <2>2, ServerAssumption DEF VerifyAnswers, Record
            <4> QED BY <1>0, <4>1, RecordUpdates DEF Record
        <3>2. CASE completeUpgrade(s, answered)
            <4> HIDE DEF answered
            <4> QED BY <1>3, <3>1, <3>2
        <3>3. CASE /\ stream' = [stream EXCEPT ![s] =
                                    [answered EXCEPT !.transport = AfterAbort(s)]]
                   /\ UNCHANGED frames
            BY <1>0, <3>3 DEF AfterAbort, Record
        <3> QED BY <2>2, <3>2, <3>3 DEF VerifyAnswers
    <2> QED BY <2>1, <2>2
(* A client has arrived before, and arrives no more.                         *)
<1>5. \A z \in server.clients : stream'[z].owned = stream[z].owned
    <2>1. server.clients \in SUBSET Stream
        BY DEF TypeOK, Server
    <2>2. s \in server.clients => stream[s].transport # "idle"
        BY DEF ClientAt
    <2> QED BY <1>4, <2>1, <2>2
<1>6. CASE UNCHANGED frames /\ stream'[s].readyState = stream[s].readyState
    <2>1. \A z \in Stream : Steady(z)
        BY <1>1, <1>4, <1>6 DEF Steady
    <2>2. Calm
        BY <1>1, <1>4, <1>6, <1>5 DEF Calm
    <2> QED BY <1>1, <1>6, <2>1, <2>2, SteadyKept, CalmKept
<1>7. CASE /\ server.lifecycle = "running" /\ ~stream[s].upgraded
           /\ stream'[s].transport # "idle"
           /\ Push([call |-> "handleUpgrade", stream |-> s, step |-> "hooks"])
    <2>1. /\ StackInv(frames')
          /\ InUpgrade(frames', s) /\ UpgradeAt(frames', s, "hooks")
          /\ \A e : UpgradeAt(frames', s, e) => e = "hooks"
          /\ \A z, e : SocketAt(frames', z, e) <=> SocketAt(frames, z, e)
          /\ \A z \in Stream \ {s} : /\ InUpgrade(frames', z) <=> InUpgrade(frames, z)
                             /\ \A e : UpgradeAt(frames', z, e) <=> UpgradeAt(frames, z, e)
        <3>1. UpgradePushed(frames, frames', s)
            BY <1>7 DEF Push, UpgradePushed
        <3>2. frames \in Stack /\ StackInv(frames) /\ ~InUpgrade(frames, s)
            BY <1>0, <1>2
        <3> QED BY <3>1, <3>2, PushUpgrade
    <2>2. \A z \in Stream \ {s} : Steady(z)
        BY <1>1, <1>4, <2>1 DEF Steady
    <2>3. ClientAt(s)'
        <3>1. ClientAt(s) /\ s \notin server.clients
            BY <1>7 DEF ClientAt
        <3> QED BY <1>1, <1>4, <1>7, <2>1, <3>1 DEF ClientAt
    <2>4. Calm
        BY <1>1, <1>4, <1>7, <1>5, <2>1 DEF Calm
    <2> QED BY <2>1, <2>2, <2>3, <2>4, SteadyKept, CalmKept
<1> QED BY <1>4, <1>6, <1>7

(* An attached stream closes its socket, in a task of its own.               *)
LEMMA CloseTracked ==
    ASSUME PromiseInv, TypeOK', TrackInv, NEW s \in Stream, StreamCloses(s)
    PROVE  TrackInv'
<1> USE DEF PromiseInv, TrackInv
<1>0. /\ stream \in [Stream -> Record] /\ frames = <<>> /\ \A z \in Stream : ClientAt(z)
    BY DEF TypeOK, StreamCloses, Task
<1>1. UNCHANGED <<options, server, ticks, httpClosing, late>>
    BY DEF StreamCloses, history
<1>2. /\ \A z \in Stream \ {s} : stream'[z] = stream[z]
      /\ stream'[s].upgraded = stream[s].upgraded
      /\ stream'[s].owned = stream[s].owned
      /\ stream'[s].transport = "closed"
      /\ stream'[s].readyState = IF stream[s].upgraded THEN "CLOSED" ELSE stream[s].readyState
      /\ stream[s].transport \in {"ending", "destroyed"}
    BY <1>0 DEF StreamCloses, Record
<1>3. /\ \A z : ~InUpgrade(frames, z)
      /\ \A z, e : ~UpgradeAt(frames, z, e) /\ ~SocketAt(frames, z, e)
    BY <1>0 DEF InUpgrade, UpgradeAt, SocketAt
<1>4. CASE stream[s].upgraded
    <2>1. SocketPushed(frames', s)
        BY <1>0, <1>4 DEF StreamCloses, Push, SocketPushed
    <2>2. /\ StackInv(frames')
          /\ \A z : ~InUpgrade(frames', z) /\ \A e : ~UpgradeAt(frames', z, e)
          /\ \A z, e : SocketAt(frames', z, e) <=> z = s /\ e = "before"
        BY <2>1, PushSocket
    <2>3. \A z \in Stream \ {s} : Steady(z)
        BY <1>1, <1>2, <1>3, <2>2 DEF Steady
    <2>4. ClientAt(s)'
        <3>1. ClientAt(s)
            BY <1>0
        <3> QED BY <1>1, <1>2, <1>3, <1>4, <2>2, <3>1 DEF ClientAt
    <2>5. Calm
        BY <1>1, <1>2, <2>2 DEF Calm
    <2> QED BY <1>0, <2>2, <2>3, <2>4, <2>5, SteadyKept, CalmKept
<1>5. CASE ~stream[s].upgraded
    <2>1. frames' = frames
        BY <1>5 DEF StreamCloses
    <2>2. \A z \in Stream : Steady(z)
        BY <1>1, <1>2, <1>5, <2>1 DEF Steady
    <2>3. Calm
        BY <1>1, <1>2, <2>1 DEF Calm
    <2> QED BY <1>0, <2>1, <2>2, <2>3, SteadyKept, CalmKept
<1> QED BY <1>4, <1>5

(* The upgrade on top goes on, or returns.                                   *)
LEMMA HooksTracked ==
    ASSUME PromiseInv, TypeOK', TrackInv, attachSocket \/ trackClient \/ CallbackReturns
    PROVE  TrackInv'
<1> USE DEF PromiseInv, TrackInv
<1>u. PICK u : u = Last(frames).stream
    OBVIOUS
<1>0. /\ stream \in [Stream -> Record] /\ frames \in Stack /\ frames # <<>>
      /\ Last(frames).call = "handleUpgrade" /\ u \in Stream
      /\ \A z \in Stream : ClientAt(z)
      /\ StackInv(frames)
    <2>1. frames \in Stack /\ frames # <<>> /\ Last(frames).call = "handleUpgrade"
        BY DEF TypeOK, Stack, attachSocket, trackClient, CallbackReturns, At, OnTop
    <2>2. Last(frames) \in Frame
        BY <2>1, TopFrame
    <2> QED BY <1>u, <2>1, <2>2, FrameParts DEF TypeOK
<1>1. UNCHANGED <<options, ticks, httpClosing, late>>
    BY DEF attachSocket, trackClient, CallbackReturns, history
<1>2. ASSUME NEW e, GoOn(e)
      PROVE  /\ StackInv(frames')
             /\ \A z : InUpgrade(frames', z) <=> InUpgrade(frames, z)
             /\ InUpgrade(frames, u) /\ UpgradeAt(frames, u, Last(frames).step)
             /\ \A d : UpgradeAt(frames', u, d) <=> d = e
             /\ \A z, d : z # u => (UpgradeAt(frames', z, d) <=> UpgradeAt(frames, z, d))
             /\ \A z, d : SocketAt(frames', z, d) <=> SocketAt(frames, z, d)
    <2>1. TopMoved(frames, frames', e)
        BY <1>2 DEF GoOn, TopMoved
    <2> QED BY <1>u, <1>0, <2>1, TopMoves
<1>3. CASE attachSocket
    <2>1. /\ GoOn("open") /\ server' = server /\ UpgradeAt(frames, u, "hooks")
        BY <1>2, <1>3 DEF attachSocket, At
    <2>2. /\ \A z \in Stream \ {u} : stream'[z] = stream[z]
          /\ stream'[u].upgraded /\ stream'[u].readyState = "OPEN"
          /\ stream'[u].transport = stream[u].transport
          /\ stream'[u].owned = stream[u].owned
        BY <1>u, <1>0, <1>3 DEF attachSocket, Upgraded, Record
    <2>3. \A z \in Stream \ {u} : Steady(z)
        BY <1>1, <1>2, <2>1, <2>2 DEF Steady
    <2>4. ClientAt(u)'
        <3>1. ClientAt(u) /\ ~stream[u].upgraded /\ InUpgrade(frames, u)
            BY <1>0, <1>2, <2>1 DEF ClientAt
        <3>2. /\ ~SocketAt(frames', u, "before")
              /\ u \notin server.clients /\ stream[u].transport # "idle"
            BY <1>2, <2>1, <3>1 DEF ClientAt
        <3>3. \A d : UpgradeAt(frames', u, d) <=> d = "open"
            BY <1>2, <2>1
        <3> QED BY <1>1, <2>1, <2>2, <3>2, <3>3 DEF ClientAt
    <2>5. Calm
        BY <1>0, <1>1, <1>2, <2>1, <2>2 DEF Calm
    <2>6. StackInv(frames')
        BY <1>2, <2>1
    <2>7. \A z \in Stream : ClientAt(z)'
        BY <1>0, <2>3, <2>4, SteadyKept
    <2>8. DrainInv'
        BY <2>5, CalmKept
    <2> QED BY <2>6, <2>7, <2>8
<1>4. CASE trackClient
    <2>1. /\ GoOn("callback") /\ stream' = stream /\ UpgradeAt(frames, u, "open")
        BY <1>2, <1>4 DEF trackClient, At
    <2>2. /\ server'.lifecycle = server.lifecycle
          /\ server'.shouldEmitClose = server.shouldEmitClose
          /\ server'.clients = IF options.clientTracking THEN server.clients \cup {u}
                               ELSE server.clients
        BY <1>u, <1>4 DEF trackClient, Upgraded, TypeOK, Server
    <2>3. \A z \in Stream \ {u} : Steady(z)
        BY <1>1, <1>2, <2>1, <2>2 DEF Steady
    <2>4. ClientAt(u)'
        <3>1. ClientAt(u) /\ stream[u].upgraded /\ stream[u].readyState # "CLOSED"
            BY <1>0, <1>2, <2>1 DEF ClientAt
        <3>2. ~SocketAt(frames', u, "before")
            BY <1>2, <2>1, <3>1 DEF ClientAt
        <3>3. \A d : UpgradeAt(frames', u, d) <=> d = "callback"
            BY <1>2, <2>1
        <3> QED BY <1>1, <2>1, <2>2, <3>1, <3>2, <3>3 DEF ClientAt
    <2>5. Calm
        BY <1>0, <1>1, <1>2, <2>1, <2>2 DEF Calm
    <2>6. StackInv(frames')
        BY <1>2, <2>1
    <2>7. \A z \in Stream : ClientAt(z)'
        BY <1>0, <2>3, <2>4, SteadyKept
    <2>8. DrainInv'
        BY <2>5, CalmKept
    <2> QED BY <2>6, <2>7, <2>8
<1>5. CASE CallbackReturns
    <2>1. /\ frames' = Front(frames) /\ Last(frames).step = "callback"
          /\ server' = server /\ stream' = stream
        BY <1>5 DEF CallbackReturns, At, Pop
    <2>2. /\ StackInv(frames')
          /\ \A z : InUpgrade(frames', z) => InUpgrade(frames, z)
          /\ \A z, e : UpgradeAt(frames, z, e) <=>
                \/ UpgradeAt(frames', z, e)
                \/ Last(frames).call = "handleUpgrade" /\ u = z /\ Last(frames).step = e
          /\ \A z, e : SocketAt(frames, z, e) <=>
                \/ SocketAt(frames', z, e)
                \/ Last(frames).call = "socketClose" /\ u = z /\ Last(frames).step = e
        BY <1>u, <1>0, <2>1, TopReturns, Zenon
    <2>3. \A z \in Stream : Steady(z)
        BY <1>0, <1>1, <2>1, <2>2 DEF Steady
    <2>4. Calm
        BY <1>1, <2>1, <2>2 DEF Calm
    <2> QED BY <1>0, <2>2, <2>3, <2>4, SteadyKept, CalmKept
<1> QED BY <1>3, <1>4, <1>5

(* A socket that closed leaves the set; the last one releases the close      *)
(* event that is due.                                                        *)
LEMMA CloseHeard ==
    ASSUME PromiseInv, TypeOK', TrackInv, Untrack \/ SocketClosed
    PROVE  TrackInv'
<1> USE DEF PromiseInv, TrackInv
<1>u. PICK u : u = Last(frames).stream
    OBVIOUS
<1>0. /\ frames \in Stack /\ frames # <<>>
      /\ Last(frames).call = "socketClose" /\ u \in Stream
      /\ \A z \in Stream : ClientAt(z)
      /\ StackInv(frames)
    <2>1. frames \in Stack /\ frames # <<>> /\ Last(frames).call = "socketClose"
        BY DEF TypeOK, Stack, Untrack, SocketClosed, OnTop
    <2>2. Last(frames) \in Frame
        BY <2>1, TopFrame
    <2> QED BY <1>u, <2>1, <2>2, FrameParts DEF TypeOK
<1>1. UNCHANGED <<options, httpClosing, late, stream>>
    BY DEF Untrack, SocketClosed, history
<1>2. CASE Untrack
    <2>1. TopMoved(frames, frames', "after")
        BY <1>2 DEF Untrack, GoOn, TopMoved
    <2>2. /\ StackInv(frames')
          /\ \A z : ~InUpgrade(frames', z) /\ ~InUpgrade(frames, z)
          /\ \A z, d : ~UpgradeAt(frames', z, d) /\ ~UpgradeAt(frames, z, d)
          /\ \A z, d : SocketAt(frames, z, d) <=> z = u /\ d = Last(frames).step
          /\ \A z, d : SocketAt(frames', z, d) <=> z = u /\ d = "after"
        BY <1>u, <1>0, <2>1, SocketMoves
    <2>3. /\ server'.lifecycle = server.lifecycle
          /\ server'.shouldEmitClose = server.shouldEmitClose
          /\ server'.clients = server.clients \ {u}
        BY <1>u, <1>2 DEF Untrack, Upgraded, TypeOK, Server
    <2>4. \A z \in Stream \ {u} : Steady(z)
        BY <1>1, <2>2, <2>3 DEF Steady
    <2>5. ClientAt(u)'
        <3>1. SocketAt(frames, u, "before")
            BY <1>2, <2>2 DEF Untrack
        <3>2. ClientAt(u) /\ stream[u].upgraded /\ stream[u].readyState = "CLOSED"
            BY <1>0, <3>1 DEF ClientAt
        <3> QED BY <1>1, <2>2, <2>3, <3>2 DEF ClientAt
    <2>6. DrainInv'
        <3>0. External' <=> External
            BY <1>1 DEF External
        <3>1. CASE ticks' = ticks
            BY <3>0, <1>1, <2>2, <2>3, <3>1 DEF DrainInv
        <3>2. CASE /\ ticks' = Append(ticks, "emitClose")
                   /\ server.shouldEmitClose /\ server'.clients = {}
            BY <3>0, <1>1, <2>2, <2>3, <3>2 DEF DrainInv
        <3> QED BY <1>2, <3>1, <3>2 DEF Untrack
    <2>7. \A z \in Stream : ClientAt(z)'
        BY <1>0, <2>4, <2>5, SteadyKept
    <2> QED BY <2>2, <2>6, <2>7
<1>3. CASE SocketClosed
    <2>1. /\ frames' = Front(frames) /\ Last(frames).step = "after"
          /\ server' = server /\ ticks' = ticks
        BY <1>3 DEF SocketClosed, Pop
    <2>2. /\ StackInv(frames')
          /\ \A z : InUpgrade(frames', z) => InUpgrade(frames, z)
          /\ \A z, e : UpgradeAt(frames, z, e) <=>
                \/ UpgradeAt(frames', z, e)
                \/ Last(frames).call = "handleUpgrade" /\ u = z /\ Last(frames).step = e
          /\ \A z, e : SocketAt(frames, z, e) <=>
                \/ SocketAt(frames', z, e)
                \/ Last(frames).call = "socketClose" /\ u = z /\ Last(frames).step = e
        BY <1>u, <1>0, <2>1, TopReturns, Zenon
    <2>3. \A z \in Stream : Steady(z)
        BY <1>0, <1>1, <2>1, <2>2 DEF Steady
    <2>4. Calm
        BY <1>1, <2>1, <2>2 DEF Calm
    <2> QED BY <1>0, <2>2, <2>3, <2>4, SteadyKept, CalmKept
<1> QED BY <1>2, <1>3

(* close() while clients are left, or none; a close event begins or goes on. *)
LEMMA CloseAsked ==
    ASSUME PromiseInv, TypeOK', TrackInv, NEW c \in Callback, closeWebSocketServer(c)
    PROVE  TrackInv'
<1> USE DEF PromiseInv, TrackInv
<1>1. UNCHANGED <<options, stream, frames>> /\ ticks \in Events /\ server \in Server
    BY DEF closeWebSocketServer, TypeOK, Events
<1>2. server'.clients = server.clients
    BY <1>1 DEF closeWebSocketServer, CloseStopped, CloseAgain, CloseRunning, Server
<1>3. External' <=> External
    BY <1>1 DEF External
<1>4. \A z \in Stream : ClientAt(z)'
    BY <1>1, <1>2, SteadyKept DEF Steady
<1>5. CASE CloseStopped(c)
    <2>1. \A i \in DOMAIN ticks' : ticks'[i] = "emitClose" =>
             i \in DOMAIN ticks /\ ticks[i] = "emitClose"
        BY <1>1, <1>5 DEF CloseStopped, Events
    <2>2. server' = server /\ httpClosing' = httpClosing /\ late' = late
        BY <1>5 DEF CloseStopped
    <2>3. DrainInv'
        BY <1>1, <1>3, <2>1, <2>2 DEF DrainInv
    <2> QED BY <1>1, <1>4, <2>3
<1>6. CASE CloseAgain(c)
    <2>1. UNCHANGED <<server, httpClosing, late, ticks>>
        BY <1>6 DEF CloseAgain
    <2>2. DrainInv'
        BY <1>1, <1>3, <2>1 DEF DrainInv
    <2> QED BY <1>1, <1>4, <2>2
<1>7. CASE CloseRunning(c)
    <2>1. /\ server'.lifecycle = "closing"
          /\ server'.shouldEmitClose <=> External /\ MustDrain
          /\ httpClosing' <=> ~External
        BY <1>1, <1>7 DEF CloseRunning, Server
    <2>2. ticks = <<>>
        BY <1>7 DEF CloseRunning, OwedInv
    <2>3. \A s \in Stream : InUpgrade(frames, s) => s \in late'
        BY <1>7 DEF CloseRunning, Upgrading, InUpgrade, ToSet
    <2>4. (\E i \in DOMAIN ticks' : ticks'[i] = "emitClose") =>
             External /\ ~MustDrain
        BY <1>7, <2>2 DEF CloseRunning
    <2>5. ~MustDrain => server.clients = {}
        <3>1. server.clients \in SUBSET Stream
            BY <1>1 DEF Server
        <3> QED BY <3>1 DEF MustDrain, ClientAt
    <2>6. DrainInv'
        BY <1>1, <1>2, <1>3, <2>1, <2>3, <2>4, <2>5 DEF DrainInv
    <2> QED BY <1>1, <1>4, <2>6
<1> QED BY <1>5, <1>6, <1>7 DEF closeWebSocketServer

LEMMA EventTracked ==
    ASSUME PromiseInv, TypeOK', TrackInv, RunTick \/ HttpCloses \/ EmitStep
    PROVE  TrackInv'
<1> USE DEF PromiseInv, TrackInv
<1>1. UNCHANGED <<options, stream, late>> /\ ticks \in Events /\ server \in Server
      /\ frames \in Stack
    BY DEF RunTick, HttpCloses, EmitStep, TypeOK, Events, Stack
<1>2. server'.clients = server.clients
      /\ server'.shouldEmitClose = server.shouldEmitClose
      /\ server'.lifecycle \in {server.lifecycle, "closed"}
    BY <1>1 DEF RunTick, HttpCloses, EmitStep, emitClose, emitCloseAgain, Server
<1>3. /\ StackInv(frames')
      /\ \A z : InUpgrade(frames', z) <=> InUpgrade(frames, z)
      /\ \A z, e : UpgradeAt(frames', z, e) <=> UpgradeAt(frames, z, e)
      /\ \A z, e : SocketAt(frames', z, e) <=> SocketAt(frames, z, e)
    <2>1. CASE UNCHANGED frames
        BY <2>1
    <2>2. CASE EventMoved(frames, frames')
        BY <1>1, <2>2, EventOnStack
    <2>3. UNCHANGED frames \/ EventMoved(frames, frames')
        <3>1. CASE RunTick \/ HttpCloses
            BY <3>1 DEF RunTick, HttpCloses, emitClose, emitCloseAgain, Push, EventMoved
        <3>2. CASE EmitStep
            BY <3>2 DEF EmitStep, OnTop, Pop, EventMoved
        <3> QED BY <3>1, <3>2
    <2> QED BY <2>1, <2>2, <2>3
<1>4. \A z \in Stream : ClientAt(z)'
    BY <1>1, <1>2, <1>3, SteadyKept DEF Steady
<1>5. DrainInv'
    <2>0. External' <=> External
        BY <1>1 DEF External
    <2>1. CASE EmitStep
        <3>1. UNCHANGED <<server, ticks, httpClosing>>
            BY <2>1 DEF EmitStep
        <3> QED BY <1>1, <1>3, <2>0, <3>1 DEF DrainInv
    <2>2. CASE RunTick
        <3>1. /\ \A i \in DOMAIN ticks' : \E j \in DOMAIN ticks : ticks[j] = ticks'[i]
              /\ \E i \in DOMAIN ticks : ticks[i] = Head(ticks)
            BY <1>1, <2>2 DEF RunTick, Events
        <3>2. /\ frames = <<>> /\ httpClosing' = httpClosing
              /\ server'.lifecycle # server.lifecycle =>
                    Head(ticks) = "emitClose" /\ server.lifecycle # "closed"
              /\ server.lifecycle # "running"
            BY <2>2 DEF RunTick, emitClose, emitCloseAgain, OwedInv
        <3>3. \A z : ~InUpgrade(frames, z)
            BY <3>2 DEF InUpgrade
        <3> QED BY <1>1, <1>2, <1>3, <2>0, <3>1, <3>2, <3>3 DEF DrainInv
    <2>3. CASE HttpCloses
        <3>1. /\ httpClosing /\ ~httpClosing' /\ ticks' = ticks
              /\ \A s \in Stream :
                    stream[s].owned => stream[s].transport \in {"destroyed", "closed"}
              /\ frames = <<>>
            BY <2>3 DEF HttpCloses, Task
        <3>2. \A z : ~InUpgrade(frames, z)
            BY <3>1 DEF InUpgrade
        <3>3. ~External
            BY <3>1 DEF DrainInv
        <3> QED BY <1>1, <1>2, <1>3, <2>0, <3>1, <3>2, <3>3 DEF DrainInv
    <2> QED BY <2>1, <2>2, <2>3
<1> QED BY <1>3, <1>4, <1>5

LEMMA StepTracked ==
    ASSUME PromiseInv, TypeOK', TrackInv, [Next]_vars
    PROVE  TrackInv'
<1>1. CASE \E c \in Callback : closeWebSocketServer(c)
    BY <1>1, CloseAsked
<1>2. CASE RunTick \/ HttpCloses \/ EmitStep
    BY <1>2, EventTracked
<1>3. CASE attachSocket \/ trackClient \/ CallbackReturns
    BY <1>3, HooksTracked
<1>4. CASE Untrack \/ SocketClosed
    BY <1>4, CloseHeard
<1>5. CASE \E s \in Stream : handleUpgrade(s) \/ VerifyAnswers(s)
    BY <1>5, UpgradeTracked
<1>6. CASE \E s \in Stream :
              \/ closeConnection(s) \/ terminateConnection(s)
              \/ StreamDestroyed(s) \/ StreamEnds(s)
    BY <1>6, SocketTracked
<1>7. CASE \E s \in Stream : StreamCloses(s)
    BY <1>7, CloseTracked
<1>8. CASE UNCHANGED vars
    <2>1. \A z \in Stream : Steady(z)
        BY <1>8 DEF vars, Steady
    <2>2. Calm
        BY <1>8 DEF vars, history, Calm
    <2> QED BY <1>8, <2>1, <2>2, SteadyKept, CalmKept DEF vars, TrackInv, PromiseInv
<1> QED BY <1>1, <1>2, <1>3, <1>4, <1>5, <1>6, <1>7, <1>8 DEF Next, Resume

(* An invariant of the server and its clients.                               *)
LEMMA TrackInvariant == Spec => [](PromiseInv /\ TrackInv)
<1>1. PromiseInv /\ [Next]_vars => PromiseInv'
    BY StepPromised
<1>2. PromiseInv /\ TrackInv /\ [Next]_vars => TrackInv'
    <2> SUFFICES ASSUME PromiseInv, TrackInv, [Next]_vars PROVE TrackInv'
        OBVIOUS
    <2>1. TypeOK'
        BY <1>1 DEF PromiseInv
    <2> QED BY <2>1, StepTracked
<1> QED BY InitPromiseInv, InitTrackInv, <1>1, <1>2, PTL DEF Spec

(* trackClient and its close listener keep server.clients equal to the       *)
(* attached sockets that are not closed, whatever the hooks they run do.     *)
THEOREM ClientsTracked == Spec => []ClientsAreOpenSockets
<1>1. TrackInv => ClientsAreOpenSockets
    <2> SUFFICES ASSUME TrackInv, NEW s \in Stream,
                        ~(\E f \in ToSet(frames) : f.call # "emitClose" /\ f.stream = s
                                                     /\ f.step \in {"open", "before"})
                 PROVE  s \in server.clients <=> options.clientTracking /\ stream[s].upgraded
                                                      /\ stream[s].readyState # "CLOSED"
        BY DEF ClientsAreOpenSockets
    <2>1. ~UpgradeAt(frames, s, "open") /\ ~SocketAt(frames, s, "before")
        BY DEF UpgradeAt, SocketAt, ToSet
    <2>2. ClientAt(s)
        BY DEF TrackInv
    <2> QED BY <2>1, <2>2 DEF ClientAt
<1> QED BY <1>1, TrackInvariant, PTL

(* closeWebSocketServer and trackClient: a server that has emitted close has *)
(* waited for every client but the ones that it could not know of.           *)
THEOREM DrainedBeforeClosed == Spec => []ClosedMeansDrained
<1>1. PromiseInv /\ TrackInv => ClosedMeansDrained
    <2> SUFFICES ASSUME TypeOK, DrainInv, server.lifecycle = "closed",
                        NEW s \in server.clients
                 PROVE  IF External THEN s \in late
                        ELSE stream[s].owned =>
                                stream[s].transport \in {"destroyed", "closed"}
        BY DEF ClosedMeansDrained, PromiseInv, TrackInv
    <2>1. s \in Stream
        BY DEF TypeOK, Server
    <2> QED BY <2>1 DEF DrainInv
<1> QED BY <1>1, TrackInvariant, PTL
=============================================================================
