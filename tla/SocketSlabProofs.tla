-------------------------- MODULE SocketSlabProofs --------------------------
(***************************************************************************)
(* Theorems about SocketSlab, for every number of slots, every limit and   *)
(* every number of connections opened.                                     *)
(***************************************************************************)
EXTENDS SocketSlab, TLAPS, FiniteSetTheorems, WellFoundedInduction

Active == {i \in Index : word[i].state = "active"}

\* The engine thread is in the middle of a callback about slot i.
InCallback(i) == engine.pc # "idle" /\ engine.handle.index = i

\* What holds of a slot the engine thread is not working on.
Mirrored(i) ==
    /\ (word[i].state = "active") = (pool[i] = "live")
    /\ pool[i] = "live" => /\ record[i].generation = word[i].generation
                           /\ ~record[i].terminal

\* What the engine thread relies on between the steps of a callback.
CallbackInv ==
    LET i == engine.handle.index
        g == engine.handle.generation
    IN  /\ engine.pc # "idle" => i \in Index
        /\ engine.pc \in {"open", "emit_open"} =>
               /\ word[i] = [state |-> "active", generation |-> g]
               /\ pool[i] = "live"
        /\ engine.pc = "emit_open" =>
               record[i].generation = g /\ ~record[i].terminal
        /\ engine.pc = "release" =>
               /\ pool[i] # "free"
               /\ (word[i].state = "active") = (pool[i] = "live")
        /\ engine.pc = "emit_close" =>
               word[i] = [state |-> "free", generation |-> g] /\ g >= 1

PoolInv == \A i \in Index : ~InCallback(i) => Mirrored(i)

CountInv == active = Cardinality(Active) /\ active <= MaxConnections

\* A record may lag behind its slot, never run ahead of it.
GenerationInv ==
    \A i \in Index : /\ record[i].generation <= word[i].generation
                     /\ word[i].state = "active" => word[i].generation >= 1

\* A handle whose connection, if there ever was one, has had its record.
Old(h) == h.index \in Index => h.generation <= record[h.index].generation

\* JavaScript is told of a connection after its record was reset.
ToldInv == \A k \in 1 .. Len(events) :
               events[k].kind = "connection_open" => Old(events[k].handle)

MainInv ==
    /\ main.pc # "idle" => Old(main.handle)
    /\ main.pc \notin {"idle", "stale"} => main.handle.index \in Index
    /\ main.pc \in {"stale", "outlived"} => ~Resolves(main.handle)

-----------------------------------------------------------------------------
(* Constants and numbers *)

Event == [kind : {"connection_open", "connection_close"}, handle : Handle]
Number == [index : 0 .. Uint32 - 1, generation : 0 .. Uint32 - 1]

\* The assumptions, as ranges.
LEMMA Sizes ==
    /\ Connections \in Nat /\ Connections >= 1 /\ Connections < Uint32
    /\ MaxConnections \in Nat /\ Uint32 \in Nat /\ Uint32 >= 1
    /\ MaxOpened \in Nat /\ MaxOpened < Uint32 /\ RingCapacity \in Nat
    /\ Index \subseteq 0 .. Uint32 - 1 /\ Generation \subseteq 0 .. Uint32 - 1
    /\ Index \subseteq Nat /\ Generation \subseteq Nat
    /\ Handle \subseteq Number /\ Nobody \in Handle
<1>1. /\ Connections \in Nat /\ Connections >= 1 /\ Connections < Uint32
      /\ MaxConnections \in Nat /\ Uint32 \in Nat /\ Uint32 >= 1
      /\ MaxOpened \in Nat /\ MaxOpened < Uint32 /\ RingCapacity \in Nat
  BY SlabAssumption
<1>2. /\ Index \subseteq 0 .. Uint32 - 1 /\ Generation \subseteq 0 .. Uint32 - 1
      /\ Index \subseteq Nat /\ Generation \subseteq Nat
      /\ 0 \in Index /\ 0 \in Generation
  BY <1>1 DEF Index, Generation
<1> QED BY <1>1, <1>2 DEF Handle, Number, Nobody

\* Quotient and remainder.
LEMMA DivMod ==
    ASSUME NEW c \in Nat, c > 0, NEW a \in Nat
    PROVE  /\ a = c * (a \div c) + (a % c)
           /\ a \div c \in Nat /\ a % c \in 0 .. c - 1
<1>1. a = c * (a \div c) + (a % c)
  BY SMTT(10)
<1>2. a % c \in 0 .. c - 1
  BY SMTT(10)
<1>3. a \div c \in Nat
  BY SMTT(10)
<1> QED BY <1>1, <1>2, <1>3

LEMMA SameMultiple ==
    ASSUME NEW c \in Nat, c > 0, NEW x \in Int, NEW y \in Int,
           -c < c * x - c * y, c * x - c * y < c
    PROVE  x = y
BY SMTT(30)

\* A handle is read back from its number.
LEMMA HandleReadsBack ==
    ASSUME NEW h \in Number
    PROVE  /\ to_int(h) \in Nat
           /\ from_int(to_int(h)) = h
<1>1. PICK i \in 0 .. Uint32 - 1, g \in 0 .. Uint32 - 1 :
          h = [index |-> i, generation |-> g]
  BY DEF Number
<1>2. i \in Nat /\ g \in Nat /\ Uint32 \in Nat /\ Uint32 > 0
  BY <1>1, Sizes
<1>3. PICK m \in Nat : m = Uint32 * g
  BY <1>2
<1>4. to_int(h) = m + i
  BY <1>1, <1>2, <1>3 DEF to_int
<1>5. PICK raw \in Nat : raw = m + i
  BY <1>2
<1>6. PICK x \in Nat : x = raw \div Uint32
  BY <1>2, DivMod
<1>7. PICK r \in 0 .. Uint32 - 1 : r = raw % Uint32
  BY <1>2, DivMod
<1>8. raw = Uint32 * x + r
  BY <1>2, <1>6, <1>7, DivMod
<1>9. PICK n \in Nat : n = Uint32 * x
  BY <1>2
<1>10. n - m = i - r
  BY <1>2, <1>5, <1>7, <1>8, <1>9
<1>11. x = g
  BY <1>1, <1>2, <1>3, <1>7, <1>9, <1>10, SameMultiple
<1>12. n = m
  BY <1>3, <1>9, <1>11
<1>13. r = i
  BY <1>2, <1>7, <1>10, <1>12
<1> QED BY <1>1, <1>4, <1>5, <1>6, <1>7, <1>11, <1>13 DEF from_int

\* Any number an operation may be given is a pair of words.
LEMMA NumberType ==
    ASSUME NEW raw, assertConnectionHandle(raw)
    PROVE  from_int(raw) \in Number
<1>1. Uint32 \in Nat /\ Uint32 > 0
  BY Sizes
<1>2. PICK q \in Nat : q = Uint32 * Uint32
  BY <1>1
<1>3. raw \in Nat /\ raw < q
  BY <1>2 DEF assertConnectionHandle
<1>4. PICK x \in Nat : x = raw \div Uint32
  BY <1>1, <1>3, DivMod
<1>5. PICK r \in 0 .. Uint32 - 1 : r = raw % Uint32
  BY <1>1, <1>3, DivMod
<1>6. raw = Uint32 * x + r
  BY <1>1, <1>3, <1>4, <1>5, DivMod
<1>7. Uint32 * x < Uint32 * Uint32
  BY <1>1, <1>2, <1>3, <1>5, <1>6
<1>8. x < Uint32
  BY <1>1, <1>7, SMTT(20)
<1>9. x \in 0 .. Uint32 - 1
  BY <1>1, <1>8
<1> QED BY <1>4, <1>5, <1>9 DEF from_int, Number


-----------------------------------------------------------------------------
(* The main thread *)

IInv == /\ TypeOK /\ CallbackInv /\ PoolInv /\ CountInv /\ GenerationInv
        /\ ToldInv /\ MainInv /\ ClosedExactlyOnce

Record == [generation : Generation, state : {"open", "closing", "closed"},
           terminal : BOOLEAN, buffered : Nat, paused : BOOLEAN, locked : BOOLEAN]
MainState == [pc : {"idle", "lock", "stale", "check", "outlived", "act",
                    "state", "account", "unlock"},
              op : Operations, handle : Number]

\* A number JavaScript may have names no generation its record has not seen.
LEMMA RawIsOld ==
    ASSUME IInv, NEW raw \in Known \cup NeverIssued, assertConnectionHandle(raw)
    PROVE  from_int(raw) \in Number /\ Old(from_int(raw))
<1>1. from_int(raw) \in Number
  BY NumberType
<1>2. CASE raw \in Known
  <2>1. PICK k \in 1 .. Len(events) : /\ events[k].kind = "connection_open"
                                      /\ raw = to_int(events[k].handle)
    BY <1>2 DEF Known, IInv, TypeOK
  <2>2. events[k].handle \in Number
    <3>1. events \in Seq(Event) /\ k \in 1 .. Len(events)
      BY DEF IInv, TypeOK, Event
    <3>2. events[k] \in Event
      BY <3>1
    <3> QED BY <3>2, Sizes DEF Event
  <2>3. from_int(raw) = events[k].handle
    BY <2>1, <2>2, HandleReadsBack
  <2> QED BY <1>1, <2>1, <2>3 DEF IInv, ToldInv
<1>3. CASE raw = to_int(Nobody)
  <2>1. from_int(raw) = Nobody
    BY <1>3, HandleReadsBack, Sizes
  <2>2. Old(Nobody)
    <3>1. ASSUME Nobody.index \in Index PROVE record[Nobody.index].generation \in Generation
      BY <3>1 DEF IInv, TypeOK
    <3> QED BY <3>1, Sizes DEF Old, Nobody, Generation
  <2> QED BY <1>1, <2>1, <2>2
<1>4. CASE raw = to_int([index |-> Uint32 - 1, generation |-> 1])
  <2>1. [index |-> Uint32 - 1, generation |-> 1] \in Number
    BY Sizes DEF Number
  <2>2. from_int(raw) = [index |-> Uint32 - 1, generation |-> 1]
    BY <1>4, <2>1, HandleReadsBack
  <2>3. Uint32 - 1 \notin Index
    BY Sizes DEF Index
  <2> QED BY <1>1, <2>2, <2>3 DEF Old
<1> QED BY <1>2, <1>3, <1>4 DEF NeverIssued

MainNext == \/ Deliver \/ Lock \/ Operate
            \/ \E op \in Operations, raw \in Known \cup NeverIssued : Resolve(op, raw)

\* The main thread moves no slot, no event and no generation.
MainFrame == /\ UNCHANGED <<pool, word, active, events, engine>>
             /\ \A i \in Index : /\ record'[i].generation = record[i].generation
                                 /\ record'[i].terminal = record[i].terminal

LEMMA MainFrames == TypeOK /\ MainNext => MainFrame
<1> SUFFICES ASSUME TypeOK, MainNext PROVE MainFrame
  OBVIOUS
<1>1. ASSUME UNCHANGED <<pool, slab, record, events, engine>> PROVE MainFrame
  BY <1>1 DEF MainFrame, slab
<1>2. CASE Deliver
  BY <1>1, <1>2 DEF Deliver
<1>3. CASE Lock
  BY <1>3 DEF Lock, TypeOK, MainFrame, slab
<1>4. CASE Return \/ Check \/ CheckOutlived \/ CheckRefused \/ Stage \/ StageFull
  BY <1>1, <1>4 DEF Return, Check, CheckOutlived, CheckRefused, Stage, StageFull
<1>5. CASE EnterClosing
  BY <1>5 DEF EnterClosing, TypeOK, MainFrame, slab
<1>6. CASE Account
  BY <1>6 DEF Account, TypeOK, MainFrame, slab
<1>7. CASE SetPaused
  BY <1>7 DEF SetPaused, TypeOK, MainFrame, slab
<1>8. CASE Unlock
  BY <1>8 DEF Unlock, TypeOK, MainFrame, slab
<1>9. ASSUME NEW op \in Operations, NEW raw \in Known \cup NeverIssued, Resolve(op, raw)
      PROVE  MainFrame
  BY <1>1, <1>9 DEF Resolve
<1> QED BY <1>2, <1>3, <1>4, <1>5, <1>6, <1>7, <1>8, <1>9 DEF MainNext, Operate

MainTypes == /\ record' \in [Index -> Record]
             /\ ring' \in Seq([kind : {"message", "close"}, handle : Handle])
             /\ Len(ring') <= RingCapacity
             /\ delivered' \in 0 .. Len(events)
             /\ main' \in MainState

\* A record keeps its type under what the main thread writes.
LEMMA RecordWrites ==
    ASSUME record \in [Index -> Record], NEW i \in Index, NEW b \in BOOLEAN, NEW n \in Nat
    PROVE  /\ [record EXCEPT ![i].locked = b] \in [Index -> Record]
           /\ [record EXCEPT ![i].paused = b] \in [Index -> Record]
           /\ [record EXCEPT ![i].state = "closing"] \in [Index -> Record]
           /\ [record EXCEPT ![i].buffered = @ + n] \in [Index -> Record]
<1>1. record[i] \in Record
  OBVIOUS
<1>2. /\ [record[i] EXCEPT !.locked = b] \in Record
      /\ [record[i] EXCEPT !.paused = b] \in Record
      /\ [record[i] EXCEPT !.state = "closing"] \in Record
      /\ [record[i] EXCEPT !.buffered = @ + n] \in Record
  BY <1>1 DEF Record
<1> QED BY <1>2

\* A step of an operation goes on with the same handle.
LEMMA MainGoesOn ==
    ASSUME NEW h, main'.handle = h, h.index \in Index, Old(h)',
           main'.pc \in {"stale", "outlived"} => ~Resolves(h)'
    PROVE  MainInv'
BY DEF MainInv, Old, Resolves

\* What the main thread writes has its type, and what it relies on holds.
LEMMA MainKeeps ==
    ASSUME IInv, MainNext
    PROVE  MainTypes /\ MainInv'
<1>0. TypeOK /\ MainInv /\ MainFrame
  BY MainFrames DEF IInv
<1>1. main \in MainState
  BY <1>0 DEF TypeOK, Number, MainState
<1>2. IdleMain \in MainState
  BY Sizes DEF IdleMain, Operations, MainState
<1>3. \A h : Old(h) => Old(h)'
  BY <1>0 DEF MainFrame, Old
<1>4. \A h : Resolves(h)' <=> Resolves(h)
  BY <1>0 DEF MainFrame, Resolves
<1>5. ASSUME main' = IdleMain PROVE MainInv'
  BY <1>5 DEF MainInv, IdleMain
<1>6. ASSUME UNCHANGED main PROVE MainInv'
  BY <1>0, <1>3, <1>4, <1>6 DEF MainInv
<1>7. ASSUME NEW from \in {"lock", "check", "act", "state", "account"},
             NEW to \in {"check", "act", "state", "account", "unlock"}, Goto(from, to)
      PROVE  /\ MainInv' /\ main.handle.index \in Index
             /\ main' \in MainState
  <2>1. main' = [main EXCEPT !.pc = to] /\ main.pc = from
    BY <1>7 DEF Goto
  <2>2. main'.pc = to /\ main'.handle = main.handle
    BY <1>1, <2>1 DEF MainState
  <2>3. Old(main.handle) /\ main.handle.index \in Index
    BY <1>0, <2>1 DEF MainInv
  <2>4. PICK h : h = main.handle
    OBVIOUS
  <2>5. MainInv'
    BY <1>3, <2>2, <2>3, <2>4, MainGoesOn
  <2> QED BY <1>1, <2>1, <2>3, <2>5 DEF MainState
<1>21. record \in [Index -> Record]
  BY <1>0 DEF TypeOK, Record
<1> USE DEF TypeOK, MainTypes
<1>8. CASE Deliver
  <2>1. UNCHANGED main
    BY <1>8 DEF Deliver
  <2> QED BY <1>0, <1>1, <1>6, <1>8, <1>21, <2>1 DEF Deliver
<1>9. CASE Lock
  <2>1. Goto("lock", "check")
    BY <1>9 DEF Lock
  <2> QED BY <1>0, <1>7, <1>9, <1>21, <2>1, RecordWrites DEF Lock
<1>10. CASE Return
  BY <1>0, <1>2, <1>5, <1>10, <1>21 DEF Return
<1>11. CASE Check
  <2>1. Goto("check", "unlock") \/ Goto("check", "act")
    BY <1>11 DEF Check
  <2> QED BY <1>0, <1>7, <1>11, <1>21, <2>1 DEF Check
<1>12. CASE CheckOutlived
  <2>1. /\ main' = [main EXCEPT !.pc = "outlived"] /\ main.pc = "check"
        /\ record[main.handle.index].generation # main.handle.generation
    BY <1>12 DEF CheckOutlived, Goto, Mine
  <2>2. main'.pc = "outlived" /\ main'.handle = main.handle
    BY <1>1, <2>1 DEF MainState
  <2>3. Old(main.handle) /\ main.handle.index \in Index
    BY <1>0, <2>1 DEF MainInv
  <2>4. main.handle.generation \in Nat
        /\ word[main.handle.index].generation \in Nat
        /\ record[main.handle.index].generation \in Nat
    <3>1. main.handle.generation \in Nat
      BY <1>1 DEF MainState, Number
    <3>2. word[main.handle.index].generation \in Generation
          /\ record[main.handle.index].generation \in Generation
      BY <1>0, <2>3
    <3> QED BY <3>1, <3>2, Sizes
  <2>5. main.handle.generation < word[main.handle.index].generation
    BY <2>1, <2>3, <2>4 DEF IInv, GenerationInv, Old
  <2>6. ~Resolves(main.handle)
    BY <2>4, <2>5 DEF Resolves
  <2>7. MainInv'
    <3>1. PICK h : h = main.handle
      OBVIOUS
    <3> QED BY <1>3, <1>4, <2>2, <2>3, <2>6, <3>1, MainGoesOn
  <2>8. main' \in MainState
    BY <1>1, <2>1 DEF MainState
  <2> QED BY <1>0, <1>12, <1>21, <2>7, <2>8 DEF CheckOutlived
<1>13. CASE CheckRefused
  <2>1. Goto("check", "unlock")
    BY <1>13 DEF CheckRefused
  <2> QED BY <1>0, <1>7, <1>13, <1>21, <2>1 DEF CheckRefused
<1>14. CASE Stage
  <2>1. Goto("act", "state") \/ Goto("act", "account")
    BY <1>14 DEF Stage
  <2>2. main.handle.index \in Index
    BY <1>7, <2>1
  <2>3. main.handle \in Handle
    <3>1. Old(main.handle)
      BY <1>0, <2>1 DEF MainInv, Goto
    <3>2. main.handle.generation \in Nat /\ record[main.handle.index].generation \in Generation
      BY <1>0, <1>1, <2>2 DEF Number, MainState
    <3>3. main.handle.generation \in Generation
      BY <2>2, <3>1, <3>2, Sizes DEF Old, Generation
    <3> QED BY <1>1, <2>2, <3>3 DEF Number, Handle, MainState
  <2>4. ring' \in Seq([kind : {"message", "close"}, handle : Handle])
        /\ Len(ring') <= RingCapacity
    BY <1>0, <1>14, <1>21, <2>3, Sizes DEF Stage
  <2> QED BY <1>0, <1>7, <1>14, <1>21, <2>1, <2>4 DEF Stage
<1>15. CASE StageFull
  <2>1. Goto("act", "unlock")
    BY <1>15 DEF StageFull
  <2> QED BY <1>0, <1>7, <1>15, <1>21, <2>1 DEF StageFull
<1>16. CASE EnterClosing
  <2>1. Goto("state", "account")
    BY <1>16 DEF EnterClosing
  <2> QED BY <1>0, <1>7, <1>16, <1>21, <2>1, RecordWrites DEF EnterClosing
<1>17. CASE Account
  <2>1. Goto("account", "unlock")
    BY <1>17 DEF Account
  <2>2. BytesOf(main.op) \in Nat
    BY DEF BytesOf
  <2> QED BY <1>0, <1>7, <1>17, <1>21, <2>1, <2>2, RecordWrites DEF Account
<1>18. CASE SetPaused
  <2>1. Goto("act", "unlock")
    BY <1>18 DEF SetPaused
  <2> QED BY <1>0, <1>7, <1>18, <1>21, <2>1, RecordWrites DEF SetPaused
<1>19. CASE Unlock
  <2>1. main.handle.index \in Index
    BY <1>0, <1>19 DEF Unlock, MainInv
  <2> QED BY <1>0, <1>2, <1>5, <1>19, <1>21, <2>1, RecordWrites DEF Unlock
<1>20. ASSUME NEW op \in Operations, NEW raw \in Known \cup NeverIssued, Resolve(op, raw)
       PROVE  MainTypes /\ MainInv'
  <2>1. from_int(raw) \in Number /\ Old(from_int(raw))
    BY <1>20, RawIsOld DEF Resolve
  <2>2. PICK h \in Number : h = from_int(raw)
    BY <2>1
  <2>3. main' = [pc |-> IF Resolves(h) THEN "lock" ELSE "stale", op |-> op, handle |-> h]
    BY <1>20, <2>2 DEF Resolve
  <2>4. Old(h)' /\ (Resolves(h)' <=> Resolves(h))
    BY <1>3, <1>4, <2>1, <2>2
  <2>5. Resolves(h) => h.index \in Index
    BY DEF Resolves
  <2>6. main'.handle = h /\ main'.pc = IF Resolves(h) THEN "lock" ELSE "stale"
    BY <2>3
  <2>7. MainInv'
    BY <2>4, <2>5, <2>6 DEF MainInv, Old, Resolves
  <2>8. main' \in MainState
    BY <1>20, <2>2, <2>3 DEF MainState
  <2> QED BY <1>0, <1>20, <1>21, <2>7, <2>8 DEF Resolve
<1> QED BY <1>8, <1>9, <1>10, <1>11, <1>12, <1>13, <1>14, <1>15, <1>16, <1>17, <1>18,
           <1>19,
           <1>20 DEF MainNext, Operate

-----------------------------------------------------------------------------
(* What is told *)

\* The close events of a handle.
Tells(es, h) == {k \in 1 .. Len(es) : /\ es[k].kind = "connection_close"
                                      /\ es[k].handle = h}

\* A close event was due for h and has been emitted.
Told(h) == /\ h.generation \in 1 .. word[h.index].generation
           /\ ~Resolves(h)
           /\ ~(engine.pc = "emit_close" /\ engine.handle = h)

LEMMA ClosedIsTold ==
    ClosedExactlyOnce <=> \A h \in Handle : Cardinality(Tells(events, h)) =
                                                IF Told(h) THEN 1 ELSE 0
BY DEF ClosedExactlyOnce, Tells, Told

LEMMA ClosedIsToldPrimed ==
    ClosedExactlyOnce' <=> \A h \in Handle : Cardinality(Tells(events', h)) =
                                                 IF Told(h)' THEN 1 ELSE 0
BY DEF ClosedExactlyOnce, Tells, Told

LEMMA TellsAppend ==
    ASSUME NEW es \in Seq(Event), NEW e \in Event, NEW h \in Handle
    PROVE  Cardinality(Tells(Append(es, e), h)) =
               IF e.kind = "connection_close" /\ e.handle = h
               THEN Cardinality(Tells(es, h)) + 1 ELSE Cardinality(Tells(es, h))
<1>1. PICK n \in Nat : n = Len(es)
  OBVIOUS
<1>2. IsFiniteSet(1 .. n)
  BY FS_Interval
<1>3. IsFiniteSet(Tells(es, h)) /\ n + 1 \notin Tells(es, h)
  BY <1>1, <1>2, FS_Subset DEF Tells
<1>4. Len(Append(es, e)) = n + 1 /\ Append(es, e)[n + 1] = e
      /\ \A k \in 1 .. n : Append(es, e)[k] = es[k]
  BY <1>1
<1>5. CASE e.kind = "connection_close" /\ e.handle = h
  <2>1. Tells(Append(es, e), h) = Tells(es, h) \cup {n + 1}
    BY <1>1, <1>4, <1>5 DEF Tells
  <2> QED BY <1>3, <1>5, <2>1, FS_AddElement
<1>6. CASE ~(e.kind = "connection_close" /\ e.handle = h)
  <2>1. Tells(Append(es, e), h) = Tells(es, h)
    BY <1>1, <1>4, <1>6 DEF Tells
  <2> QED BY <1>6, <2>1
<1> QED BY <1>5, <1>6

\* A step that emits no close event and changes nothing that is due.
LEMMA SameTold ==
    ASSUME IInv, \A h \in Handle : Told(h)' <=> Told(h),
           \/ events' = events
           \/ \E h \in Handle :
                 events' = Append(events, [kind |-> "connection_open", handle |-> h])
    PROVE  ClosedExactlyOnce'
<1>1. \A h \in Handle : Cardinality(Tells(events, h)) = IF Told(h) THEN 1 ELSE 0
  BY ClosedIsTold DEF IInv
<1>2. CASE events' = events
  BY <1>1, <1>2, ClosedIsToldPrimed
<1>3. ASSUME NEW g \in Handle,
             events' = Append(events, [kind |-> "connection_open", handle |-> g])
      PROVE  ClosedExactlyOnce'
  <2>1. PICK e \in Event : e = [kind |-> "connection_open", handle |-> g]
    BY DEF Event
  <2>2. events \in Seq(Event)
    BY DEF IInv, TypeOK, Event
  <2>3. \A h \in Handle : Cardinality(Tells(events', h)) = Cardinality(Tells(events, h))
    BY <1>3, <2>1, <2>2, TellsAppend
  <2> QED BY <1>1, <2>3, ClosedIsToldPrimed
<1> QED BY <1>2, <1>3

-----------------------------------------------------------------------------
(* The engine thread *)

EngineState == [pc : {"idle", "open", "emit_open", "release", "emit_close"},
                handle : Handle]
Word == [state : {"free", "active"}, generation : Generation]

LEMMA Types ==
    TypeOK <=> /\ pool \in [Index -> {"free", "live", "refused"}]
               /\ word \in [Index -> Word]
               /\ active \in 0 .. Connections
               /\ record \in [Index -> Record]
               /\ ring \in Seq([kind : {"message", "close"}, handle : Handle])
               /\ Len(ring) <= RingCapacity
               /\ events \in Seq(Event)
               /\ delivered \in 0 .. Len(events)
               /\ engine \in EngineState
               /\ main \in MainState
BY DEF TypeOK, Word, Record, Event, EngineState, MainState, Number

LEMMA TypesPrimed ==
    TypeOK' <=> /\ pool' \in [Index -> {"free", "live", "refused"}]
                /\ word' \in [Index -> Word]
                /\ active' \in 0 .. Connections
                /\ record' \in [Index -> Record]
                /\ ring' \in Seq([kind : {"message", "close"}, handle : Handle])
                /\ Len(ring') <= RingCapacity
                /\ events' \in Seq(Event)
                /\ delivered' \in 0 .. Len(events')
                /\ engine' \in EngineState
                /\ main' \in MainState
BY DEF TypeOK, Word, Record, Event, EngineState, MainState, Number

\* The steps of the engine thread leave the main thread alone, and no
\* generation goes back.
EngineFrame ==
    /\ UNCHANGED <<ring, delivered, main>>
    /\ \A i \in Index : record[i].generation <= record'[i].generation
    /\ \A h : Old(h) /\ ~Resolves(h) => ~Resolves(h)'

LEMMA FrameKeeps ==
    ASSUME IInv, EngineFrame, record' \in [Index -> Record]
    PROVE  /\ MainInv'
           /\ events' = events => ToldInv'
<1>1. ASSUME NEW h, h.index \in Index => h.generation \in Nat, Old(h) PROVE Old(h)'
  <2>1. ASSUME h.index \in Index PROVE h.generation <= record'[h.index].generation
    <3>1. record[h.index].generation \in Nat /\ record'[h.index].generation \in Nat
      BY <2>1, Types, Sizes DEF IInv, Record
    <3>2. h.generation <= record[h.index].generation
          /\ record[h.index].generation <= record'[h.index].generation
      BY <1>1, <2>1 DEF Old, EngineFrame
    <3> QED BY <1>1, <2>1, <3>1, <3>2
  <2> QED BY <2>1 DEF Old
<1>2. MainInv'
  <2>1. PICK h \in Number : h = main.handle /\ h = main'.handle
    BY Types DEF IInv, MainState, EngineFrame
  <2>2. Old(h) => Old(h)'
    BY <1>1 DEF Number
  <2>3. main' = main
    BY DEF EngineFrame
  <2>4. Old(h) /\ ~Resolves(h) => ~Resolves(h)'
    BY DEF EngineFrame
  <2> QED BY <2>1, <2>2, <2>3, <2>4 DEF IInv, MainInv, Old, Resolves
<1>3. ASSUME events' = events PROVE ToldInv'
  <2>1. ASSUME NEW k \in 1 .. Len(events), events[k].kind = "connection_open"
        PROVE  Old(events[k].handle)'
    <3>1. events \in Seq(Event)
      BY Types DEF IInv
    <3>2. events[k] \in Event
      BY <3>1
    <3>3. PICK h \in Handle : h = events[k].handle
      BY <3>2 DEF Event
    <3>4. Old(h)
      BY <2>1, <3>3 DEF IInv, ToldInv
    <3>5. Old(h)'
      BY <1>1, <3>4, Sizes DEF Handle
    <3> QED BY <1>3, <3>3, <3>5 DEF Old
  <2> QED BY <1>3, <2>1 DEF ToldInv, Old
<1> QED BY <1>2, <1>3

\* The limit and the count, read off the slots.
LEMMA ActiveFinite ==
    IsFiniteSet(Active) /\ Cardinality(Active) \in 0 .. Connections
<1>1. IsFiniteSet(Index) /\ Cardinality(Index) = Connections
  BY FS_Interval, Sizes DEF Index
<1>2. IsFiniteSet(Active) /\ Cardinality(Active) <= Cardinality(Index)
  BY <1>1, FS_Subset DEF Active
<1>3. Cardinality(Active) \in Nat
  BY <1>2, FS_CardinalityType
<1> QED BY <1>1, <1>2, <1>3, Sizes

LEMMA RecordNumbers ==
    ASSUME IInv
    PROVE  /\ \A j \in Index : record[j].generation \in Nat
           /\ UNCHANGED record =>
                  \A j \in Index : record[j].generation <= record'[j].generation
<1>1. ASSUME NEW j \in Index PROVE record[j].generation \in Nat
  <2>1. record[j] \in Record
    BY Types DEF IInv
  <2> QED BY <2>1, Sizes DEF Record
<1> QED BY <1>1

LEMMA CountType == CountInv' => active' \in 0 .. Connections
<1>1. (IsFiniteSet(Active) /\ Cardinality(Active) \in 0 .. Connections)'
  BY ActiveFinite, PTL
<1> QED BY <1>1 DEF CountInv

LEMMA OnOpenRefusedKeeps ==
    ASSUME IInv, NEW i \in Index, OnOpenRefused(i)
    PROVE  IInv'
<1>1. /\ UNCHANGED <<word, active, record, ring, events, delivered, engine, main>>
      /\ engine.pc = "idle" /\ pool[i] = "free"
      /\ pool' = [pool EXCEPT ![i] = "refused"]
  BY DEF OnOpenRefused, Opening, slab
<1>2. /\ pool' \in [Index -> {"free", "live", "refused"}]
      /\ pool'[i] = "refused" /\ \A j \in Index : j # i => pool'[j] = pool[j]
  BY <1>1, Types DEF IInv
<1>3. TypeOK'
  BY <1>1, <1>2, Types, TypesPrimed DEF IInv
<1>4. EngineFrame
  BY <1>1, RecordNumbers DEF EngineFrame, Resolves
<1>5. MainInv' /\ ToldInv'
  BY <1>1, <1>3, <1>4, TypesPrimed, FrameKeeps
<1>6. \A h \in Handle : Told(h)' <=> Told(h)
  BY <1>1 DEF Told, Resolves
<1>7. ClosedExactlyOnce'
  BY <1>1, <1>6, SameTold
<1>8. PoolInv'
  <2>1. \A j \in Index : ~InCallback(j) => Mirrored(j)
    BY DEF IInv, PoolInv
  <2>2. \A j \in Index : Mirrored(j)
    BY <1>1, <2>1 DEF InCallback
  <2>3. \A j \in Index : Mirrored(j)'
    BY <1>1, <1>2, <2>2 DEF Mirrored
  <2> QED BY <2>3 DEF PoolInv
<1>9. CallbackInv' /\ GenerationInv' /\ CountInv'
  BY <1>1 DEF IInv, CallbackInv, GenerationInv, CountInv, Active
<1> QED BY <1>3, <1>5, <1>7, <1>8, <1>9 DEF IInv

LEMMA OnOpenAcquireKeeps ==
    ASSUME IInv, NEW i \in Index, OnOpenAcquire(i)
    PROVE  IInv'
<1>1. /\ UNCHANGED <<record, ring, events, delivered, main>>
      /\ engine.pc = "idle" /\ pool[i] = "free" /\ word[i].state = "free"
      /\ active < MaxConnections /\ active' = active + 1
      /\ word[i].generation < MaxOpened
      /\ pool' = [pool EXCEPT ![i] = "live"]
  BY DEF OnOpenAcquire, Opening, MayOpen
<1>2. PICK g \in Generation : g = word[i].generation + 1 /\ g >= 1
  <2>1. word[i].generation \in Nat /\ MaxOpened \in Nat
    BY Types, Sizes DEF IInv, Word
  <2> QED BY <1>1, <2>1 DEF Generation
<1>3. /\ word' = [word EXCEPT ![i] = [state |-> "active", generation |-> g]]
      /\ engine' = [pc |-> "open", handle |-> [index |-> i, generation |-> g]]
  BY <1>2 DEF OnOpenAcquire
<1>4. /\ pool' \in [Index -> {"free", "live", "refused"}]
      /\ pool'[i] = "live" /\ \A j \in Index : j # i => pool'[j] = pool[j]
  BY <1>1, Types DEF IInv
<1>5. /\ word' \in [Index -> Word]
      /\ word'[i] = [state |-> "active", generation |-> g]
      /\ \A j \in Index : j # i => word'[j] = word[j]
  BY <1>3, Types DEF IInv, Word
<1>6. engine' \in EngineState
  BY <1>3 DEF EngineState, Handle
<1>7. CountInv'
  <2>1. Active' = Active \cup {i} /\ i \notin Active
    BY <1>1, <1>5 DEF Active
  <2>2. active = Cardinality(Active) /\ Cardinality(Active) \in Nat
    BY ActiveFinite DEF IInv, CountInv
  <2>3. Cardinality(Active') = active + 1
    BY <2>1, <2>2, ActiveFinite, FS_AddElement
  <2> QED BY <1>1, <2>2, <2>3, Sizes DEF CountInv
<1>8. TypeOK'
  BY <1>1, <1>4, <1>5, <1>6, <1>7, CountType, Types, TypesPrimed DEF IInv
<1>9. ASSUME NEW h, h.index \in Index => h.generation # g \/ h.index # i, ~Resolves(h)
      PROVE  ~Resolves(h)'
  BY <1>5, <1>9 DEF Resolves
<1>10. record[i].generation < g
  <2>1. record[i].generation \in Nat /\ word[i].generation \in Nat
    BY Types, Sizes DEF IInv, Record, Word
  <2> QED BY <1>2, <2>1 DEF IInv, GenerationInv
<1>11. EngineFrame
  <2>1. ASSUME NEW h, Old(h), ~Resolves(h) PROVE ~Resolves(h)'
    <3>1. CASE h.index = i
      <4>1. h.generation <= record[i].generation
        BY <2>1, <3>1 DEF Old
      <4>2. h.generation # g
        BY <1>10, <4>1, RecordNumbers, Sizes
      <4> QED BY <1>9, <2>1, <4>2
    <3> QED BY <1>9, <2>1, <3>1
  <2>2. \A j \in Index : record[j].generation <= record'[j].generation
    BY <1>1, RecordNumbers
  <2> QED BY <1>1, <2>1, <2>2 DEF EngineFrame
<1>12. MainInv' /\ ToldInv'
  BY <1>1, <1>8, <1>11, TypesPrimed, FrameKeeps
<1>13. ASSUME NEW h \in Handle PROVE Told(h)' <=> Told(h)
  <2>1. PICK j \in Index, k \in Generation : h = [index |-> j, generation |-> k]
    BY DEF Handle
  <2>2. CASE j # i
    BY <1>1, <1>3, <1>5, <2>1, <2>2 DEF Told, Resolves
  <2>3. CASE j = i
    <3>1. k \in Nat /\ word[i].generation \in Nat
      BY <2>1, Types, Sizes DEF IInv, Word
    <3>2. Told(h) <=> k >= 1 /\ k <= word[i].generation
      BY <1>1, <2>1, <2>3, <3>1 DEF Told, Resolves
    <3>3. Told(h)' <=> k >= 1 /\ k <= g /\ k # g
      BY <1>2, <1>3, <1>5, <2>1, <2>3, <3>1 DEF Told, Resolves
    <3> QED BY <1>2, <3>1, <3>2, <3>3
  <2> QED BY <2>2, <2>3
<1>14. ClosedExactlyOnce'
  BY <1>1, <1>13, SameTold
<1>15. PoolInv'
  <2>1. ASSUME NEW j \in Index, j # i PROVE Mirrored(j)'
    <3>1. Mirrored(j)
      BY <1>1 DEF IInv, PoolInv, InCallback
    <3> QED BY <1>1, <1>4, <1>5, <2>1, <3>1 DEF Mirrored
  <2>2. InCallback(i)'
    BY <1>3 DEF InCallback
  <2> QED BY <2>1, <2>2 DEF PoolInv
<1>16. CallbackInv'
  BY <1>3, <1>4, <1>5 DEF CallbackInv
<1>17. GenerationInv'
  <2>1. record[i].generation <= g
    BY <1>10, RecordNumbers, Sizes
  <2> QED BY <1>1, <1>2, <1>5, <2>1 DEF IInv, GenerationInv
<1> QED BY <1>7, <1>8, <1>12, <1>14, <1>15, <1>16, <1>17 DEF IInv

LEMMA OnOpenResetKeeps ==
    ASSUME IInv, OnOpenReset
    PROVE  IInv'
<1>0. PICK i \in Index, g \in Generation : engine.handle = [index |-> i, generation |-> g]
  BY Types DEF IInv, EngineState, Handle
<1>1. /\ UNCHANGED <<pool, word, active, ring, events, delivered, main>>
      /\ engine.pc = "open" /\ engine' = [engine EXCEPT !.pc = "emit_open"]
      /\ record' = [record EXCEPT ![i] =
             [generation |-> g, state |-> "open", terminal |-> FALSE,
              buffered |-> 0, paused |-> FALSE, locked |-> FALSE]]
  BY <1>0 DEF OnOpenReset, slab
<1>2. /\ engine' \in EngineState /\ engine'.pc = "emit_open"
      /\ engine'.handle = [index |-> i, generation |-> g]
  BY <1>0, <1>1, Types DEF IInv, EngineState
<1>3. /\ record' \in [Index -> Record]
      /\ record'[i].generation = g /\ ~record'[i].terminal
      /\ \A j \in Index : j # i => record'[j] = record[j]
  BY <1>1, Types DEF IInv, Record
<1>4. TypeOK'
  BY <1>1, <1>2, <1>3, Types, TypesPrimed DEF IInv
<1>5. word[i] = [state |-> "active", generation |-> g] /\ pool[i] = "live"
  BY <1>0, <1>1 DEF IInv, CallbackInv
<1>6. \A j \in Index : record[j].generation <= record'[j].generation
  <2>1. ASSUME NEW j \in Index PROVE record[j].generation \in Nat
    BY Types, Sizes DEF IInv, Record
  <2>2. record[i].generation <= g
    BY <1>5 DEF IInv, GenerationInv
  <2> QED BY <1>3, <2>1, <2>2
<1>7. EngineFrame
  BY <1>1, <1>6 DEF EngineFrame, Resolves
<1>8. MainInv' /\ ToldInv'
  BY <1>1, <1>3, <1>7, FrameKeeps
<1>9. \A h \in Handle : Told(h)' <=> Told(h)
  BY <1>1, <1>2 DEF Told, Resolves
<1>10. ClosedExactlyOnce'
  BY <1>1, <1>9, SameTold
<1>11. PoolInv'
  <2>1. ASSUME NEW j \in Index, j # i PROVE Mirrored(j)'
    <3>1. Mirrored(j)
      BY <1>0, <2>1 DEF IInv, PoolInv, InCallback
    <3> QED BY <1>1, <1>3, <2>1, <3>1 DEF Mirrored
  <2>2. InCallback(i)'
    BY <1>2 DEF InCallback
  <2> QED BY <2>1, <2>2 DEF PoolInv
<1>12. CallbackInv'
  BY <1>1, <1>2, <1>3, <1>5 DEF CallbackInv
<1>13. GenerationInv'
  <2>1. g <= g
    BY Sizes
  <2> QED BY <1>1, <1>3, <1>5, <2>1 DEF IInv, GenerationInv
<1>14. CountInv'
  BY <1>1 DEF IInv, CountInv, Active
<1> QED BY <1>4, <1>8, <1>10, <1>11, <1>12, <1>13, <1>14 DEF IInv

LEMMA ToldAppend ==
    ASSUME IInv, UNCHANGED record, NEW e \in Event, events' = Append(events, e),
           e.kind = "connection_open" => Old(e.handle)
    PROVE  ToldInv'
<1>1. ASSUME NEW k \in 1 .. Len(events'), events'[k].kind = "connection_open"
      PROVE  Old(events[k].handle)'
  <2>1. events \in Seq(Event)
    BY Types DEF IInv
  <2>2. PICK f \in Event : /\ f = events'[k]
                            /\ \/ f = e
                               \/ k \in 1 .. Len(events) /\ f = events[k]
    <3>1. CASE k = Len(events) + 1
      <4>1. events'[k] = e
        BY <2>1, <3>1
      <4> QED BY <4>1
    <3>2. CASE k # Len(events) + 1
      <4>1. k \in 1 .. Len(events) /\ events'[k] = events[k] /\ events[k] \in Event
        BY <2>1, <3>2
      <4> QED BY <4>1
    <3> QED BY <3>1, <3>2
  <2>3. PICK h \in Handle : h = f.handle
    BY DEF Event
  <2>4. Old(h)
    <3>1. CASE f = e
      BY <1>1, <2>2, <2>3, <3>1
    <3>2. CASE k \in 1 .. Len(events) /\ f = events[k]
      BY <1>1, <2>2, <2>3, <3>2 DEF IInv, ToldInv
    <3> QED BY <2>2, <3>1, <3>2
  <2>5. h = events'[k].handle
    BY <2>2, <2>3
  <2> QED BY <2>4, <2>5 DEF Old
<1> QED BY <1>1 DEF ToldInv, Old

LEMMA OnOpenEmitKeeps ==
    ASSUME IInv, OnOpenEmit
    PROVE  IInv'
<1>0. PICK h \in Handle : engine.handle = h
  BY Types DEF IInv, EngineState
<1>1. /\ UNCHANGED <<pool, word, active, record, ring, delivered, main>>
      /\ engine.pc = "emit_open" /\ engine' = IdleEngine
      /\ \/ events' = events
         \/ events' = Append(events, [kind |-> "connection_open", handle |-> h])
  BY <1>0 DEF OnOpenEmit, slab
<1>2. engine'.pc = "idle" /\ engine' \in EngineState
  BY <1>1, Sizes DEF IdleEngine, EngineState
<1>3. PICK e \in Event : e = [kind |-> "connection_open", handle |-> h]
  BY DEF Event
<1>4. events \in Seq(Event) /\ delivered \in 0 .. Len(events)
  BY Types DEF IInv
<1>5. events' \in Seq(Event) /\ delivered' \in 0 .. Len(events')
  BY <1>1, <1>3, <1>4
<1>6. TypeOK'
  BY <1>1, <1>2, <1>5, Types, TypesPrimed DEF IInv
<1>7. EngineFrame
  BY <1>1, RecordNumbers DEF EngineFrame, Resolves
<1>8. MainInv' /\ (events' = events => ToldInv')
  BY <1>6, <1>7, TypesPrimed, FrameKeeps
<1>9. /\ word[h.index] = [state |-> "active", generation |-> h.generation]
      /\ pool[h.index] = "live" /\ h.index \in Index
      /\ record[h.index].generation = h.generation /\ ~record[h.index].terminal
  BY <1>0, <1>1 DEF IInv, CallbackInv, Handle
<1>10. ToldInv'
  <2>1. Old(h)
    BY <1>9, RecordNumbers DEF Old
  <2>2. events' = Append(events, e) => ToldInv'
    BY <1>1, <1>3, <2>1, ToldAppend
  <2> QED BY <1>1, <1>3, <1>8, <2>2
<1>11. \A g \in Handle : Told(g)' <=> Told(g)
  BY <1>1, <1>2 DEF Told, Resolves
<1>12. ClosedExactlyOnce'
  BY <1>1, <1>11, SameTold
<1>13. PoolInv'
  <2>1. ASSUME NEW j \in Index PROVE Mirrored(j)
    <3>1. CASE j = h.index
      BY <1>9, <3>1 DEF Mirrored
    <3>2. CASE j # h.index
      BY <1>0, <3>2 DEF IInv, PoolInv, InCallback
    <3> QED BY <3>1, <3>2
  <2> QED BY <1>1, <2>1 DEF PoolInv, Mirrored
<1>14. CallbackInv' /\ GenerationInv' /\ CountInv'
  BY <1>1, <1>2 DEF IInv, CallbackInv, GenerationInv, CountInv, Active
<1> QED BY <1>6, <1>8, <1>10, <1>12, <1>13, <1>14 DEF IInv

LEMMA OnCloseTerminalKeeps ==
    ASSUME IInv, NEW i \in Index, OnCloseTerminal(i)
    PROVE  IInv'
<1>1. /\ UNCHANGED <<word, active, record, ring, events, delivered, engine, main>>
      /\ engine.pc = "idle" /\ record[i].terminal
      /\ pool' = [pool EXCEPT ![i] = "free"]
  BY DEF OnCloseTerminal, slab
<1>2. /\ pool' \in [Index -> {"free", "live", "refused"}]
      /\ pool'[i] = "free" /\ \A j \in Index : j # i => pool'[j] = pool[j]
  BY <1>1, Types DEF IInv
<1>3. TypeOK'
  BY <1>1, <1>2, Types, TypesPrimed DEF IInv
<1>4. EngineFrame
  BY <1>1, RecordNumbers DEF EngineFrame, Resolves
<1>5. MainInv' /\ ToldInv'
  BY <1>1, <1>3, <1>4, TypesPrimed, FrameKeeps
<1>6. \A h \in Handle : Told(h)' <=> Told(h)
  BY <1>1 DEF Told, Resolves
<1>7. ClosedExactlyOnce'
  BY <1>1, <1>6, SameTold
<1>8. PoolInv'
  <2>1. \A j \in Index : Mirrored(j)
    BY <1>1 DEF IInv, PoolInv, InCallback
  <2>2. pool[i] # "live"
    BY <1>1, <2>1 DEF Mirrored
  <2>3. \A j \in Index : Mirrored(j)'
    BY <1>1, <1>2, <2>1, <2>2 DEF Mirrored
  <2> QED BY <2>3 DEF PoolInv
<1>9. CallbackInv' /\ GenerationInv' /\ CountInv'
  BY <1>1 DEF IInv, CallbackInv, GenerationInv, CountInv, Active
<1> QED BY <1>3, <1>5, <1>7, <1>8, <1>9 DEF IInv

LEMMA OnCloseFinishKeeps ==
    ASSUME IInv, NEW i \in Index, OnCloseFinish(i)
    PROVE  IInv'
<1>1. /\ UNCHANGED <<pool, word, active, ring, events, delivered, main>>
      /\ engine.pc = "idle" /\ pool[i] # "free"
      /\ record' = [record EXCEPT ![i].terminal = TRUE, ![i].state = "closed"]
      /\ engine' = [pc |-> "release", handle |-> [Nobody EXCEPT !.index = i]]
  BY DEF OnCloseFinish, slab
<1>2. engine' \in EngineState /\ engine'.pc = "release" /\ engine'.handle.index = i
  <2>1. [Nobody EXCEPT !.index = i] = [index |-> i, generation |-> 0] /\ 0 \in Generation
    BY Sizes DEF Nobody, Handle
  <2>2. [index |-> i, generation |-> 0] \in Handle
    BY <2>1 DEF Handle
  <2> QED BY <1>1, <2>1, <2>2 DEF EngineState
<1>3. /\ record' \in [Index -> Record]
      /\ \A j \in Index : record'[j].generation = record[j].generation
      /\ \A j \in Index : j # i => record'[j] = record[j]
  <2>1. record \in [Index -> Record]
    BY Types DEF IInv
  <2>2. record' = [record EXCEPT ![i] =
                       [[record[i] EXCEPT !.terminal = TRUE] EXCEPT !.state = "closed"]]
    BY <1>1, <2>1 DEF Record
  <2>3. /\ [[record[i] EXCEPT !.terminal = TRUE] EXCEPT !.state = "closed"] \in Record
        /\ [[record[i] EXCEPT !.terminal = TRUE] EXCEPT !.state = "closed"].generation
               = record[i].generation
    BY <2>1 DEF Record
  <2> QED BY <2>1, <2>2, <2>3
<1>4. TypeOK'
  BY <1>1, <1>2, <1>3, Types, TypesPrimed DEF IInv
<1>5. EngineFrame
  <2>1. \A j \in Index : record[j].generation <= record'[j].generation
    BY <1>3, RecordNumbers
  <2> QED BY <1>1, <2>1 DEF EngineFrame, Resolves
<1>6. MainInv' /\ ToldInv'
  BY <1>1, <1>3, <1>5, FrameKeeps
<1>7. \A h \in Handle : Told(h)' <=> Told(h)
  BY <1>1, <1>2 DEF Told, Resolves
<1>8. ClosedExactlyOnce'
  BY <1>1, <1>7, SameTold
<1>9. \A j \in Index : Mirrored(j)
  BY <1>1 DEF IInv, PoolInv, InCallback
<1>10. PoolInv'
  <2>1. \A j \in Index : j # i => Mirrored(j)'
    BY <1>1, <1>3, <1>9 DEF Mirrored
  <2>2. InCallback(i)'
    BY <1>2 DEF InCallback
  <2> QED BY <2>1, <2>2 DEF PoolInv
<1>11. CallbackInv'
  BY <1>1, <1>2, <1>9 DEF CallbackInv, Mirrored
<1>12. GenerationInv' /\ CountInv'
  BY <1>1, <1>3 DEF IInv, GenerationInv, CountInv, Active
<1> QED BY <1>4, <1>6, <1>8, <1>10, <1>11, <1>12 DEF IInv

LEMMA OnCloseReleaseKeeps ==
    ASSUME IInv, OnCloseRelease
    PROVE  IInv'
<1>0. PICK i \in Index : engine.handle.index = i
  BY Types DEF IInv, EngineState, Handle
<1>1. PICK g \in Generation : g = word[i].generation
  BY Types DEF IInv, Word
<1>2. /\ UNCHANGED <<pool, record, ring, events, delivered, main>>
      /\ engine.pc = "release" /\ word[i].state = "active"
      /\ active' = active - 1
      /\ word' = [word EXCEPT ![i].state = "free"]
      /\ engine' = [pc |-> "emit_close",
                    handle |-> [engine.handle EXCEPT !.generation = g]]
  BY <1>0, <1>1 DEF OnCloseRelease
<1>3. /\ engine' \in EngineState /\ engine'.pc = "emit_close"
      /\ engine'.handle = [index |-> i, generation |-> g]
  <2>1. [engine.handle EXCEPT !.generation = g] = [index |-> i, generation |-> g]
    BY <1>0, Types DEF IInv, EngineState, Handle
  <2> QED BY <1>2, <2>1 DEF EngineState, Handle
<1>4. /\ word' \in [Index -> Word]
      /\ word[i] = [state |-> "active", generation |-> g]
      /\ word'[i] = [state |-> "free", generation |-> g]
      /\ \A j \in Index : j # i => word'[j] = word[j]
  <2>1. word \in [Index -> Word] /\ word[i] \in Word
    BY Types DEF IInv
  <2>2. word[i] = [state |-> "active", generation |-> g]
    BY <1>1, <1>2, <2>1 DEF Word
  <2>3. word' = [word EXCEPT ![i] = [state |-> "free", generation |-> g]]
    <3>1. word' = [word EXCEPT ![i] = [word[i] EXCEPT !.state = "free"]]
      BY <1>2, <2>1
    <3>2. [word[i] EXCEPT !.state = "free"] = [state |-> "free", generation |-> g]
      BY <2>2
    <3> QED BY <3>1, <3>2
  <2> QED BY <2>1, <2>2, <2>3 DEF Word
<1>5. g >= 1
  BY <1>4 DEF IInv, GenerationInv
<1>6. CountInv'
  <2>1. Active' = Active \ {i} /\ i \in Active
    BY <1>4 DEF Active
  <2>2. active = Cardinality(Active) /\ Cardinality(Active) \in Nat
        /\ active <= MaxConnections
    BY ActiveFinite DEF IInv, CountInv
  <2>3. Cardinality(Active') = active - 1
    BY <2>1, <2>2, ActiveFinite, FS_RemoveElement
  <2> QED BY <1>2, <2>2, <2>3, Sizes DEF CountInv
<1>7. TypeOK'
  BY <1>2, <1>3, <1>4, <1>6, CountType, Types, TypesPrimed DEF IInv
<1>8. \A h : ~Resolves(h) => ~Resolves(h)'
  BY <1>4 DEF Resolves
<1>9. EngineFrame
  BY <1>2, <1>8, RecordNumbers DEF EngineFrame
<1>10. MainInv' /\ ToldInv'
  BY <1>2, <1>7, <1>9, TypesPrimed, FrameKeeps
<1>11. ASSUME NEW h \in Handle PROVE Told(h)' <=> Told(h)
  <2>1. PICK j \in Index, k \in Generation : h = [index |-> j, generation |-> k]
    BY DEF Handle
  <2>2. CASE j # i
    BY <1>2, <1>3, <1>4, <2>1, <2>2 DEF Told, Resolves
  <2>3. CASE j = i
    <3>1. Told(h) <=> k \in 1 .. g /\ k # g
      BY <1>2, <1>4, <2>1, <2>3 DEF Told, Resolves
    <3>2. Told(h)' <=> k \in 1 .. g /\ k # g
      BY <1>3, <1>4, <2>1, <2>3 DEF Told, Resolves
    <3> QED BY <3>1, <3>2
  <2> QED BY <2>2, <2>3
<1>12. ClosedExactlyOnce'
  BY <1>2, <1>11, SameTold
<1>13. PoolInv'
  <2>1. ASSUME NEW j \in Index, j # i PROVE Mirrored(j)'
    <3>1. Mirrored(j)
      BY <1>0, <2>1 DEF IInv, PoolInv, InCallback
    <3> QED BY <1>2, <1>4, <2>1, <3>1 DEF Mirrored
  <2>2. InCallback(i)'
    BY <1>3 DEF InCallback
  <2> QED BY <2>1, <2>2 DEF PoolInv
<1>14. CallbackInv'
  BY <1>3, <1>4, <1>5 DEF CallbackInv
<1>15. GenerationInv'
  BY <1>2, <1>4 DEF IInv, GenerationInv
<1> QED BY <1>6, <1>7, <1>10, <1>12, <1>13, <1>14, <1>15 DEF IInv

LEMMA OnCloseNothingKeeps ==
    ASSUME IInv, OnCloseNothing
    PROVE  IInv'
<1>0. PICK i \in Index : engine.handle.index = i
  BY Types DEF IInv, EngineState, Handle
<1>1. /\ UNCHANGED <<word, active, record, ring, events, delivered, main>>
      /\ engine.pc = "release" /\ word[i].state # "active"
      /\ pool' = [pool EXCEPT ![i] = "free"] /\ engine' = IdleEngine
  BY <1>0 DEF OnCloseNothing, slab
<1>2. engine'.pc = "idle" /\ engine' \in EngineState
  BY <1>1, Sizes DEF IdleEngine, EngineState
<1>3. /\ pool' \in [Index -> {"free", "live", "refused"}]
      /\ pool'[i] = "free" /\ \A j \in Index : j # i => pool'[j] = pool[j]
  BY <1>1, Types DEF IInv
<1>4. TypeOK'
  BY <1>1, <1>2, <1>3, Types, TypesPrimed DEF IInv
<1>5. EngineFrame
  BY <1>1, RecordNumbers DEF EngineFrame, Resolves
<1>6. MainInv' /\ ToldInv'
  BY <1>1, <1>4, <1>5, TypesPrimed, FrameKeeps
<1>7. \A h \in Handle : Told(h)' <=> Told(h)
  BY <1>1, <1>2 DEF Told, Resolves
<1>8. ClosedExactlyOnce'
  BY <1>1, <1>7, SameTold
<1>9. PoolInv'
  <2>1. ASSUME NEW j \in Index PROVE Mirrored(j)'
    <3>1. CASE j = i
      BY <1>1, <1>3, <3>1 DEF Mirrored
    <3>2. CASE j # i
      <4>1. Mirrored(j)
        BY <1>0, <3>2 DEF IInv, PoolInv, InCallback
      <4> QED BY <1>1, <1>3, <3>2, <4>1 DEF Mirrored
    <3> QED BY <3>1, <3>2
  <2> QED BY <2>1 DEF PoolInv
<1>10. CallbackInv' /\ GenerationInv' /\ CountInv'
  BY <1>1, <1>2 DEF IInv, CallbackInv, GenerationInv, CountInv, Active
<1> QED BY <1>4, <1>6, <1>8, <1>9, <1>10 DEF IInv

LEMMA OnCloseEmitKeeps ==
    ASSUME IInv, OnCloseEmit
    PROVE  IInv'
<1>0. PICK i \in Index, g \in Generation : engine.handle = [index |-> i, generation |-> g]
  BY Types DEF IInv, EngineState, Handle
<1>1. PICK h \in Handle : engine.handle = h
  BY Types DEF IInv, EngineState
<1>2. PICK e \in Event : e = [kind |-> "connection_close", handle |-> h]
  BY DEF Event
<1>3. /\ UNCHANGED <<word, active, record, ring, delivered, main>>
      /\ engine.pc = "emit_close" /\ engine' = IdleEngine
      /\ pool' = [pool EXCEPT ![i] = "free"]
      /\ events' = Append(events, e)
  BY <1>0, <1>1, <1>2 DEF OnCloseEmit, slab
<1>4. engine'.pc = "idle" /\ engine' \in EngineState
  BY <1>3, Sizes DEF IdleEngine, EngineState
<1>5. /\ pool' \in [Index -> {"free", "live", "refused"}]
      /\ pool'[i] = "free" /\ \A j \in Index : j # i => pool'[j] = pool[j]
  BY <1>3, Types DEF IInv
<1>6. events \in Seq(Event) /\ delivered \in 0 .. Len(events)
  BY Types DEF IInv
<1>7. events' \in Seq(Event) /\ delivered' \in 0 .. Len(events')
  BY <1>3, <1>6
<1>8. TypeOK'
  BY <1>3, <1>4, <1>5, <1>7, Types, TypesPrimed DEF IInv
<1>9. EngineFrame
  BY <1>3, RecordNumbers DEF EngineFrame, Resolves
<1>10. MainInv'
  BY <1>8, <1>9, TypesPrimed, FrameKeeps
<1>11. ToldInv'
  BY <1>2, <1>3, ToldAppend
<1>12. word[i] = [state |-> "free", generation |-> g] /\ g >= 1
  BY <1>0, <1>3 DEF IInv, CallbackInv
<1>13. ClosedExactlyOnce'
  <2>1. ASSUME NEW f \in Handle
        PROVE  Cardinality(Tells(events', f)) = IF Told(f)' THEN 1 ELSE 0
    <3>1. Cardinality(Tells(events, f)) = IF Told(f) THEN 1 ELSE 0
      BY ClosedIsTold DEF IInv
    <3>2. Cardinality(Tells(events', f)) =
              IF f = h THEN Cardinality(Tells(events, f)) + 1
              ELSE Cardinality(Tells(events, f))
      BY <1>2, <1>3, <1>6, TellsAppend
    <3>3. CASE f = h
      <4>1. ~Told(f)
        BY <1>1, <1>3, <3>3 DEF Told
      <4>2. Told(f)'
        <5>1. f = [index |-> i, generation |-> g] /\ g \in 1 .. g
          BY <1>0, <1>1, <1>12, <3>3, Sizes
        <5> QED BY <1>3, <1>4, <1>12, <5>1 DEF Told, Resolves
      <4> QED BY <3>1, <3>2, <3>3, <4>1, <4>2
    <3>4. CASE f # h
      <4>1. Told(f)' <=> Told(f)
        BY <1>1, <1>3, <1>4, <3>4 DEF Told, Resolves
      <4> QED BY <3>1, <3>2, <3>4, <4>1
    <3> QED BY <3>3, <3>4
  <2> QED BY <2>1, ClosedIsToldPrimed
<1>14. PoolInv'
  <2>1. ASSUME NEW j \in Index PROVE Mirrored(j)'
    <3>1. CASE j = i
      BY <1>3, <1>5, <1>12, <3>1 DEF Mirrored
    <3>2. CASE j # i
      <4>1. Mirrored(j)
        BY <1>0, <3>2 DEF IInv, PoolInv, InCallback
      <4> QED BY <1>3, <1>5, <3>2, <4>1 DEF Mirrored
    <3> QED BY <3>1, <3>2
  <2> QED BY <2>1 DEF PoolInv
<1>15. CallbackInv' /\ GenerationInv' /\ CountInv'
  BY <1>3, <1>4 DEF IInv, CallbackInv, GenerationInv, CountInv, Active
<1> QED BY <1>8, <1>10, <1>11, <1>13, <1>14, <1>15 DEF IInv

-----------------------------------------------------------------------------
(* The invariant *)

LEMMA InitKeeps == Init => IInv
<1> SUFFICES ASSUME Init PROVE IInv
  OBVIOUS
<1> USE DEF Init
<1>1. Active = {} /\ active = Cardinality(Active)
  BY FS_EmptySet DEF Active
<1>2. CountInv
  BY <1>1, Sizes DEF CountInv
<1>3. 0 \in Generation /\ Nobody \in Number
  BY Sizes DEF Nobody, Handle
<1>4. TypeOK
  <2>1. engine \in EngineState /\ main \in MainState
    BY <1>3, Sizes DEF IdleEngine, IdleMain, EngineState, MainState, Operations
  <2>2. word \in [Index -> Word] /\ record \in [Index -> Record]
    BY <1>3 DEF Word, Record
  <2>3. active \in 0 .. Connections /\ Len(ring) <= RingCapacity /\ delivered \in 0 .. Len(events)
    BY Sizes
  <2> QED BY <2>1, <2>2, <2>3, Types
<1>5. PoolInv /\ CallbackInv /\ GenerationInv /\ ToldInv /\ MainInv
  BY Sizes DEF PoolInv, Mirrored, CallbackInv, GenerationInv, ToldInv, MainInv,
     IdleEngine,
     IdleMain
<1>6. ClosedExactlyOnce
  <2>1. ASSUME NEW h \in Handle PROVE ~Told(h) /\ Cardinality(Tells(events, h)) = 0
    <3>1. Tells(events, h) = {}
      BY DEF Tells
    <3>2. ~(h.generation \in 1 .. word[h.index].generation)
      BY DEF Handle
    <3> QED BY <3>1, <3>2, FS_EmptySet DEF Told
  <2> QED BY <2>1, ClosedIsTold
<1> QED BY <1>2, <1>4, <1>5, <1>6 DEF IInv

\* The main thread moves nothing the engine thread relies on.
LEMMA MainStepKeeps == IInv /\ MainNext => IInv'
<1> SUFFICES ASSUME IInv, MainNext PROVE IInv'
  OBVIOUS
<1>1. MainFrame /\ MainTypes /\ MainInv'
  BY MainFrames, MainKeeps DEF IInv
<1>2. /\ UNCHANGED <<pool, word, active, events, engine>>
      /\ \A j \in Index : /\ record'[j].generation = record[j].generation
                          /\ record'[j].terminal = record[j].terminal
  BY <1>1 DEF MainFrame
<1>3. TypeOK'
  BY <1>1, <1>2, Types, TypesPrimed DEF IInv, MainTypes
<1>4. \A h \in Handle : Told(h)' <=> Told(h)
  BY <1>2 DEF Told, Resolves
<1>5. ClosedExactlyOnce'
  BY <1>2, <1>4, SameTold
<1>6. PoolInv' /\ CallbackInv' /\ GenerationInv' /\ CountInv'
  BY <1>2 DEF IInv, PoolInv, InCallback, Mirrored, CallbackInv, GenerationInv, CountInv,
     Active
<1>7. ToldInv'
  BY <1>2 DEF IInv, ToldInv, Old
<1> QED BY <1>1, <1>3, <1>5, <1>6, <1>7 DEF IInv

LEMMA StutterKeeps == IInv /\ UNCHANGED vars => IInv'
BY DEF vars, IInv, TypeOK, CallbackInv, PoolInv, InCallback, Mirrored, CountInv, Active,
   GenerationInv, ToldInv, Old, MainInv, Resolves, ClosedExactlyOnce

LEMMA StepKeeps == IInv /\ [Next]_vars => IInv'
<1> SUFFICES ASSUME IInv, [Next]_vars PROVE IInv'
  OBVIOUS
<1>1. CASE Accept
  BY <1>1, OnOpenRefusedKeeps, OnOpenAcquireKeeps DEF Accept
<1>2. CASE Callback
  BY <1>2, OnOpenResetKeeps, OnOpenEmitKeeps, OnCloseReleaseKeeps, OnCloseNothingKeeps,
     OnCloseEmitKeeps, OnCloseTerminalKeeps, OnCloseFinishKeeps DEF Callback
<1>3. CASE MainNext
  BY <1>3, MainStepKeeps
<1> QED BY <1>1, <1>2, <1>3, StutterKeeps DEF Next, MainNext

\* Neither thread ever takes a slot, a record or a handle for another's.
THEOREM Invariant == Spec => []IInv
<1> QED BY InitKeeps, StepKeeps, PTL DEF Spec

\* Slots, records, handles and both threads keep their types, for every number
\* of slots (handles.zig:51-73, socket.zig:30-47).
THEOREM TypeCorrect == Spec => []TypeOK
<1>1. IInv => TypeOK
  BY DEF IInv
<1> QED BY <1>1, Invariant, PTL

\* The slab and the records mirror the engine's pool whenever the engine thread
\* is between two callbacks (connections.zig:42-53).
THEOREM MirrorProved == Spec => []MirrorsPool
<1>1. ASSUME IInv, engine.pc = "idle"
      PROVE  /\ active = Cardinality({i \in Index : pool[i] = "live"})
             /\ active <= MaxConnections
             /\ \A i \in Index :
                   /\ (word[i].state = "active") = (pool[i] = "live")
                   /\ pool[i] = "live" =>
                          /\ record[i].generation = word[i].generation
                          /\ ~record[i].terminal
  <2>1. \A i \in Index : Mirrored(i)
    BY <1>1 DEF IInv, PoolInv, InCallback
  <2>2. Active = {i \in Index : pool[i] = "live"}
    BY <2>1 DEF Active, Mirrored
  <2> QED BY <1>1, <2>1, <2>2 DEF IInv, CountInv, Mirrored
<1>2. IInv => MirrorsPool
  BY <1>1 DEF MirrorsPool
<1> QED BY <1>2, Invariant, PTL

\* A handle JavaScript was given is never invalid while its connection is live
\* (socket_io.zig:83-90, connections.zig:49-54).
THEOREM LiveHandleProved == Spec => []LiveHandleWorks
<1>1. IInv => LiveHandleWorks
  BY DEF IInv, MainInv, LiveHandleWorks
<1> QED BY <1>1, Invariant, PTL

\* Every connection that ended is told as closed once, and nothing is told of
\* a connection that never was (socket.zig:88-97, connections.zig:62-73).
THEOREM ClosedOnce == Spec => []ClosedExactlyOnce
<1>1. IInv => ClosedExactlyOnce
  BY DEF IInv
<1> QED BY <1>1, Invariant, PTL

-----------------------------------------------------------------------------
(* What was staged for a handle *)

\* The least element of a set of naturals, and induction over one.
LEMMA LeastNatural ==
    ASSUME NEW T \in SUBSET Nat, T # {}
    PROVE  \E m \in T : \A k \in T : m <= k
<1>1. PICK m \in T : \A k \in T : <<k, m>> \notin OpToRel(<, Nat)
  <2>1. IsWellFoundedOn(OpToRel(<, Nat), Nat)
    BY NatLessThanWellFounded
  <2> DEFINE R == OpToRel(<, Nat)
  <2>2. IsWellFoundedOn(R, Nat)
    BY <2>1
  <2> HIDE DEF R
  <2> SUFFICES \E m \in T : \A k \in T : <<k, m>> \notin R
    BY DEF R
  <2> QED BY <2>2, WFMin
<1>2. \A k \in T : m <= k
  <2> SUFFICES ASSUME NEW k \in T, k < m PROVE FALSE
    OBVIOUS
  <2>1. <<k, m>> \in OpToRel(<, Nat)
    BY DEF OpToRel
  <2> QED BY <1>1, <2>1
<1> QED BY <1>2

LEMMA SetInduction ==
    ASSUME NEW T, 0 \in T, \A n \in Nat : n \in T => n + 1 \in T
    PROVE  \A n \in Nat : n \in T
<1> DEFINE U == Nat \ T
<1> SUFFICES ASSUME U # {} PROVE FALSE
  OBVIOUS
<1>1. PICK m \in U : \A k \in U : m <= k
  BY LeastNatural
<1>2. m # 0 /\ m - 1 \in Nat /\ m - 1 \notin U
  BY <1>1
<1> QED BY <1>1, <1>2

Kind == {"message", "close"}
Payload == [kind : Kind, handle : Handle]

\* The function that Kinds defines by recursion, as a condition on functions.
UpTo(f, q, h) ==
    /\ f \in [0 .. Len(q) -> Seq(Kind)]
    /\ f[0] = <<>>
    /\ \A n \in 1 .. Len(q) :
           f[n] = IF q[n].handle = h THEN Append(f[n - 1], q[n].kind) ELSE f[n - 1]

\* A longer sequence continues the function of a shorter one.
LEMMA UpToAppend ==
    ASSUME NEW q \in Seq(Payload), NEW e \in Payload, NEW h, NEW f, UpTo(f, q, h)
    PROVE  UpTo([n \in 0 .. Len(q) + 1 |->
                    IF n <= Len(q) THEN f[n]
                    ELSE IF e.handle = h THEN Append(f[Len(q)], e.kind) ELSE f[Len(q)]],
                Append(q, e), h)
<1> DEFINE g == [n \in 0 .. Len(q) + 1 |->
                    IF n <= Len(q) THEN f[n]
                    ELSE IF e.handle = h THEN Append(f[Len(q)], e.kind) ELSE f[Len(q)]]
<1>1. Len(q) \in Nat /\ Len(Append(q, e)) = Len(q) + 1
  OBVIOUS
<1>2. e.kind \in Kind /\ f[Len(q)] \in Seq(Kind)
  BY <1>1 DEF UpTo, Payload
<1>3. g \in [0 .. Len(Append(q, e)) -> Seq(Kind)]
  BY <1>1, <1>2 DEF UpTo
<1>4. g[0] = <<>>
  BY <1>1 DEF UpTo
<1>5. ASSUME NEW n \in 1 .. Len(Append(q, e))
      PROVE  g[n] = IF Append(q, e)[n].handle = h
                    THEN Append(g[n - 1], Append(q, e)[n].kind) ELSE g[n - 1]
  <2>1. n \in Nat /\ n - 1 \in 0 .. Len(q) /\ g[n - 1] = f[n - 1]
    BY <1>1
  <2>2. CASE n = Len(q) + 1
    BY <1>1, <2>1, <2>2
  <2>3. CASE n \in 1 .. Len(q)
    <3>1. g[n] = f[n] /\ Append(q, e)[n] = q[n]
      BY <1>1, <2>3
    <3>2. f[n] = IF q[n].handle = h THEN Append(f[n - 1], q[n].kind) ELSE f[n - 1]
      BY <2>3 DEF UpTo
    <3> QED BY <2>1, <3>1, <3>2
  <2> QED BY <1>1, <2>2, <2>3
<1> QED BY <1>3, <1>4, <1>5 DEF UpTo

\* There is such a function for every sequence.
LEMMA UpToExists ==
    ASSUME NEW h
    PROVE  \A q \in Seq(Payload) : \E f : UpTo(f, q, h)
<1> DEFINE T == {n \in Nat : \A q \in Seq(Payload) : Len(q) = n => \E f : UpTo(f, q, h)}
<1>1. 0 \in T
  <2> SUFFICES ASSUME NEW q \in Seq(Payload), Len(q) = 0 PROVE \E f : UpTo(f, q, h)
    OBVIOUS
  <2>1. UpTo([n \in 0 .. 0 |-> <<>>], q, h)
    BY DEF UpTo
  <2> QED BY <2>1
<1>2. ASSUME NEW n \in Nat, n \in T PROVE n + 1 \in T
  <2> SUFFICES ASSUME NEW q \in Seq(Payload), Len(q) = n + 1 PROVE \E f : UpTo(f, q, h)
    OBVIOUS
  <2>1. PICK p \in Seq(Payload), e \in Payload : Len(p) = n /\ q = Append(p, e)
    <3>1. /\ SubSeq(q, 1, n) \in Seq(Payload) /\ Len(SubSeq(q, 1, n)) = n
          /\ q[n + 1] \in Payload /\ q = Append(SubSeq(q, 1, n), q[n + 1])
      OBVIOUS
    <3> QED BY <3>1
  <2>2. PICK f : UpTo(f, p, h)
    BY <1>2, <2>1
  <2> QED BY <2>1, <2>2, UpToAppend
<1> HIDE DEF T
<1>3. \A n \in Nat : n \in T
  BY <1>1, <1>2, SetInduction
<1> QED BY <1>3 DEF T

LEMMA KindsIs ==
    ASSUME NEW q \in Seq(Payload), NEW h, NEW f, UpTo(f, q, h)
    PROVE  Kinds(q, h) = f[Len(q)]
<1>1. f = [n \in 0 .. Len(q) |->
              IF n = 0 THEN <<>>
              ELSE IF q[n].handle = h THEN Append(f[n - 1], q[n].kind) ELSE f[n - 1]]
  <2>1. f = [n \in 0 .. Len(q) |-> f[n]]
    BY DEF UpTo
  <2>2. ASSUME NEW n \in 0 .. Len(q)
        PROVE  f[n] = IF n = 0 THEN <<>>
                      ELSE IF q[n].handle = h THEN Append(f[n - 1], q[n].kind)
                                              ELSE f[n - 1]
    <3>1. n = 0 \/ n \in 1 .. Len(q)
      OBVIOUS
    <3> QED BY <3>1 DEF UpTo
  <2> QED BY <2>1, <2>2, Zenon
<1> DEFINE g == CHOOSE g : g = [n \in 0 .. Len(q) |->
              IF n = 0 THEN <<>>
              ELSE IF q[n].handle = h THEN Append(g[n - 1], q[n].kind) ELSE g[n - 1]]
<1>2. g = [n \in 0 .. Len(q) |->
              IF n = 0 THEN <<>>
              ELSE IF q[n].handle = h THEN Append(g[n - 1], q[n].kind) ELSE g[n - 1]]
  BY <1>1
<1>3. Kinds(q, h) = g[Len(q)]
  BY DEF Kinds
<1> HIDE DEF g
<1>4. \A n \in 0 .. Len(q) : f[n] = g[n]
  <2> DEFINE T == {n \in Nat : n <= Len(q) => f[n] = g[n]}
  <2>1. 0 \in T
    BY <1>2 DEF UpTo
  <2>2. ASSUME NEW n \in Nat, n \in T PROVE n + 1 \in T
    <3> SUFFICES ASSUME n + 1 <= Len(q) PROVE f[n + 1] = g[n + 1]
      OBVIOUS
    <3>1. f[n] = g[n] /\ n + 1 \in 1 .. Len(q) /\ (n + 1) - 1 = n /\ n + 1 # 0
      BY <2>2
    <3>2. n + 1 \in 0 .. Len(q)
      BY <3>1
    <3>3. g[n + 1] = IF q[n + 1].handle = h THEN Append(g[n], q[n + 1].kind) ELSE g[n]
      BY <1>2, <3>1, <3>2
    <3>4. f[n + 1] = IF q[n + 1].handle = h THEN Append(f[n], q[n + 1].kind) ELSE f[n]
      BY <3>1 DEF UpTo
    <3> QED BY <3>1, <3>3, <3>4
  <2> HIDE DEF T
  <2>3. \A n \in Nat : n \in T
    BY <2>1, <2>2, SetInduction
  <2> QED BY <2>3 DEF T
<1> QED BY <1>3, <1>4

\* What Kinds computes: the frames of a handle, in the order they were staged.
LEMMA KindsEmpty == ASSUME NEW h PROVE Kinds(<<>>, h) = <<>>
<1>1. <<>> \in Seq(Payload) /\ Len(<<>>) = 0
  OBVIOUS
<1>2. PICK f : UpTo(f, <<>>, h)
  BY <1>1, UpToExists
<1> QED BY <1>1, <1>2, KindsIs DEF UpTo

LEMMA KindsType ==
    ASSUME NEW q \in Seq(Payload), NEW h
    PROVE  Kinds(q, h) \in Seq(Kind)
<1>1. PICK f : UpTo(f, q, h)
  BY UpToExists
<1>2. Len(q) \in 0 .. Len(q)
  OBVIOUS
<1> QED BY <1>1, <1>2, KindsIs DEF UpTo

LEMMA KindsAppend ==
    ASSUME NEW q \in Seq(Payload), NEW e \in Payload, NEW h
    PROVE  Kinds(Append(q, e), h) =
               IF e.handle = h THEN Append(Kinds(q, h), e.kind) ELSE Kinds(q, h)
<1>1. PICK f : UpTo(f, q, h)
  BY UpToExists
<1>2. PICK n \in Nat : n = Len(q)
  OBVIOUS
<1>3. PICK r : r \in Seq(Payload) /\ r = Append(q, e)
  <2>1. Append(q, e) \in Seq(Payload)
    OBVIOUS
  <2> QED BY <2>1
<1>4. PICK g : /\ g = [k \in 0 .. Len(q) + 1 |->
                    IF k <= Len(q) THEN f[k]
                    ELSE IF e.handle = h THEN Append(f[Len(q)], e.kind) ELSE f[Len(q)]]
               /\ UpTo(g, r, h)
  BY <1>1, <1>3, UpToAppend
<1>5. Kinds(r, h) = g[Len(r)] /\ Kinds(q, h) = f[n]
  BY <1>1, <1>2, <1>3, <1>4, KindsIs
<1>6. Len(r) = n + 1 /\ ~(n + 1 <= n) /\ n + 1 \in 0 .. n + 1
  BY <1>2, <1>3
<1> QED BY <1>2, <1>3, <1>4, <1>5, <1>6

\* A sequence extended by an element contains that element besides its own.
LEMMA ContainsAppend ==
    ASSUME NEW s \in Seq(Kind), NEW e \in Kind, NEW x
    PROVE  Contains(Append(s, e), x) <=> Contains(s, x) \/ e = x
<1>1. PICK n \in Nat : n = Len(s)
  OBVIOUS
<1>2. /\ Len(Append(s, e)) = n + 1 /\ Append(s, e)[n + 1] = e
      /\ \A k \in 1 .. n : Append(s, e)[k] = s[k]
  BY <1>1
<1>3. 1 .. n + 1 = (1 .. n) \cup {n + 1}
  OBVIOUS
<1> QED BY <1>1, <1>2, <1>3 DEF Contains

LEMMA ContainsEmpty == ASSUME NEW x PROVE ~Contains(<<>>, x)
BY DEF Contains

LEMMA BytesAppend ==
    ASSUME NEW q \in Seq(Payload), NEW e \in Payload, NEW h
    PROVE  /\ Bytes(q, h) \in Nat
           /\ Bytes(Append(q, e), h) =
                  IF e.handle = h THEN Bytes(q, h) + BytesOf(e.kind) ELSE Bytes(q, h)
<1>1. PICK n \in Nat : n = Len(q)
  OBVIOUS
<1>2. PICK r : r \in Seq(Payload) /\ r = Append(q, e)
  <2>1. Append(q, e) \in Seq(Payload)
    OBVIOUS
  <2> QED BY <2>1
<1>3. DOMAIN q = 1 .. n /\ DOMAIN r = 1 .. n + 1 /\ r[n + 1] = e
      /\ \A k \in 1 .. n : r[k] = q[k]
  BY <1>1, <1>2
<1>4. IsFiniteSet(1 .. n)
  BY FS_Interval
<1>5. ASSUME NEW kind
      PROVE  /\ Cardinality(Payloads(q, h, kind)) \in Nat
             /\ Cardinality(Payloads(r, h, kind)) =
                    IF e = [kind |-> kind, handle |-> h]
                    THEN Cardinality(Payloads(q, h, kind)) + 1
                    ELSE Cardinality(Payloads(q, h, kind))
  <2>1. Payloads(q, h, kind) \subseteq 1 .. n /\ n + 1 \notin Payloads(q, h, kind)
    BY <1>3 DEF Payloads
  <2>2. IsFiniteSet(Payloads(q, h, kind))
    BY <1>4, <2>1, FS_Subset
  <2>3. Cardinality(Payloads(q, h, kind)) \in Nat
    BY <2>2, FS_CardinalityType
  <2>4. CASE e = [kind |-> kind, handle |-> h]
    <3>1. Payloads(r, h, kind) = Payloads(q, h, kind) \cup {n + 1}
      BY <1>3, <2>4 DEF Payloads
    <3> QED BY <2>1, <2>2, <2>3, <2>4, <3>1, FS_AddElement
  <2>5. CASE e # [kind |-> kind, handle |-> h]
    <3>1. Payloads(r, h, kind) = Payloads(q, h, kind)
      BY <1>3, <2>5 DEF Payloads
    <3> QED BY <2>3, <2>5, <3>1
  <2> QED BY <2>3, <2>4, <2>5
<1>6. Cardinality(Payloads(q, h, "message")) \in Nat
      /\ Cardinality(Payloads(q, h, "close")) \in Nat
  BY <1>5
<1>7. CASE e.handle # h
  <2>1. \A kind : e # [kind |-> kind, handle |-> h]
    BY <1>7
  <2>2. \A kind : Cardinality(Payloads(r, h, kind)) = Cardinality(Payloads(q, h, kind))
    BY <1>5, <2>1
  <2> QED BY <1>2, <1>6, <1>7, <2>2 DEF Bytes, BytesOf
<1>8. CASE e = [kind |-> "message", handle |-> h]
  <2>1. e # [kind |-> "close", handle |-> h] /\ e.kind = "message" /\ e.handle = h
    BY <1>8
  <2>2. Cardinality(Payloads(r, h, "message")) = Cardinality(Payloads(q, h, "message")) + 1
    BY <1>5, <1>8
  <2>3. Cardinality(Payloads(r, h, "close")) = Cardinality(Payloads(q, h, "close"))
    BY <1>5, <2>1
  <2>4. /\ Bytes(q, h) = Cardinality(Payloads(q, h, "message"))
                             + Cardinality(Payloads(q, h, "close")) * 2
        /\ Bytes(r, h) = Cardinality(Payloads(r, h, "message"))
                             + Cardinality(Payloads(r, h, "close")) * 2
    BY <1>6, <2>2, <2>3 DEF Bytes, BytesOf
  <2>5. Bytes(q, h) \in Nat /\ Bytes(r, h) = Bytes(q, h) + 1
    BY <1>6, <2>2, <2>3, <2>4
  <2> QED BY <1>2, <2>1, <2>5 DEF BytesOf
<1>9. CASE e = [kind |-> "close", handle |-> h]
  <2>1. e # [kind |-> "message", handle |-> h] /\ e.kind = "close" /\ e.handle = h
    BY <1>9
  <2>2. Cardinality(Payloads(r, h, "close")) = Cardinality(Payloads(q, h, "close")) + 1
    BY <1>5, <1>9
  <2>3. Cardinality(Payloads(r, h, "message")) = Cardinality(Payloads(q, h, "message"))
    BY <1>5, <2>1
  <2>4. /\ Bytes(q, h) = Cardinality(Payloads(q, h, "message"))
                             + Cardinality(Payloads(q, h, "close")) * 2
        /\ Bytes(r, h) = Cardinality(Payloads(r, h, "message"))
                             + Cardinality(Payloads(r, h, "close")) * 2
    BY <1>6, <2>2, <2>3 DEF Bytes, BytesOf
  <2>5. Bytes(q, h) \in Nat /\ Bytes(r, h) = Bytes(q, h) + 2
    BY <1>6, <2>2, <2>3, <2>4
  <2> QED BY <1>2, <2>1, <2>5 DEF BytesOf
<1> QED BY <1>7, <1>8, <1>9 DEF Payload, Kind

LEMMA BytesEmpty == ASSUME NEW h PROVE Bytes(<<>>, h) = 0
<1>1. \A kind : Payloads(<<>>, h, kind) = {}
  BY DEF Payloads
<1> QED BY <1>1, FS_EmptySet DEF Bytes, BytesOf

-----------------------------------------------------------------------------
(* Where the records stand *)

Holding == {"check", "outlived", "act", "state", "account", "unlock"}

\* The main thread is between staging a frame and accounting for its bytes.
Pending(i) == main.pc \in {"state", "account"} /\ main.handle.index = i

\* Only the main thread keeps a lock over a step, and only one.
LockInv == \A i \in Index :
       record[i].locked <=> (main.pc \in Holding /\ main.handle.index = i)

\* What an operation found under the lock is still so when it acts on it.
WorkInv ==
    LET r == record[main.handle.index]
    IN  /\ main.pc \notin {"idle", "stale"} => main.handle.generation >= 1
        /\ main.pc \in {"act", "state", "account"} =>
               r.generation = main.handle.generation
        /\ main.pc = "act" => main.op # "buffered" /\ r.state = "open"
        /\ main.pc = "state" =>
               /\ main.op = "close" /\ r.state = "open"
               /\ Contains(Staged(main.handle), "close")
        /\ main.pc = "account" =>
               \/ main.op = "send" /\ r.state = "open"
               \/ main.op = "close" /\ r.state = "closing"

\* A record follows its slot: at once, except between acquire and open, and it
\* is closed before its slot is let go.
SlotInv ==
    \A i \in Index :
        LET r       == record[i]
            opening == engine.pc = "open" /\ engine.handle.index = i
        IN  /\ word[i].generation = r.generation + (IF opening THEN 1 ELSE 0)
            /\ (r.terminal <=> r.state = "closed")
            /\ word[i].state = "free" \/ opening =>
                   r.generation = 0 \/ r.state = "closed"
            /\ engine.pc = "release" /\ engine.handle.index = i =>
                   r.state = "closed"

\* Nothing was staged for a connection that has not had its record.
RingInv == \A h \in Named : h.generation > record[h.index].generation =>
                                Staged(h) = <<>> /\ Bytes(ring, h) = 0

Current(i) == [index |-> i, generation |-> record[i].generation]

\* The bytes of a record are those staged, less those of a frame just staged.
BytesInv ==
    \A i \in Index : record[i].generation >= 1 =>
        Bytes(ring, Current(i)) =
            record[i].buffered + (IF Pending(i) THEN BytesOf(main.op) ELSE 0)

\* A close frame is staged before the state follows, under the lock.
CloseInv ==
    \A i \in Index :
        record[i].generation >= 1 /\ Contains(Staged(Current(i)), "close") =>
            record[i].state # "open" \/ (main.pc = "state" /\ main.handle.index = i)

LifeInv == LockInv /\ WorkInv /\ SlotInv /\ RingInv /\ BytesInv /\ CloseInv

LInv == IInv /\ LifeInv

\* A handle an operation works on is one the slab gave out.
LEMMA WorksOnNamed ==
    ASSUME IInv, WorkInv, main.pc \notin {"idle", "stale"}
    PROVE  /\ main.handle \in Named /\ main.handle \in Handle
           /\ main.handle.index \in Index /\ main.handle.generation \in Nat \ {0}
           /\ main.handle.generation <= record[main.handle.index].generation
<1>1. PICK i \in Index, g \in Nat : main.handle = [index |-> i, generation |-> g] /\ g >= 1
  <2>1. main.handle \in Number /\ main.handle.index \in Index /\ main.handle.generation >= 1
    BY Types DEF IInv, MainState, MainInv, WorkInv
  <2> QED BY <2>1, Sizes DEF Number
<1>2. g <= record[i].generation
  BY <1>1 DEF IInv, MainInv, Old
<1>3. record[i].generation \in Generation
  BY Types DEF IInv, Record
<1>4. g \in 1 .. MaxOpened /\ g \in Generation
  BY <1>1, <1>2, <1>3, Sizes DEF Generation
<1> QED BY <1>1, <1>2, <1>4 DEF Named, Handle

LEMMA NamedTypes ==
    /\ Named \subseteq Handle
    /\ \A i \in Index, g \in Generation : g >= 1 => [index |-> i, generation |-> g] \in Named
    /\ \A h \in Named : h.index \in Index /\ h.generation \in Nat /\ h.generation >= 1
BY Sizes DEF Named, Handle, Generation

LEMMA LifeInit == Init => LifeInv
<1> SUFFICES ASSUME Init PROVE LifeInv
  OBVIOUS
<1> USE DEF Init
<1>1. LockInv /\ WorkInv /\ SlotInv
  <2>1. ASSUME NEW i \in Index
        PROVE  /\ word[i].generation = 0 /\ record[i].generation = 0
               /\ record[i].terminal = FALSE /\ record[i].locked = FALSE
               /\ record[i].state = "open"
    OBVIOUS
  <2>2. main.pc = "idle" /\ engine.pc = "idle"
    BY DEF IdleMain, IdleEngine
  <2>3. LockInv
    BY <2>1, <2>2 DEF LockInv, Holding
  <2>4. SlotInv
    BY <2>1, <2>2 DEF SlotInv
  <2> QED BY <2>2, <2>3, <2>4 DEF WorkInv
<1>2. RingInv
  BY KindsEmpty, BytesEmpty DEF RingInv, Staged
<1>3. BytesInv /\ CloseInv
  BY DEF BytesInv, CloseInv
<1> QED BY <1>1, <1>2, <1>3 DEF LifeInv

\* A step that stages nothing and moves no generation.
LEMMA RingSame ==
    ASSUME RingInv, UNCHANGED ring,
           \A i \in Index : record'[i].generation = record[i].generation
    PROVE  /\ RingInv'
           /\ \A i \in Index : Current(i)' = Current(i)
           /\ \A h : Staged(h)' = Staged(h)
<1>1. \A h : Staged(h)' = Staged(h)
  BY DEF Staged
<1> QED BY <1>1, NamedTypes DEF RingInv, Current

\* A step of the engine thread that writes no record.
LEMMA RecordsSame ==
    ASSUME IInv, LifeInv, UNCHANGED <<record, ring, main>>, SlotInv'
    PROVE  LifeInv'
<1>1. LockInv' /\ WorkInv'
  BY DEF LifeInv, LockInv, WorkInv, Staged
<1>2. RingInv' /\ BytesInv' /\ CloseInv'
  BY RingSame DEF LifeInv, BytesInv, CloseInv, Pending
<1> QED BY <1>1, <1>2 DEF LifeInv

\* What the records hold, as numbers.
LEMMA RecordParts ==
    ASSUME IInv, NEW i \in Index
    PROVE  /\ record[i] \in Record /\ record[i].generation \in Nat
           /\ record[i].generation \in Generation /\ record[i].buffered \in Nat
           /\ word[i].generation \in Nat
BY Types, Sizes DEF IInv, Record, Word

LEMMA EngineSlots ==
    ASSUME LInv,
           \/ OnOpenEmit \/ OnCloseRelease \/ OnCloseNothing \/ OnCloseEmit
           \/ \E i \in Index : \/ OnOpenRefused(i) \/ OnOpenAcquire(i)
                               \/ OnCloseTerminal(i)
    PROVE  SlotInv'
<1>1. SlotInv /\ TypeOK
  BY DEF LInv, LifeInv, IInv
<1>2. engine.handle.index \in Index
  BY Types DEF LInv, IInv, EngineState, Handle
<1>3. word \in [Index -> Word]
  BY Types DEF LInv, IInv
<1>4. \A j \in Index : record[j].generation \in Nat /\ word[j].generation \in Nat
  BY RecordParts DEF LInv
<1>5. CASE OnOpenEmit
  BY <1>1, <1>5 DEF OnOpenEmit, SlotInv, IdleEngine, slab
<1>6. CASE OnCloseRelease
  <2>1. PICK i \in Index : i = engine.handle.index
    BY <1>2
  <2>2. /\ \A j \in Index \ {i} : word'[j] = word[j]
        /\ word'[i].generation = word[i].generation
        /\ engine.pc = "release" /\ engine'.pc = "emit_close" /\ record' = record
    BY <1>3, <1>6, <2>1 DEF OnCloseRelease, Word
  <2> QED BY <1>1, <2>1, <2>2 DEF SlotInv
<1>7. CASE OnCloseNothing \/ OnCloseEmit
  BY <1>1, <1>7 DEF OnCloseNothing, OnCloseEmit, SlotInv, IdleEngine, slab
<1>8. ASSUME NEW i \in Index, OnOpenRefused(i) \/ OnCloseTerminal(i) PROVE SlotInv'
  BY <1>1, <1>8 DEF OnOpenRefused, OnCloseTerminal, SlotInv, slab
<1>9. ASSUME NEW i \in Index, OnOpenAcquire(i) PROVE SlotInv'
  <2>1. PICK g \in Nat : g = word[i].generation
    BY <1>4
  <2>2. /\ \A j \in Index \ {i} : word'[j] = word[j]
        /\ word'[i] = [state |-> "active", generation |-> g + 1]
        /\ word[i].state = "free" /\ engine.pc = "idle"
        /\ engine'.pc = "open" /\ engine'.handle.index = i /\ record' = record
    BY <1>3, <1>9, <2>1 DEF OnOpenAcquire, Opening
  <2>3. record[i].generation = g /\ (g = 0 \/ record[i].state = "closed")
    BY <1>1, <1>4, <2>1, <2>2 DEF SlotInv
  <2> QED BY <1>1, <2>2, <2>3 DEF SlotInv
<1> QED BY <1>5, <1>6, <1>7, <1>8, <1>9

LEMMA OnOpenResetLife ==
    ASSUME LInv, OnOpenReset
    PROVE  LifeInv'
<1>0. LifeInv /\ IInv
  BY DEF LInv
<1>1. PICK i \in Index, g \in Generation : engine.handle = [index |-> i, generation |-> g]
  BY <1>0, Types DEF IInv, EngineState, Handle
<1>2. PICK r \in Record :
          r = [generation |-> g, state |-> "open", terminal |-> FALSE,
               buffered |-> 0, paused |-> FALSE, locked |-> FALSE]
  BY DEF Record
<1>3. /\ engine.pc = "open" /\ ~record[i].locked
      /\ record' = [record EXCEPT ![i] = r]
      /\ engine'.pc = "emit_open" /\ engine'.handle = engine.handle
      /\ UNCHANGED <<word, ring, main>>
  BY <1>0, <1>1, <1>2, Types DEF OnOpenReset, slab, IInv, EngineState
<1>4. record'[i] = r /\ \A j \in Index \ {i} : record'[j] = record[j]
  BY <1>0, <1>3, Types DEF IInv
<1>5. ~(main.pc \in Holding /\ main.handle.index = i)
  BY <1>0, <1>3 DEF LifeInv, LockInv
<1>6. word[i].state = "active" /\ word[i].generation = g
  BY <1>0, <1>1, <1>3 DEF IInv, CallbackInv
<1>7. record[i].generation \in Nat /\ g \in Nat /\ g = record[i].generation + 1
  <2>1. word[i].generation = record[i].generation + 1
    BY <1>0, <1>1, <1>3 DEF LifeInv, SlotInv
  <2> QED BY <1>0, <1>6, <2>1, RecordParts
<1>8. LockInv'
  <2>1. ASSUME NEW j \in Index, j # i
        PROVE  record'[j].locked <=> (main'.pc \in Holding /\ main'.handle.index = j)
    BY <1>0, <1>3, <1>4, <2>1 DEF LifeInv, LockInv
  <2>2. record'[i].locked = FALSE /\ ~(main'.pc \in Holding /\ main'.handle.index = i)
    BY <1>2, <1>3, <1>4, <1>5
  <2> QED BY <2>1, <2>2 DEF LockInv
<1>9. WorkInv'
  <2>1. main.pc \in {"act", "state", "account"} =>
            main.handle.index \in Index /\ main.handle.index # i
    BY <1>0, <1>5 DEF IInv, MainInv, Holding
  <2> QED BY <1>0, <1>3, <1>4, <2>1 DEF LifeInv, WorkInv, Staged
<1>10. SlotInv'
  <2>1. /\ record'[i].generation = g /\ record'[i].terminal = FALSE
        /\ record'[i].state = "open" /\ word'[i] = word[i]
        /\ engine'.pc = "emit_open"
    BY <1>2, <1>3, <1>4
  <2>2. ASSUME NEW j \in Index, j # i
        PROVE  /\ record'[j] = record[j] /\ word'[j] = word[j]
               /\ ~(engine.pc = "open" /\ engine.handle.index = j)
    BY <1>1, <1>3, <1>4, <2>2
  <2> QED BY <1>0, <1>6, <1>7, <2>1, <2>2 DEF LifeInv, SlotInv
<1>11. RingInv'
  <2>1. ASSUME NEW h \in Named, h.generation > record'[h.index].generation
        PROVE  h.generation > record[h.index].generation
    <3>1. CASE h.index = i
      BY <1>2, <1>4, <1>7, <2>1, <3>1, NamedTypes
    <3>2. CASE h.index # i
      BY <1>4, <2>1, <3>2, NamedTypes
    <3> QED BY <3>1, <3>2
  <2> QED BY <1>0, <1>3, <2>1 DEF LifeInv, RingInv, Staged
<1>12. Staged([index |-> i, generation |-> g]) = <<>>
       /\ Bytes(ring, [index |-> i, generation |-> g]) = 0
  <2>1. PICK h : h = [index |-> i, generation |-> g]
    OBVIOUS
  <2>2. h \in Named /\ h.index = i /\ h.generation = g
    BY <1>7, <2>1, NamedTypes
  <2> QED BY <1>0, <1>7, <2>1, <2>2 DEF LifeInv, RingInv
<1>13. Current(i)' = [index |-> i, generation |-> g]
       /\ \A j \in Index \ {i} : Current(j)' = Current(j)
  BY <1>2, <1>4 DEF Current
<1>14. BytesInv'
  <2>1. ~Pending(i)
    BY <1>5 DEF Pending, Holding
  <2> QED BY <1>0, <1>2, <1>3, <1>4, <1>12, <1>13, <2>1 DEF LifeInv, BytesInv, Pending
<1>15. CloseInv'
  BY <1>0, <1>3, <1>4, <1>12, <1>13, ContainsEmpty DEF LifeInv, CloseInv, Staged
<1> QED BY <1>8, <1>9, <1>10, <1>11, <1>14, <1>15 DEF LifeInv

LEMMA OnCloseFinishLife ==
    ASSUME LInv, NEW i \in Index, OnCloseFinish(i)
    PROVE  LifeInv'
<1>0. LifeInv /\ IInv
  BY DEF LInv
<1>1. /\ engine.pc = "idle" /\ ~record[i].locked
      /\ record' = [record EXCEPT ![i] = [record[i] EXCEPT !.terminal = TRUE, !.state = "closed"]]
      /\ engine'.pc = "release" /\ engine'.handle.index = i
      /\ UNCHANGED <<word, ring, main>>
  BY <1>0, Types DEF OnCloseFinish, slab, Nobody, IInv
<1>2. /\ record'[i].state = "closed" /\ record'[i].terminal /\ ~record'[i].locked
      /\ record'[i].generation = record[i].generation
      /\ record'[i].buffered = record[i].buffered
      /\ \A j \in Index \ {i} : record'[j] = record[j]
  <2>1. record[i] \in Record /\ record \in [Index -> Record]
    BY <1>0, Types DEF IInv
  <2>2. PICK r : r = [record[i] EXCEPT !.terminal = TRUE, !.state = "closed"]
    OBVIOUS
  <2>3. /\ r.state = "closed" /\ r.terminal = TRUE /\ r.locked = record[i].locked
        /\ r.generation = record[i].generation /\ r.buffered = record[i].buffered
    BY <2>1, <2>2 DEF Record
  <2> QED BY <1>1, <2>1, <2>2, <2>3
<1>3. ~(main.pc \in Holding /\ main.handle.index = i)
  BY <1>0, <1>1 DEF LifeInv, LockInv
<1>4. LockInv'
  BY <1>0, <1>1, <1>2, <1>3 DEF LifeInv, LockInv
<1>5. WorkInv'
  <2>1. main.pc \in {"act", "state", "account"} =>
            main.handle.index \in Index /\ main.handle.index # i
    BY <1>0, <1>3 DEF IInv, MainInv, Holding
  <2> QED BY <1>0, <1>1, <1>2, <2>1 DEF LifeInv, WorkInv, Staged
<1>6. SlotInv'
  <2>1. /\ record'[i].generation = record[i].generation /\ record'[i].terminal = TRUE
        /\ record'[i].state = "closed" /\ word' = word
        /\ engine.pc = "idle" /\ engine'.pc = "release" /\ engine'.handle.index = i
    BY <1>1, <1>2
  <2>2. \A j \in Index \ {i} : record'[j] = record[j]
    BY <1>2
  <2> QED BY <1>0, <2>1, <2>2 DEF LifeInv, SlotInv
<1>7. RingInv' /\ \A j \in Index : Current(j)' = Current(j)
      /\ \A h : Staged(h)' = Staged(h)
  BY <1>0, <1>1, <1>2, RingSame DEF LifeInv
<1>8. BytesInv'
  BY <1>0, <1>1, <1>2, <1>7 DEF LifeInv, BytesInv, Pending
<1>9. CloseInv'
  BY <1>0, <1>1, <1>2, <1>7 DEF LifeInv, CloseInv
<1> QED BY <1>4, <1>5, <1>6, <1>7, <1>8, <1>9 DEF LifeInv

LEMMA EngineLife == LInv /\ (Accept \/ Callback) => LifeInv'
<1> SUFFICES ASSUME LInv, Accept \/ Callback PROVE LifeInv'
  OBVIOUS
<1>1. CASE OnOpenReset
  BY <1>1, OnOpenResetLife
<1>2. ASSUME NEW i \in Index, OnCloseFinish(i) PROVE LifeInv'
  BY <1>2, OnCloseFinishLife
<1>3. CASE \/ OnOpenEmit \/ OnCloseRelease \/ OnCloseNothing \/ OnCloseEmit
           \/ \E i \in Index : \/ OnOpenRefused(i) \/ OnOpenAcquire(i)
                               \/ OnCloseTerminal(i)
  <2>1. SlotInv'
    BY <1>3, EngineSlots
  <2>2. UNCHANGED <<record, ring, main>>
    BY <1>3 DEF OnOpenEmit, OnCloseRelease, OnCloseNothing, OnCloseEmit, OnOpenRefused,
       OnOpenAcquire, OnCloseTerminal
  <2> QED BY <2>1, <2>2, RecordsSame DEF LInv
<1> QED BY <1>1, <1>2, <1>3 DEF Accept, Callback

-----------------------------------------------------------------------------
(* The main thread, and the record it works on *)

\* Every step of the main thread leaves slots and generations alone, so that
\* what has to be shown is what it does to its lock, its state and its bytes.
LEMMA MainSlots ==
    ASSUME LInv, MainNext,
           \A i \in Index : record'[i].state = "closed" <=> record[i].state = "closed"
    PROVE  SlotInv'
<1>1. MainFrame
  BY MainFrames DEF LInv, IInv
<1> QED BY <1>1 DEF MainFrame, LInv, LifeInv, SlotInv

\* A step that holds no lock before or after.
LEMMA MainUnlocked ==
    ASSUME LInv, MainNext, UNCHANGED <<record, ring>>,
           main.pc \notin Holding, main'.pc \notin Holding, WorkInv'
    PROVE  LifeInv'
<1>0. LifeInv /\ MainFrame
  BY MainFrames DEF LInv, IInv
<1>1. SlotInv'
  BY MainSlots
<1>2. LockInv'
  BY <1>0 DEF LifeInv, LockInv
<1>3. RingInv' /\ (\A i \in Index : Current(i)' = Current(i))
      /\ \A h : Staged(h)' = Staged(h)
  BY <1>0, RingSame DEF LifeInv
<1>4. \A i \in Index : ~Pending(i) /\ ~Pending(i)'
  BY DEF Pending, Holding
<1>5. main.pc # "state" /\ main'.pc # "state"
  BY DEF Holding
<1>6. BytesInv'
  BY <1>0, <1>3, <1>4 DEF LifeInv, BytesInv
<1>7. CloseInv'
  BY <1>0, <1>3, <1>5 DEF LifeInv, CloseInv
<1> QED BY <1>1, <1>2, <1>3, <1>6, <1>7 DEF LifeInv

\* The bytes of slot i that its record has still to count.
Due(i) == IF Pending(i) THEN BytesOf(main.op) ELSE 0

\* A step under the lock of slot i that stages nothing.
LEMMA MainLocked ==
    ASSUME LInv, MainNext, UNCHANGED ring, WorkInv',
           NEW i \in Index, main.handle.index = i,
           main'.handle.index = i \/ main'.pc \notin Holding,
           \A j \in Index \ {i} : record'[j] = record[j],
           record'[i].locked <=> (main'.pc \in Holding /\ main'.handle.index = i),
           record'[i].state = "closed" <=> record[i].state = "closed",
           record'[i].buffered + Due(i)' = record[i].buffered + Due(i),
           record'[i].state = "open" => /\ record[i].state = "open"
                                        /\ main.pc = "state" => main'.pc = "state"
    PROVE  LifeInv'
<1>0. LifeInv /\ MainFrame
  BY MainFrames DEF LInv, IInv
<1>1. SlotInv'
  BY MainSlots
<1>2. \A j \in Index \ {i} : ~Pending(j) /\ ~Pending(j)'
  BY DEF Pending, Holding
<1>3. LockInv'
  BY <1>0 DEF LifeInv, LockInv
<1>4. RingInv' /\ (\A j \in Index : Current(j)' = Current(j))
      /\ (\A h : Staged(h)' = Staged(h))
      /\ \A j \in Index : record'[j].generation = record[j].generation
  BY <1>0, RingSame DEF LifeInv, MainFrame
<1>5. BytesInv'
  <2>1. ASSUME NEW j \in Index, record'[j].generation >= 1
        PROVE  Bytes(ring', Current(j)') = record'[j].buffered + Due(j)'
    <3>1. Bytes(ring, Current(j)) = record[j].buffered + Due(j)
      BY <1>0, <1>4, <2>1 DEF LifeInv, BytesInv, Due
    <3>2. CASE j = i
      BY <1>4, <3>1, <3>2
    <3>3. CASE j # i
      BY <1>2, <1>4, <3>1, <3>3 DEF Due
    <3> QED BY <3>2, <3>3
  <2> QED BY <2>1 DEF BytesInv, Due
<1>6. CloseInv'
  <2>1. ASSUME NEW j \in Index, record'[j].generation >= 1,
               Contains(Staged(Current(j))', "close")
        PROVE  record'[j].state # "open" \/ (main'.pc = "state" /\ main'.handle.index = j)
    <3>1. record[j].state # "open" \/ (main.pc = "state" /\ main.handle.index = j)
      BY <1>0, <1>4, <2>1 DEF LifeInv, CloseInv
    <3>2. CASE j = i
      BY <3>1, <3>2 DEF Holding
    <3>3. CASE j # i
      BY <3>1, <3>3
    <3> QED BY <3>2, <3>3
  <2> QED BY <2>1 DEF CloseInv
<1> QED BY <1>1, <1>3, <1>4, <1>5, <1>6 DEF LifeInv

\* What an operation has, once it has a lock to take.
LEMMA AtWork ==
    ASSUME LInv, main.pc \notin {"idle", "stale"}
    PROVE  \E i \in Index, g \in Nat \ {0} :
               /\ main.handle = [index |-> i, generation |-> g]
               /\ main.handle \in Named /\ g <= record[i].generation
               /\ main.pc \in Holding => record[i].locked
<1>1. IInv /\ WorkInv /\ LockInv
  BY DEF LInv, LifeInv
<1>2. PICK h \in Named : h = main.handle
  BY <1>1, WorksOnNamed
<1>3. PICK i \in Index, g \in Nat :
          h = [index |-> i, generation |-> g] /\ h.index = i /\ h.generation = g
  BY DEF Named
<1>4. g \in Nat \ {0} /\ g <= record[i].generation
  BY <1>1, <1>2, <1>3, WorksOnNamed
<1> QED BY <1>1, <1>2, <1>3, <1>4 DEF LockInv

LEMMA UnlockedLife ==
    ASSUME LInv,
           \/ (Deliver /\ main.pc = "idle") \/ Return
           \/ \E op \in Operations, raw \in Known \cup NeverIssued : Resolve(op, raw)
    PROVE  LifeInv'
<1>0. LifeInv /\ IInv /\ MainNext
  BY DEF LInv, MainNext, Operate
<1>1. main.pc \notin Holding
  BY DEF Deliver, Return, Resolve, Holding
<1>2. UNCHANGED <<word, record, ring>>
  BY DEF Deliver, Return, Resolve, slab
<1>3. main'.pc \notin Holding /\ WorkInv'
  <2>1. CASE Deliver /\ main.pc = "idle"
    BY <2>1 DEF Deliver, WorkInv, Holding
  <2>2. CASE Return
    BY <2>2 DEF Return, IdleMain, WorkInv, Holding
  <2>3. ASSUME NEW op \in Operations, NEW raw \in Known \cup NeverIssued, Resolve(op, raw)
        PROVE  main'.pc \notin Holding /\ WorkInv'
    <3>1. PICK h : h = from_int(raw)
      OBVIOUS
    <3>2. main' = [pc |-> IF Resolves(h) THEN "lock" ELSE "stale", op |-> op, handle |-> h]
      BY <2>3, <3>1 DEF Resolve
    <3>3. main'.pc \in {"lock", "stale"} /\ main'.handle = h
          /\ (main'.pc = "lock" => Resolves(h))
      BY <3>2
    <3>4. Resolves(h) => h.generation >= 1
      <4>1. SUFFICES ASSUME Resolves(h) PROVE h.generation >= 1
        OBVIOUS
      <4>2. h.index \in Index /\ word[h.index].state = "active"
            /\ word[h.index].generation = h.generation
        BY <4>1 DEF Resolves
      <4> QED BY <1>0, <4>2 DEF IInv, GenerationInv
    <3> QED BY <3>3, <3>4 DEF WorkInv, Holding
  <2> QED BY <2>1, <2>2, <2>3
<1> QED BY <1>0, <1>1, <1>2, <1>3, MainUnlocked

\* The next step of an operation, on the same handle.
LEMMA GoesOn ==
    ASSUME IInv, NEW from, NEW to, Goto(from, to)
    PROVE  /\ main.pc = from /\ main'.pc = to
           /\ main'.op = main.op /\ main'.handle = main.handle
BY Types DEF IInv, Goto, MainState

LEMMA LockLife == LInv /\ Lock => LifeInv'
<1> SUFFICES ASSUME LInv, Lock PROVE LifeInv'
  OBVIOUS
<1>0. LifeInv /\ IInv /\ MainNext
  BY DEF LInv, MainNext
<1>1. /\ main.pc = "lock" /\ main'.pc = "check"
      /\ main'.op = main.op /\ main'.handle = main.handle
  BY <1>0, GoesOn DEF Lock
<1>2. PICK i \in Index, g \in Nat \ {0} : main.handle = [index |-> i, generation |-> g]
  BY <1>1, AtWork
<1>3. /\ UNCHANGED ring /\ main.handle.index = i /\ main.handle.generation = g
      /\ record' = [record EXCEPT ![i] = [record[i] EXCEPT !.locked = TRUE]]
  BY <1>2 DEF Lock
<1>4. /\ record'[i].locked = TRUE /\ record'[i].state = record[i].state
      /\ record'[i].buffered = record[i].buffered
      /\ \A j \in Index \ {i} : record'[j] = record[j]
  BY <1>0, <1>3, Types DEF IInv, Record
<1>5. WorkInv'
  BY <1>1, <1>2 DEF WorkInv
<1>6. Due(i) = 0 /\ Due(i)' = 0
  BY <1>1 DEF Due, Pending
<1> QED BY <1>0, <1>1, <1>3, <1>4, <1>5, <1>6, MainLocked DEF Holding

LEMMA CheckLife == LInv /\ (Check \/ CheckOutlived \/ CheckRefused \/ StageFull) => LifeInv'
<1> SUFFICES ASSUME LInv, Check \/ CheckOutlived \/ CheckRefused \/ StageFull
             PROVE  LifeInv'
  OBVIOUS
<1>0. LifeInv /\ IInv /\ MainNext
  BY DEF LInv, MainNext, Operate
<1>1. /\ main.pc \in {"check", "act"} /\ main'.pc \in {"act", "outlived", "unlock"}
      /\ main'.op = main.op /\ main'.handle = main.handle
  BY <1>0, GoesOn DEF Check, CheckOutlived, CheckRefused, StageFull
<1>2. PICK i \in Index, g \in Nat \ {0} :
          main.handle = [index |-> i, generation |-> g] /\ record[i].locked
  BY <1>1, AtWork DEF Holding
<1>3. UNCHANGED <<ring, record>> /\ main.handle.index = i /\ main.handle.generation = g
  BY <1>2 DEF Check, CheckOutlived, CheckRefused, StageFull
<1>4. WorkInv'
  <2>1. main'.pc = "act" => /\ main.op # "buffered" /\ record[i].generation = g
                            /\ record[i].state = "open"
    BY <1>0, <1>3, GoesOn DEF Check, CheckOutlived, CheckRefused, StageFull, Accepted, Mine
  <2> QED BY <1>1, <1>3, <2>1 DEF WorkInv
<1>5. Due(i) = 0 /\ Due(i)' = 0
  BY <1>1 DEF Due, Pending
<1>6. record[i].buffered \in Nat
  BY <1>0, RecordParts
<1> QED BY <1>0, <1>1, <1>2, <1>3, <1>4, <1>5, <1>6, MainLocked DEF Holding

LEMMA EnterClosingLife == LInv /\ EnterClosing => LifeInv'
<1> SUFFICES ASSUME LInv, EnterClosing PROVE LifeInv'
  OBVIOUS
<1>0. LifeInv /\ IInv /\ MainNext
  BY DEF LInv, MainNext, Operate
<1>1. /\ main.pc = "state" /\ main'.pc = "account"
      /\ main'.op = main.op /\ main'.handle = main.handle
  BY <1>0, GoesOn DEF EnterClosing
<1>2. PICK i \in Index, g \in Nat \ {0} :
          main.handle = [index |-> i, generation |-> g] /\ record[i].locked
  BY <1>1, AtWork DEF Holding
<1>3. /\ UNCHANGED ring /\ main.handle.index = i /\ main.handle.generation = g
      /\ record' = [record EXCEPT ![i] = [record[i] EXCEPT !.state = "closing"]]
  BY <1>2 DEF EnterClosing
<1>4. /\ record'[i].locked = record[i].locked /\ record'[i].state = "closing"
      /\ record'[i].buffered = record[i].buffered
      /\ record'[i].generation = record[i].generation
      /\ \A j \in Index \ {i} : record'[j] = record[j]
  BY <1>0, <1>3, Types DEF IInv, Record
<1>5. /\ main.op = "close" /\ record[i].state = "open" /\ record[i].generation = g
  BY <1>0, <1>1, <1>3 DEF LifeInv, WorkInv
<1>6. WorkInv'
  BY <1>1, <1>3, <1>4, <1>5 DEF WorkInv
<1>7. Due(i)' = Due(i)
  BY <1>1, <1>3 DEF Due, Pending, BytesOf
<1>8. record[i].buffered \in Nat
  BY <1>0, RecordParts
<1> QED BY <1>0, <1>1, <1>2, <1>3, <1>4, <1>5, <1>6, <1>7, <1>8, MainLocked DEF Holding

LEMMA AccountLife == LInv /\ Account => LifeInv'
<1> SUFFICES ASSUME LInv, Account PROVE LifeInv'
  OBVIOUS
<1>0. LifeInv /\ IInv /\ MainNext
  BY DEF LInv, MainNext, Operate
<1>1. /\ main.pc = "account" /\ main'.pc = "unlock"
      /\ main'.op = main.op /\ main'.handle = main.handle
  BY <1>0, GoesOn DEF Account
<1>2. PICK i \in Index, g \in Nat \ {0} :
          main.handle = [index |-> i, generation |-> g] /\ record[i].locked
  BY <1>1, AtWork DEF Holding
<1>3. PICK n \in Nat : n = BytesOf(main.op)
  BY DEF BytesOf
<1>4. /\ UNCHANGED ring /\ main.handle.index = i /\ main.handle.generation = g
      /\ record' = [record EXCEPT ![i] = [record[i] EXCEPT !.buffered = @ + n]]
  BY <1>2, <1>3 DEF Account
<1>5. /\ record'[i].locked = record[i].locked /\ record'[i].state = record[i].state
      /\ record'[i].buffered = record[i].buffered + n
      /\ \A j \in Index \ {i} : record'[j] = record[j]
  BY <1>0, <1>4, Types DEF IInv, Record
<1>6. WorkInv'
  BY <1>1, <1>2, <1>4 DEF WorkInv
<1>7. Due(i) = n /\ Due(i)' = 0
  BY <1>1, <1>3, <1>4 DEF Due, Pending
<1>8. record[i].buffered \in Nat
  BY <1>0, RecordParts
<1> QED BY <1>0, <1>1, <1>2, <1>4, <1>5, <1>6, <1>7, <1>8, MainLocked DEF Holding

LEMMA SetPausedLife == LInv /\ SetPaused => LifeInv'
<1> SUFFICES ASSUME LInv, SetPaused PROVE LifeInv'
  OBVIOUS
<1>0. LifeInv /\ IInv /\ MainNext
  BY DEF LInv, MainNext, Operate
<1>1. /\ main.pc = "act" /\ main'.pc = "unlock"
      /\ main'.op = main.op /\ main'.handle = main.handle
  BY <1>0, GoesOn DEF SetPaused
<1>2. PICK i \in Index, g \in Nat \ {0} :
          main.handle = [index |-> i, generation |-> g] /\ record[i].locked
  BY <1>1, AtWork DEF Holding
<1>3. /\ UNCHANGED ring /\ main.handle.index = i /\ main.handle.generation = g
      /\ record' = [record EXCEPT ![i] = [record[i] EXCEPT !.paused = (main.op = "pause")]]
  BY <1>2 DEF SetPaused
<1>4. /\ record'[i].locked = record[i].locked /\ record'[i].state = record[i].state
      /\ record'[i].buffered = record[i].buffered
      /\ \A j \in Index \ {i} : record'[j] = record[j]
  BY <1>0, <1>3, Types DEF IInv, Record
<1>5. WorkInv'
  BY <1>1, <1>2, <1>3 DEF WorkInv
<1>6. Due(i) = 0 /\ Due(i)' = 0
  BY <1>1 DEF Due, Pending
<1>7. record[i].buffered \in Nat
  BY <1>0, RecordParts
<1> QED BY <1>0, <1>1, <1>2, <1>3, <1>4, <1>5, <1>6, <1>7, MainLocked DEF Holding

LEMMA UnlockLife == LInv /\ Unlock => LifeInv'
<1> SUFFICES ASSUME LInv, Unlock PROVE LifeInv'
  OBVIOUS
<1>0. LifeInv /\ IInv /\ MainNext
  BY DEF LInv, MainNext, Operate
<1>1. main.pc \in {"unlock", "outlived"} /\ main'.pc = "idle"
  BY DEF Unlock, IdleMain
<1>2. PICK i \in Index, g \in Nat \ {0} : main.handle = [index |-> i, generation |-> g]
  BY <1>1, AtWork DEF Holding
<1>3. /\ UNCHANGED ring /\ main.handle.index = i
      /\ record' = [record EXCEPT ![i] = [record[i] EXCEPT !.locked = FALSE]]
  BY <1>2 DEF Unlock
<1>4. /\ record'[i].locked = FALSE /\ record'[i].state = record[i].state
      /\ record'[i].buffered = record[i].buffered
      /\ \A j \in Index \ {i} : record'[j] = record[j]
  BY <1>0, <1>3, Types DEF IInv, Record
<1>5. WorkInv'
  BY <1>1 DEF WorkInv
<1>6. Due(i) = 0 /\ Due(i)' = 0
  BY <1>1 DEF Due, Pending
<1>7. record[i].buffered \in Nat
  BY <1>0, RecordParts
<1> QED BY <1>0, <1>1, <1>3, <1>4, <1>5, <1>6, <1>7, MainLocked DEF Holding

\* What is staged for one handle is staged for no other.
LEMMA StageFacts ==
    ASSUME LInv, Stage
    PROVE  \E i \in Index, g \in Nat \ {0}, kind \in Kind :
               /\ main.handle = [index |-> i, generation |-> g] /\ main.handle \in Named
               /\ record[i].generation = g /\ record[i].state = "open" /\ record[i].locked
               /\ main.pc = "act" /\ main'.handle = main.handle /\ main'.op = main.op
               /\ \/ main.op = "close" /\ kind = "close" /\ main'.pc = "state"
                  \/ main.op = "send" /\ kind = "message" /\ main'.pc = "account"
               /\ \A h : /\ Staged(h)' = IF h = main.handle THEN Append(Staged(h), kind)
                                                            ELSE Staged(h)
                         /\ Staged(h) \in Seq(Kind)
                         /\ Bytes(ring', h) = IF h = main.handle
                                              THEN Bytes(ring, h) + BytesOf(kind)
                                              ELSE Bytes(ring, h)
                         /\ Bytes(ring, h) \in Nat
               /\ UNCHANGED record
<1>0. LifeInv /\ IInv
  BY DEF LInv
<1>1. /\ main.pc = "act" /\ main'.op = main.op /\ main'.handle = main.handle
      /\ main'.pc = IF main.op = "close" THEN "state" ELSE "account"
  BY <1>0, GoesOn DEF Stage
<1>2. PICK i \in Index, g \in Nat \ {0} :
          main.handle = [index |-> i, generation |-> g] /\ main.handle \in Named
          /\ record[i].locked
  BY <1>1, AtWork DEF Holding
<1>3. PICK kind \in Kind : kind = IF main.op = "close" THEN "close" ELSE "message"
  BY DEF Kind
<1>4. PICK e : e = [kind |-> kind, handle |-> main.handle]
  OBVIOUS
<1>5. e \in Payload /\ e.kind = kind /\ e.handle = main.handle
  BY <1>2, <1>4, NamedTypes DEF Payload
<1>6. ring \in Seq(Payload)
  BY <1>0, Types DEF IInv, Payload, Kind
<1>7. ring' = Append(ring, e) /\ UNCHANGED record /\ main.op \in {"send", "close"}
  BY <1>3, <1>4 DEF Stage
<1>8. ASSUME NEW h
      PROVE  /\ Staged(h)' = IF h = main.handle THEN Append(Staged(h), kind) ELSE Staged(h)
             /\ Staged(h) \in Seq(Kind)
             /\ Bytes(ring', h) = IF h = main.handle THEN Bytes(ring, h) + BytesOf(kind)
                                                     ELSE Bytes(ring, h)
             /\ Bytes(ring, h) \in Nat
  BY <1>5, <1>6, <1>7, KindsAppend, KindsType, BytesAppend DEF Staged
<1>9. record[i].generation = g /\ record[i].state = "open"
  BY <1>0, <1>1, <1>2 DEF LifeInv, WorkInv
<1> QED BY <1>1, <1>2, <1>3, <1>7, <1>8, <1>9

LEMMA StageLife == LInv /\ Stage => LifeInv'
<1> SUFFICES ASSUME LInv, Stage PROVE LifeInv'
  OBVIOUS
<1>0. LifeInv /\ IInv /\ MainNext
  BY DEF LInv, MainNext, Operate
<1>1. PICK i \in Index, g \in Nat \ {0}, kind \in Kind :
          /\ main.handle = [index |-> i, generation |-> g] /\ main.handle \in Named
          /\ record[i].generation = g /\ record[i].state = "open" /\ record[i].locked
          /\ main.pc = "act" /\ main'.handle = main.handle /\ main'.op = main.op
          /\ \/ main.op = "close" /\ kind = "close" /\ main'.pc = "state"
             \/ main.op = "send" /\ kind = "message" /\ main'.pc = "account"
          /\ \A h : /\ Staged(h)' = IF h = main.handle THEN Append(Staged(h), kind)
                                                       ELSE Staged(h)
                    /\ Staged(h) \in Seq(Kind)
                    /\ Bytes(ring', h) = IF h = main.handle
                                         THEN Bytes(ring, h) + BytesOf(kind)
                                         ELSE Bytes(ring, h)
                    /\ Bytes(ring, h) \in Nat
          /\ UNCHANGED record
  BY StageFacts
<1>2. main.handle.index = i /\ main.handle.generation = g
  BY <1>1
<1>3. LockInv'
  BY <1>0, <1>1 DEF LifeInv, LockInv, Holding
<1>4. SlotInv'
  BY <1>0, <1>1, MainSlots
<1>5. WorkInv'
  <2>1. kind = "close" => Contains(Staged(main.handle)', "close")
    BY <1>1, ContainsAppend
  <2> QED BY <1>1, <1>2, <2>1 DEF WorkInv
<1>6. RingInv'
  <2>1. ASSUME NEW h \in Named, h.generation > record[h.index].generation
        PROVE  h # main.handle
    BY <1>1, <1>2, <2>1
  <2> QED BY <1>0, <1>1, <2>1 DEF LifeInv, RingInv
<1>7. \A j \in Index : Current(j)' = Current(j) /\ (Current(j) = main.handle <=> j = i)
  BY <1>1 DEF Current
<1>8. BytesInv'
  <2>1. ASSUME NEW j \in Index, record[j].generation >= 1
        PROVE  Bytes(ring', Current(j)) =
                   record[j].buffered + (IF Pending(j)' THEN BytesOf(main.op) ELSE 0)
    <3>1. Bytes(ring, Current(j)) = record[j].buffered /\ record[j].buffered \in Nat
      BY <1>0, <1>1, <2>1, RecordParts DEF LifeInv, BytesInv, Pending
    <3>2. CASE j = i
      <4>1. Pending(i)' /\ BytesOf(kind) = BytesOf(main.op)
        BY <1>1, <1>2 DEF Pending, BytesOf
      <4> QED BY <1>1, <1>7, <3>1, <3>2, <4>1
    <3>3. CASE j # i
      <4>1. ~Pending(j)'
        BY <1>1, <1>2, <3>3 DEF Pending
      <4> QED BY <1>1, <1>7, <3>1, <3>3, <4>1
    <3> QED BY <3>2, <3>3
  <2> QED BY <1>1, <1>7, <2>1 DEF BytesInv
<1>9. CloseInv'
  <2>1. ASSUME NEW j \in Index, record[j].generation >= 1,
               Contains(Staged(Current(j))', "close")
        PROVE  record[j].state # "open" \/ (main'.pc = "state" /\ main'.handle.index = j)
    <3>1. CASE j = i
      <4>1. Contains(Staged(Current(j)), "close") \/ kind = "close"
        BY <1>1, <1>7, <2>1, <3>1, ContainsAppend
      <4>2. ~Contains(Staged(Current(j)), "close")
        BY <1>0, <1>1, <2>1, <3>1 DEF LifeInv, CloseInv
      <4> QED BY <1>1, <1>2, <3>1, <4>1, <4>2
    <3>2. CASE j # i
      BY <1>0, <1>1, <1>2, <1>7, <2>1, <3>2 DEF LifeInv, CloseInv
    <3> QED BY <3>1, <3>2
  <2> QED BY <1>1, <2>1 DEF CloseInv
<1> QED BY <1>3, <1>4, <1>5, <1>6, <1>8, <1>9 DEF LifeInv

LEMMA LifeStep == LInv /\ [Next]_vars => LInv'
<1> SUFFICES ASSUME LInv, [Next]_vars PROVE LInv'
  OBVIOUS
<1>1. IInv'
  BY StepKeeps DEF LInv
<1>2. CASE Accept \/ Callback
  BY <1>1, <1>2, EngineLife DEF LInv
<1>3. CASE MainNext
  <2>1. Deliver => main.pc = "idle"
    BY DEF Deliver
  <2>2. LifeInv'
    BY <1>3, <2>1, UnlockedLife, LockLife, CheckLife, StageLife, EnterClosingLife,
       AccountLife, SetPausedLife, UnlockLife DEF MainNext, Operate
  <2> QED BY <1>1, <2>2 DEF LInv
<1>4. CASE UNCHANGED vars
  <2>1. SlotInv'
    BY <1>4 DEF LInv, LifeInv, SlotInv, vars
  <2> QED BY <1>1, <1>4, <2>1, RecordsSame DEF LInv, vars
<1> QED BY <1>2, <1>3, <1>4 DEF Next, MainNext

THEOREM LifeInvariant == Spec => []LInv
<1>1. Init => LInv
  BY InitKeeps, LifeInit DEF LInv
<1> QED BY <1>1, LifeStep, PTL DEF Spec

\* With its lock free, a record counts exactly the bytes its own generation has
\* staged, whatever the slot's former connections staged (socket.zig:110-119).
THEOREM BytesCounted == Spec => []BufferedExact
<1>1. ASSUME LInv PROVE BufferedExact
  <2>1. ASSUME NEW i \in Index, ~record[i].locked, record[i].generation > 0
        PROVE  record[i].buffered =
                   Bytes(ring, [index |-> i, generation |-> record[i].generation])
    <3>1. ~Pending(i)
      BY <1>1, <2>1 DEF LInv, LifeInv, LockInv, Holding, Pending
    <3>2. record[i].generation >= 1 /\ record[i].buffered \in Nat
      BY <1>1, <2>1, RecordParts DEF LInv
    <3>3. Bytes(ring, Current(i)) = record[i].buffered + 0
      BY <1>1, <3>1, <3>2 DEF LInv, LifeInv, BytesInv
    <3> QED BY <3>2, <3>3 DEF Current
  <2> QED BY <2>1 DEF BufferedExact
<1>2. LInv => BufferedExact
  BY <1>1
<1> QED BY <1>2, LifeInvariant, PTL

-----------------------------------------------------------------------------
(* One life per handle *)

\* Where a connection stands, read off its record and what was staged for it:
\* with the invariant, the lock tells nothing more.
Stand(h) ==
    LET r == record[h.index]
    IN  IF h.generation > r.generation THEN "none"
        ELSE IF h.generation < r.generation \/ r.state = "closed" THEN "closed"
        ELSE IF r.state = "closing" \/ Contains(Staged(h), "close") THEN "closing"
        ELSE "open"

LEMMA StandIsPhase == LInv => \A h \in Named : Phase(h) = Stand(h)
<1> SUFFICES ASSUME LInv, NEW h \in Named PROVE Phase(h) = Stand(h)
  OBVIOUS
<1>1. PICK i \in Index, g \in Nat : h = [index |-> i, generation |-> g] /\ g >= 1
          /\ h.index = i /\ h.generation = g
  BY NamedTypes DEF Named
<1>2. record[i].generation \in Nat /\ record[i].state \in {"open", "closing", "closed"}
  BY RecordParts DEF LInv, Record
<1>3. CASE g > record[i].generation \/ g < record[i].generation \/ record[i].state = "closed"
  BY <1>1, <1>2, <1>3 DEF Phase, Stand
<1>4. CASE g = record[i].generation /\ record[i].state # "closed"
  <2>1. Current(i) = h
    BY <1>1, <1>4 DEF Current
  <2>2. Contains(Staged(h), "close") => record[i].state = "closing" \/ record[i].locked
    BY <1>1, <1>2, <1>4, <2>1 DEF LInv, LifeInv, CloseInv, LockInv, Holding
  <2>3. ~(h.generation > record[h.index].generation)
        /\ ~(h.generation < record[h.index].generation \/ record[h.index].state = "closed")
    BY <1>1, <1>2, <1>4
  <2>4. CASE record[i].state = "closing" \/ Contains(Staged(h), "close")
    <3>1. \/ record[h.index].state = "closing"
          \/ record[h.index].locked /\ Contains(Staged(h), "close")
      BY <1>1, <2>2, <2>4
    <3>2. record[h.index].state = "closing" \/ Contains(Staged(h), "close")
      BY <1>1, <2>4
    <3>3. Phase(h) = "closing"
      BY <2>3, <3>1, Zenon DEF Phase
    <3>4. Stand(h) = "closing"
      BY <2>3, <3>2, Zenon DEF Stand
    <3> QED BY <3>3, <3>4
  <2>5. CASE ~(record[i].state = "closing" \/ Contains(Staged(h), "close"))
    BY <1>1, <2>3, <2>5, Zenon DEF Phase, Stand
  <2> QED BY <2>4, <2>5
<1> QED BY <1>2, <1>3, <1>4

Lives == [h \in Named |-> Stand(h)]
Frames == [h \in Named |-> Staged(h)]
Quiet == {h \in Named : Stand(h) \in {"open", "closing"} /\ record[h.index].paused}

Phases == [h \in Named |-> Phase(h)]

LEMMA LifeIs == LInv => Phases = Lives /\ Silent = Quiet
BY StandIsPhase DEF Lives, Phases, Silent, Quiet

LEMMA LifeIsPrimed == (LInv => Phases = Lives /\ Silent = Quiet)'
BY LifeIs, PTL

LEMMA LifeHandles == Life!Handle = Named
BY DEF Life!Handle, Named

\* A step that shows on no connection.
LEMMA LifeSame ==
    ASSUME LInv, LInv',
           \A h \in Named : /\ Stand(h)' = Stand(h)
                            /\ Staged(h)' = Staged(h)
                            /\ record'[h.index].paused <=> record[h.index].paused
    PROVE  UNCHANGED Life!vars
<1>1. Lives' = Lives /\ Frames' = Frames /\ Quiet' = Quiet
  BY DEF Lives, Frames, Quiet
<1> QED BY <1>1, LifeIs, LifeIsPrimed DEF Phases, Frames, Life!vars

LEMMA LifeRecords ==
    ASSUME LInv, LInv', UNCHANGED ring,
           \A i \in Index : /\ record'[i].generation = record[i].generation
                            /\ record'[i].state = record[i].state
                            /\ record'[i].paused <=> record[i].paused
    PROVE  UNCHANGED Life!vars
<1>1. ASSUME NEW h \in Named
      PROVE  /\ Stand(h)' = Stand(h)
             /\ Staged(h)' = Staged(h)
             /\ record'[h.index].paused <=> record[h.index].paused
  <2>1. h.index \in Index /\ Staged(h)' = Staged(h)
    BY NamedTypes DEF Staged
  <2> QED BY <2>1 DEF Stand
<1> QED BY <1>1, LifeSame

\* A connection opens when its record is reset.
LEMMA ResetOpens ==
    ASSUME LInv, LInv', OnOpenReset
    PROVE  Life!Next
<1>0. LifeInv /\ IInv
  BY DEF LInv
<1>1. PICK i \in Index, g \in Generation : engine.handle = [index |-> i, generation |-> g]
  BY <1>0, Types DEF IInv, EngineState, Handle
<1>2. /\ engine.pc = "open" /\ UNCHANGED ring
      /\ record'[i].generation = g /\ record'[i].state = "open"
      /\ record'[i].paused = FALSE
      /\ \A j \in Index \ {i} : record'[j] = record[j]
  <2>1. PICK r : r = [generation |-> g, state |-> "open", terminal |-> FALSE,
                      buffered |-> 0, paused |-> FALSE, locked |-> FALSE]
    OBVIOUS
  <2>2. record' = [record EXCEPT ![i] = r] /\ record \in [Index -> Record]
    BY <1>0, <1>1, <2>1, Types DEF OnOpenReset, IInv
  <2> QED BY <1>1, <2>1, <2>2 DEF OnOpenReset
<1>3. /\ record[i].generation \in Nat /\ g \in Nat /\ g = record[i].generation + 1
      /\ record[i].generation = 0 \/ record[i].state = "closed"
  <2>1. word[i].generation = g
    BY <1>0, <1>1, <1>2 DEF IInv, CallbackInv
  <2>2. word[i].generation = record[i].generation + 1
        /\ (record[i].generation = 0 \/ record[i].state = "closed")
    BY <1>0, <1>1, <1>2 DEF LifeInv, SlotInv
  <2> QED BY <1>0, <2>1, <2>2, RecordParts
<1>4. PICK h \in Named : h = [index |-> i, generation |-> g] /\ h.index = i /\ h.generation = g
  <2>1. [index |-> i, generation |-> g] \in Named
    BY <1>3, NamedTypes
  <2> QED BY <2>1
<1>5. Staged(h) = <<>> /\ \A f : Staged(f)' = Staged(f)
  BY <1>0, <1>2, <1>3, <1>4 DEF LifeInv, RingInv, Staged
<1>6. ASSUME NEW f \in Named, f.index = i
      PROVE  /\ Stand(f) = IF f.generation < g THEN "closed" ELSE "none"
             /\ Stand(f)' = IF f = h THEN "open" ELSE Stand(f)
  <2>1. f.generation \in Nat /\ f.generation >= 1 /\ (f = h <=> f.generation = g)
    BY <1>4, <1>6, NamedTypes DEF Named
  <2>2. Stand(f) = IF f.generation < g THEN "closed" ELSE "none"
    BY <1>3, <1>6, <2>1 DEF Stand
  <2>3. Stand(f)' = IF f.generation > g THEN "none"
                    ELSE IF f.generation < g THEN "closed"
                    ELSE IF Contains(Staged(f), "close") THEN "closing" ELSE "open"
    BY <1>2, <1>3, <1>5, <1>6, <2>1 DEF Stand
  <2> QED BY <1>3, <1>5, <2>1, <2>2, <2>3, ContainsEmpty
<1>7. ASSUME NEW f \in Named, f.index # i
      PROVE  Stand(f)' = Stand(f) /\ record'[f.index] = record[f.index]
  <2>1. record'[f.index] = record[f.index]
    BY <1>2, <1>7, NamedTypes
  <2> QED BY <1>5, <2>1 DEF Stand
<1>8. \A f \in Named : Stand(f)' = IF f = h THEN "open" ELSE Stand(f)
  BY <1>4, <1>6, <1>7
<1>9. Lives' = [Lives EXCEPT ![h] = "open"] /\ Frames' = Frames
  BY <1>5, <1>8 DEF Lives, Frames
<1>10. Quiet' = Quiet
  <2>1. ASSUME NEW f \in Named PROVE f \in Quiet' <=> f \in Quiet
    <3>1. CASE f.index = i
      <4>1. ~record'[f.index].paused /\ Stand(f) \notin {"open", "closing"}
        BY <1>2, <1>6, <3>1
      <4> QED BY <4>1 DEF Quiet
    <3>2. CASE f.index # i
      BY <1>7, <3>2 DEF Quiet
    <3> QED BY <3>1, <3>2
  <2>2. Quiet \subseteq Named /\ Quiet' \subseteq Named
    BY DEF Quiet
  <2> QED BY <2>1, <2>2
<1>11. \A f \in Named : f.index = h.index =>
           IF f.generation < h.generation THEN Lives[f] = "closed" ELSE Lives[f] = "none"
  BY <1>4, <1>6 DEF Lives
<1>12. Life!Open(h)
  BY <1>0, <1>9, <1>10, <1>11, LifeIs, LifeIsPrimed, LifeHandles DEF Phases, Frames, Life!Open, LInv
<1> QED BY <1>12, LifeHandles DEF Life!Next

\* A connection ends when its record is closed; a record that has had none has
\* none to end.
LEMMA FinishEnds ==
    ASSUME LInv, LInv', NEW i \in Index, OnCloseFinish(i)
    PROVE  Life!Next \/ UNCHANGED Life!vars
<1>0. LifeInv /\ IInv
  BY DEF LInv
<1>1. /\ UNCHANGED ring /\ ~record[i].terminal
      /\ record'[i].generation = record[i].generation /\ record'[i].state = "closed"
      /\ record'[i].paused = record[i].paused
      /\ \A j \in Index \ {i} : record'[j] = record[j]
  <2>1. record[i] \in Record /\ record \in [Index -> Record]
    BY <1>0, Types DEF IInv
  <2>2. PICK r : r = [record[i] EXCEPT !.terminal = TRUE, !.state = "closed"]
    OBVIOUS
  <2>3. r.state = "closed" /\ r.generation = record[i].generation /\ r.paused = record[i].paused
    BY <2>1, <2>2 DEF Record
  <2>4. record' = [record EXCEPT ![i] = r]
    BY <2>1, <2>2 DEF OnCloseFinish
  <2> QED BY <2>1, <2>3, <2>4 DEF OnCloseFinish
<1>2. record[i].generation \in Nat /\ record[i].state \in {"open", "closing"}
  <2>1. record[i].state # "closed"
    BY <1>0, <1>1 DEF LifeInv, SlotInv
  <2> QED BY <1>0, <2>1, RecordParts DEF Record
<1>3. \A f : Staged(f)' = Staged(f)
  BY <1>1 DEF Staged
<1>4. ASSUME NEW f \in Named, f.index # i \/ f.generation # record[i].generation
      PROVE  Stand(f)' = Stand(f) /\ (record'[f.index].paused <=> record[f.index].paused)
  <2>1. CASE f.index # i
    <3>1. record'[f.index] = record[f.index]
      BY <1>1, <2>1, NamedTypes
    <3> QED BY <1>3, <3>1 DEF Stand
  <2>2. CASE f.index = i /\ f.generation # record[i].generation
    <3>1. f.generation \in Nat
      BY NamedTypes
    <3> QED BY <1>1, <1>2, <2>2, <3>1 DEF Stand
  <2> QED BY <1>4, <2>1, <2>2
<1>5. CASE record[i].generation = 0
  <2>1. \A f \in Named : f.index # i \/ f.generation # record[i].generation
    BY <1>5, NamedTypes
  <2> QED BY <1>3, <1>4, <2>1, LifeSame
<1>6. CASE record[i].generation >= 1
  <2>1. PICK h \in Named : h.index = i /\ h.generation = record[i].generation
    <3>1. [index |-> i, generation |-> record[i].generation] \in Named
      BY <1>0, <1>6, NamedTypes, RecordParts
    <3> QED BY <3>1
  <2>2. Stand(h) \in {"open", "closing"} /\ Stand(h)' = "closed"
    BY <1>1, <1>2, <2>1 DEF Stand
  <2>3. \A f \in Named : f # h =>
            Stand(f)' = Stand(f) /\ (record'[f.index].paused <=> record[f.index].paused)
    BY <1>4, <2>1 DEF Named
  <2>4. Lives' = [Lives EXCEPT ![h] = "closed"] /\ Frames' = Frames
    BY <1>3, <2>2, <2>3 DEF Lives, Frames
  <2>5. Quiet' = Quiet \ {h}
    BY <2>2, <2>3 DEF Quiet
  <2>6. Life!Finish(h)
    BY <2>2, <2>4, <2>5, LifeIs, LifeIsPrimed DEF Phases, Frames, Life!Finish, Lives
  <2> QED BY <2>6, LifeHandles DEF Life!Next
<1> QED BY <1>2, <1>5, <1>6

\* A message, or a close frame, is staged for an open connection.
LEMMA StageSends ==
    ASSUME LInv, LInv', Stage
    PROVE  Life!Next
<1>0. LifeInv /\ IInv
  BY DEF LInv
<1>1. PICK i \in Index, g \in Nat \ {0}, kind \in Kind :
          /\ main.handle = [index |-> i, generation |-> g] /\ main.handle \in Named
          /\ record[i].generation = g /\ record[i].state = "open" /\ record[i].locked
          /\ main.pc = "act" /\ main'.handle = main.handle /\ main'.op = main.op
          /\ \/ main.op = "close" /\ kind = "close" /\ main'.pc = "state"
             \/ main.op = "send" /\ kind = "message" /\ main'.pc = "account"
          /\ \A h : /\ Staged(h)' = IF h = main.handle THEN Append(Staged(h), kind)
                                                       ELSE Staged(h)
                    /\ Staged(h) \in Seq(Kind)
                    /\ Bytes(ring', h) = IF h = main.handle
                                         THEN Bytes(ring, h) + BytesOf(kind)
                                         ELSE Bytes(ring, h)
                    /\ Bytes(ring, h) \in Nat
          /\ UNCHANGED record
  BY StageFacts
<1>2. PICK h \in Named : h = main.handle
  BY <1>1
<1>3. h = [index |-> i, generation |-> g] /\ h.index = i /\ h.generation = g
  BY <1>1, <1>2
<1>4. ~Contains(Staged(h), "close")
  <2>1. Current(i) = h
    BY <1>1, <1>3 DEF Current
  <2>2. main.pc # "state" /\ record[i].generation >= 1
    BY <1>1
  <2> QED BY <1>0, <1>1, <2>1, <2>2 DEF LifeInv, CloseInv
<1>5. Staged(h)' = Append(Staged(h), kind) /\ \A f \in Named \ {h} : Staged(f)' = Staged(f)
  BY <1>1, <1>2
<1>6. Contains(Staged(h)', "close") <=> kind = "close"
  BY <1>1, <1>4, <1>5, ContainsAppend
<1>7. \A f \in Named \ {h} : Stand(f)' = Stand(f)
  BY <1>1, <1>5 DEF Stand
<1>8. Stand(h) = "open" /\ Stand(h)' = IF kind = "close" THEN "closing" ELSE "open"
  BY <1>1, <1>3, <1>4, <1>6 DEF Stand
<1>9. Frames' = [Frames EXCEPT ![h] = Append(@, kind)] /\ Lives[h] = "open"
  BY <1>5, <1>8 DEF Frames, Lives
<1>10. Quiet' = Quiet
  BY <1>1, <1>7, <1>8 DEF Quiet
<1>11. CASE kind = "close"
  <2>1. Lives' = [Lives EXCEPT ![h] = "closing"]
    BY <1>7, <1>8, <1>11 DEF Lives
  <2>2. Life!Close(h)
    BY <1>9, <1>10, <1>11, <2>1, LifeIs, LifeIsPrimed DEF Phases, Frames, Life!Close
  <2> QED BY <2>2, LifeHandles DEF Life!Next
<1>12. CASE kind = "message"
  <2>1. Lives' = Lives
    BY <1>7, <1>8, <1>12 DEF Lives
  <2>2. Life!Send(h)
    BY <1>9, <1>10, <1>12, <2>1, LifeIs, LifeIsPrimed DEF Phases, Frames, Life!Send
  <2> QED BY <2>2, LifeHandles DEF Life!Next
<1> QED BY <1>11, <1>12 DEF Kind

\* Only an open connection is paused or resumed.
LEMMA PausesOpen ==
    ASSUME LInv, LInv', SetPaused
    PROVE  Life!Next
<1>0. LifeInv /\ IInv
  BY DEF LInv
<1>1. main.pc = "act" /\ main.op \in {"pause", "resume"} /\ UNCHANGED ring
  BY DEF SetPaused, Goto
<1>2. PICK i \in Index, g \in Nat \ {0} :
          main.handle = [index |-> i, generation |-> g] /\ main.handle \in Named
  BY <1>1, AtWork
<1>3. PICK h \in Named : h = main.handle /\ h.index = i /\ h.generation = g
  BY <1>2
<1>4. record[i].generation = g /\ record[i].state = "open"
  BY <1>0, <1>1, <1>3 DEF LifeInv, WorkInv
<1>5. /\ record'[i].generation = g /\ record'[i].state = "open"
      /\ record'[i].paused <=> main.op = "pause"
      /\ \A j \in Index \ {i} : record'[j] = record[j]
  <2>1. record[i] \in Record /\ record \in [Index -> Record]
    BY <1>0, Types DEF IInv
  <2>2. PICK r : r = [record[i] EXCEPT !.paused = (main.op = "pause")]
    OBVIOUS
  <2>3. r.state = "open" /\ r.generation = g /\ r.paused = (main.op = "pause")
    BY <1>4, <2>1, <2>2 DEF Record
  <2>4. record' = [record EXCEPT ![i] = r]
    BY <1>3, <2>2 DEF SetPaused
  <2> QED BY <2>1, <2>3, <2>4
<1>6. \A f : Staged(f)' = Staged(f)
  BY <1>1 DEF Staged
<1>7. ~Contains(Staged(h), "close")
  <2>1. Current(i) = h
    BY <1>2, <1>3, <1>4 DEF Current
  <2> QED BY <1>0, <1>1, <1>4, <2>1 DEF LifeInv, CloseInv
<1>8. Stand(h) = "open" /\ Stand(h)' = "open"
  BY <1>3, <1>4, <1>5, <1>6, <1>7 DEF Stand
<1>9. ASSUME NEW f \in Named, f # h
      PROVE  /\ Stand(f)' = Stand(f)
             /\ f \in Quiet' <=> f \in Quiet
  <2>1. CASE f.index # i
    <3>1. record'[f.index] = record[f.index]
      BY <1>5, <2>1, NamedTypes
    <3>2. Stand(f)' = Stand(f)
      BY <1>6, <3>1 DEF Stand
    <3> QED BY <3>1, <3>2 DEF Quiet
  <2>2. CASE f.index = i
    <3>1. f.generation \in Nat /\ f.generation # g
      BY <1>3, <1>9, <2>2, NamedTypes DEF Named
    <3>2. Stand(f)' = Stand(f) /\ Stand(f) \in {"none", "closed"}
      BY <1>4, <1>5, <2>2, <3>1 DEF Stand
    <3> QED BY <3>2 DEF Quiet
  <2> QED BY <2>1, <2>2
<1>10. Lives' = Lives /\ Frames' = Frames /\ Lives[h] = "open"
  BY <1>6, <1>8, <1>9 DEF Lives, Frames
<1>11. Quiet \subseteq Named /\ Quiet' \subseteq Named /\ (h \in Quiet' <=> main.op = "pause")
  BY <1>3, <1>5, <1>8 DEF Quiet
<1>12. CASE main.op = "pause"
  <2>1. Quiet' = Quiet \cup {h}
    BY <1>9, <1>11, <1>12
  <2>2. Life!Pause(h)
    BY <1>10, <2>1, LifeIs, LifeIsPrimed DEF Phases, Frames, Life!Pause
  <2> QED BY <2>2, LifeHandles DEF Life!Next
<1>13. CASE main.op = "resume"
  <2>1. Quiet' = Quiet \ {h}
    BY <1>9, <1>11, <1>13
  <2>2. Life!Resume(h)
    BY <1>10, <2>1, LifeIs, LifeIsPrimed DEF Phases, Frames, Life!Resume
  <2> QED BY <2>2, LifeHandles DEF Life!Next
<1> QED BY <1>1, <1>12, <1>13

\* The state of a closing connection follows the frame already staged.
LEMMA ClosingFollows ==
    ASSUME LInv, LInv', EnterClosing
    PROVE  UNCHANGED Life!vars
<1>0. LifeInv /\ IInv
  BY DEF LInv
<1>1. main.pc = "state" /\ UNCHANGED ring
  BY DEF EnterClosing, Goto
<1>2. PICK i \in Index, g \in Nat \ {0} :
          main.handle = [index |-> i, generation |-> g] /\ main.handle \in Named
  BY <1>1, AtWork
<1>3. PICK h \in Named : h = main.handle /\ h.index = i /\ h.generation = g
  BY <1>2
<1>4. /\ record[i].generation = g /\ record[i].state = "open"
      /\ Contains(Staged(h), "close")
  BY <1>0, <1>1, <1>3 DEF LifeInv, WorkInv
<1>5. /\ record'[i].generation = g /\ record'[i].state = "closing"
      /\ record'[i].paused = record[i].paused
      /\ \A j \in Index \ {i} : record'[j] = record[j]
  <2>1. record[i] \in Record /\ record \in [Index -> Record]
    BY <1>0, Types DEF IInv
  <2>2. PICK r : r = [record[i] EXCEPT !.state = "closing"]
    OBVIOUS
  <2>3. r.state = "closing" /\ r.generation = g /\ r.paused = record[i].paused
    BY <1>4, <2>1, <2>2 DEF Record
  <2>4. record' = [record EXCEPT ![i] = r]
    BY <1>3, <2>2 DEF EnterClosing
  <2> QED BY <2>1, <2>3, <2>4
<1>6. \A f : Staged(f)' = Staged(f)
  BY <1>1 DEF Staged
<1>7. ASSUME NEW f \in Named
      PROVE  Stand(f)' = Stand(f) /\ (record'[f.index].paused <=> record[f.index].paused)
  <2>1. CASE f.index # i
    <3>1. record'[f.index] = record[f.index]
      BY <1>5, <2>1, NamedTypes
    <3> QED BY <1>6, <3>1 DEF Stand
  <2>2. CASE f.index = i /\ f # h
    <3>1. f.generation \in Nat /\ f.generation # g
      BY <1>3, <2>2, NamedTypes DEF Named
    <3> QED BY <1>4, <1>5, <2>2, <3>1 DEF Stand
  <2>3. CASE f = h
    BY <1>3, <1>4, <1>5, <1>6, <2>3 DEF Stand
  <2> QED BY <2>1, <2>2, <2>3
<1> QED BY <1>6, <1>7, LifeSame

\* The steps no connection shows.
LEMMA OthersSame ==
    ASSUME LInv, LInv',
           \/ Accept \/ Deliver \/ Lock \/ Return \/ Check \/ CheckOutlived
           \/ CheckRefused \/ StageFull \/ Account \/ Unlock
           \/ OnOpenEmit \/ OnCloseRelease \/ OnCloseNothing \/ OnCloseEmit
           \/ \E i \in Index : OnCloseTerminal(i)
           \/ \E op \in Operations, raw \in Known \cup NeverIssued : Resolve(op, raw)
           \/ UNCHANGED vars
    PROVE  UNCHANGED Life!vars
<1>0. IInv /\ record \in [Index -> Record]
  BY Types DEF LInv, IInv
<1>1. CASE Lock \/ Account \/ Unlock
  <2>1. PICK i \in Index : main.handle.index = i
    BY <1>0, <1>1 DEF IInv, MainInv, Lock, Account, Unlock, Goto
  <2>2. UNCHANGED ring
    BY <1>1 DEF Lock, Account, Unlock
  <2>3. \E r : /\ record' = [record EXCEPT ![i] = r]
               /\ r.generation = record[i].generation
               /\ r.state = record[i].state /\ r.paused = record[i].paused
    <3>0. record[i] \in Record
      BY <1>0
    <3>1. CASE Lock
      <4>1. PICK r : r = [record[i] EXCEPT !.locked = TRUE]
        OBVIOUS
      <4>2. record' = [record EXCEPT ![i] = r]
        BY <2>1, <3>1, <4>1 DEF Lock
      <4>3. r.generation = record[i].generation /\ r.state = record[i].state
            /\ r.paused = record[i].paused
        BY <3>0, <4>1 DEF Record
      <4> QED BY <4>2, <4>3
    <3>2. CASE Account
      <4>1. PICK r : r = [record[i] EXCEPT !.buffered = @ + BytesOf(main.op)]
        OBVIOUS
      <4>2. record' = [record EXCEPT ![i] = r]
        BY <2>1, <3>2, <4>1 DEF Account
      <4>3. r.generation = record[i].generation /\ r.state = record[i].state
            /\ r.paused = record[i].paused
        BY <3>0, <4>1 DEF Record
      <4> QED BY <4>2, <4>3
    <3>3. CASE Unlock
      <4>1. PICK r : r = [record[i] EXCEPT !.locked = FALSE]
        OBVIOUS
      <4>2. record' = [record EXCEPT ![i] = r]
        BY <2>1, <3>3, <4>1 DEF Unlock
      <4>3. r.generation = record[i].generation /\ r.state = record[i].state
            /\ r.paused = record[i].paused
        BY <3>0, <4>1 DEF Record
      <4> QED BY <4>2, <4>3
    <3> QED BY <1>1, <3>1, <3>2, <3>3
  <2>4. \A j \in Index : /\ record'[j].generation = record[j].generation
                         /\ record'[j].state = record[j].state
                         /\ record'[j].paused = record[j].paused
    BY <1>0, <2>3
  <2> QED BY <2>2, <2>4, LifeRecords
<1>2. CASE ~(Lock \/ Account \/ Unlock)
  <2>1. UNCHANGED <<record, ring>>
    BY <1>2 DEF Accept, OnOpenRefused, OnOpenAcquire, Deliver, Return, Check, CheckOutlived,
       CheckRefused, StageFull, OnOpenEmit, OnCloseRelease, OnCloseNothing, OnCloseEmit,
       OnCloseTerminal, Resolve, vars
  <2> QED BY <2>1, LifeRecords
<1> QED BY <1>1, <1>2

LEMMA LifeStarts == Init => Life!Init
<1> SUFFICES ASSUME Init PROVE Life!Init
  OBVIOUS
<1>1. LInv
  BY InitKeeps, LifeInit DEF LInv
<1>2. ASSUME NEW h \in Named PROVE Stand(h) = "none" /\ Staged(h) = <<>>
  <2>1. h.index \in Index /\ h.generation > 0 /\ record[h.index].generation = 0
    BY NamedTypes DEF Init
  <2> QED BY <2>1, KindsEmpty DEF Init, Stand, Staged
<1>3. /\ Lives = [h \in Named |-> "none"] /\ Frames = [h \in Named |-> <<>>]
      /\ Quiet = {}
  BY <1>2 DEF Lives, Frames, Quiet
<1> QED BY <1>1, <1>3, LifeIs, LifeHandles DEF Phases, Frames, Life!Init

LEMMA LifeSteps == LInv /\ LInv' /\ [Next]_vars => [Life!Next]_(Life!vars)
<1> SUFFICES ASSUME LInv, LInv', [Next]_vars PROVE Life!Next \/ UNCHANGED Life!vars
  OBVIOUS
<1>1. CASE OnOpenReset
  BY <1>1, ResetOpens
<1>2. CASE \E i \in Index : OnCloseFinish(i)
  BY <1>2, FinishEnds
<1>3. CASE Stage
  BY <1>3, StageSends
<1>4. CASE SetPaused
  BY <1>4, PausesOpen
<1>5. CASE EnterClosing
  BY <1>5, ClosingFollows
<1>6. CASE \/ Accept \/ Deliver \/ Lock \/ Return \/ Check \/ CheckOutlived
           \/ CheckRefused \/ StageFull \/ Account \/ Unlock
           \/ OnOpenEmit \/ OnCloseRelease \/ OnCloseNothing \/ OnCloseEmit
           \/ \E i \in Index : OnCloseTerminal(i)
           \/ \E op \in Operations, raw \in Known \cup NeverIssued : Resolve(op, raw)
           \/ UNCHANGED vars
  BY <1>6, OthersSame
<1> QED BY <1>1, <1>2, <1>3, <1>4, <1>5, <1>6 DEF Next, Callback, Operate

\* Slab, records and lock implement one life per handle (socket.zig:7-10,
\* socket_ops.zig:3-6).
THEOREM LifeImplemented == Spec => ImplementsLife
<1>1. Spec => []LInv
  BY LifeInvariant
<1> QED BY <1>1, LifeStarts, LifeSteps, PTL DEF Spec, ImplementsLife, Life!Spec
=============================================================================
