------------------------- MODULE DuplexStreamProofs -------------------------
(***************************************************************************)
(* Theorems about the socket record (SocketFacade) and about the stream      *)
(* adapter over it (DuplexStream), for every size of the staging ring, any   *)
(* number of bytes sent and any codes the application closes with.           *)
(***************************************************************************)
EXTENDS DuplexStream, TLAPS, Integers

-----------------------------------------------------------------------------
(* The socket record                                                         *)

(* A record adopts one thing only, once, and only an adopted connection of   *)
(* the engine can make close() fail.                                         *)
AdoptionInv ==
    /\ attachment => transport = "none"
    /\ failing => attachment
    /\ transport # "none" => readyState # "CONNECTING"

IInv == TypeOK /\ AdoptionInv /\ CloseToldOnce /\ StreamGoneWhenClosed
            /\ LatchedByFinalizeOnly

Connection == [state    : {"open", "closing", "closed", "recycled", "finalized"},
               buffered : Nat, paused : BOOLEAN]

LEMMA InitIInv == Init => IInv
<1> SUFFICES ASSUME Init PROVE IInv
    OBVIOUS
<1>1. [state |-> "open", buffered |-> 0, paused |-> FALSE] \in Connection
    BY DEF Connection
<1>2. TypeOK
    BY <1>1 DEF Init, TypeOK, State, Transport, Connection
<1> QED BY <1>2 DEF Init, IInv, AdoptionInv, CloseToldOnce, StreamGoneWhenClosed,
                    LatchedByFinalizeOnly, Latched

(* What the engine and the binding change of a connection leaves it one.     *)
LEMMA ConnectionUpdates ==
    ASSUME NEW c \in Connection
    PROVE  /\ [c EXCEPT !.state = "closing", !.buffered = @ + 1] \in Connection
           /\ [c EXCEPT !.state = "closed"] \in Connection
           /\ \A s \in {"recycled", "finalized"} :
                  [c EXCEPT !.state = s, !.buffered = 0] \in Connection
           /\ \A p \in BOOLEAN : [c EXCEPT !.paused = p] \in Connection
<1> USE DEF Connection
<1>1. [c EXCEPT !.state = "closing", !.buffered = @ + 1] \in Connection
    <2>1. c.buffered + 1 \in Nat
        OBVIOUS
    <2>2. ASSUME NEW n \in Nat
          PROVE  [c EXCEPT !.state = "closing", !.buffered = n] \in Connection
        OBVIOUS
    <2> QED BY <2>1, <2>2
<1>2. [c EXCEPT !.state = "closed"] \in Connection
    OBVIOUS
<1>3. ASSUME NEW s \in {"recycled", "finalized"}
      PROVE  [c EXCEPT !.state = s, !.buffered = 0] \in Connection
    OBVIOUS
<1>4. ASSUME NEW p \in BOOLEAN PROVE [c EXCEPT !.paused = p] \in Connection
    BY Zenon
<1> QED BY <1>1, <1>2, <1>3, <1>4

(* Every action keeps the types.                                             *)
LEMMA TypeStep == ASSUME TypeOK, [Next]_vars PROVE TypeOK'
<1> USE FacadeAssumption DEF TypeOK, State, Transport
<1>1. CASE attachNativeSocket
    BY <1>1 DEF attachNativeSocket
<1>2. CASE attachSocket
    BY <1>2 DEF attachSocket
<1>3. CASE SendStaged
    BY <1>3 DEF SendStaged, bufferedAmountOf
<1>4. CASE SendCounted
    BY <1>4 DEF SendCounted
<1>5. CASE controlFrame
    BY <1>5 DEF controlFrame
<1>6. ASSUME NEW code \in CloseCode, NEW reason \in Reason, closeConnection(code, reason)
      PROVE  TypeOK'
    <2>1. /\ readyState' \in State
          /\ closes' \in Nat
        BY <1>6 DEF closeConnection, finishConnection, CloseStaged, CloseTooLate,
                    CloseFails, CloseThrows
    <2> native \in Connection
        BY DEF Connection
    <2>2. native' \in Connection
        BY <1>6, ConnectionUpdates DEF closeConnection, CloseStaged, CloseTooLate,
                                       CloseFails, CloseThrows
    <2>3. bufferedAmount' \in Nat
        BY <1>6, <2>2 DEF bufferedAmountOf, Connection, closeConnection, CloseStaged,
           CloseTooLate, CloseFails, CloseThrows
    <2>4. closeFrameSent' \in BOOLEAN /\ failing' \in BOOLEAN
        BY <1>6 DEF closeConnection, CloseStaged, CloseTooLate, CloseFails, CloseThrows
    <2> QED BY <1>6, <2>1, <2>2, <2>3, <2>4 DEF closeConnection, Connection
<1>7. CASE terminateConnection
    BY <1>7 DEF terminateConnection, finishConnection
<1>8. ASSUME NEW paused \in BOOLEAN, SetPaused(paused) PROVE TypeOK'
    <2>1. native' \in Connection
        BY <1>8, ConnectionUpdates DEF SetPaused, Connection
    <2>2. isPaused' \in BOOLEAN
        BY <1>8, Zenon DEF SetPaused
    <2>3. UNCHANGED <<readyState, attachment, bufferedAmount, closeFrameSent,
                      transport, failing, closes>>
        BY <1>8 DEF SetPaused
    <2> QED BY <2>1, <2>2, <2>3 DEF Connection
<1>9. CASE Finally
    <2>1. readyState' \in State /\ closes' \in Nat
        BY <1>9 DEF Finally, finishConnection
    <2> QED BY <1>9, <2>1 DEF Finally
<1>10. CASE StreamEnds \/ StreamErrs
    BY <1>10 DEF StreamEnds, StreamErrs
<1>11. CASE StreamCloses
    BY <1>11 DEF StreamCloses, finishConnection
<1>12. CASE EngineCloses \/ EngineRecycles \/ ServerFinalized
    <2>1. native' \in Connection
        BY <1>12, ConnectionUpdates DEF EngineCloses, EngineRecycles, ServerFinalized,
           Connection
    <2> QED BY <1>12, <2>1 DEF EngineCloses, EngineRecycles, ServerFinalized, Connection
<1>13. CASE UNCHANGED vars
    BY <1>13 DEF vars
<1> QED BY <1>1, <1>2, <1>3, <1>4, <1>5, <1>6, <1>7, <1>8, <1>9, <1>10, <1>11,
           <1>12, <1>13 DEF Next

(* Every action keeps the bond of adoption and close event: AdoptionInv,     *)
(* CloseToldOnce and StreamGoneWhenClosed support each other.                *)
LEMMA CloseStep ==
    ASSUME TypeOK, AdoptionInv, CloseToldOnce, StreamGoneWhenClosed, [Next]_vars
    PROVE  AdoptionInv' /\ CloseToldOnce' /\ StreamGoneWhenClosed'
<1> USE DEF TypeOK, State, Transport, AdoptionInv, CloseToldOnce, StreamGoneWhenClosed
<1>1. CASE attachNativeSocket \/ attachSocket
    BY <1>1 DEF attachNativeSocket, attachSocket, Unadopted
<1>2. CASE SendStaged \/ SendCounted \/ controlFrame
    BY <1>2 DEF SendStaged, SendCounted, controlFrame
<1>3. ASSUME NEW code \in CloseCode, NEW reason \in Reason, closeConnection(code, reason)
      PROVE  AdoptionInv' /\ CloseToldOnce' /\ StreamGoneWhenClosed'
    BY <1>3 DEF closeConnection, finishConnection, CloseStaged, CloseTooLate,
                CloseFails, CloseThrows
<1>4. CASE terminateConnection
    BY <1>4 DEF terminateConnection, finishConnection
<1>5. ASSUME NEW paused \in BOOLEAN, SetPaused(paused)
      PROVE  AdoptionInv' /\ CloseToldOnce' /\ StreamGoneWhenClosed'
    BY <1>5 DEF SetPaused
<1>6. CASE Finally
    BY <1>6 DEF Finally, finishConnection
<1>7. CASE StreamEnds \/ StreamErrs \/ StreamCloses
    BY <1>7 DEF StreamEnds, StreamErrs, StreamCloses, finishConnection
<1>8. CASE EngineCloses \/ EngineRecycles \/ ServerFinalized
    BY <1>8 DEF EngineCloses, EngineRecycles, ServerFinalized
<1>9. CASE UNCHANGED vars
    BY <1>9 DEF vars
<1> QED BY <1>1, <1>2, <1>3, <1>4, <1>5, <1>6, <1>7, <1>8, <1>9 DEF Next

(* Every action keeps a record that adopted a connection from being left in  *)
(* CLOSING. A stream that ends cannot do it: such a record has none.         *)
LEMMA LatchStep ==
    ASSUME TypeOK, AdoptionInv, LatchedByFinalizeOnly, [Next]_vars
    PROVE  LatchedByFinalizeOnly'
<1> USE DEF TypeOK, State, AdoptionInv, LatchedByFinalizeOnly, Latched
<1>1. CASE attachNativeSocket \/ attachSocket
    BY <1>1 DEF attachNativeSocket, attachSocket, Unadopted
<1>2. CASE SendStaged
    BY <1>2 DEF SendStaged
<1>3. CASE SendCounted \/ controlFrame
    BY <1>3 DEF SendCounted, controlFrame
<1>4. ASSUME NEW code \in CloseCode, NEW reason \in Reason, closeConnection(code, reason)
      PROVE  LatchedByFinalizeOnly'
    BY <1>4 DEF closeConnection, finishConnection, CloseStaged, CloseTooLate,
                CloseFails, CloseThrows
<1>5. CASE terminateConnection
    BY <1>5 DEF terminateConnection, finishConnection
<1>6. ASSUME NEW paused \in BOOLEAN, SetPaused(paused) PROVE LatchedByFinalizeOnly'
    BY <1>6 DEF SetPaused
<1>7. CASE Finally
    BY <1>7 DEF Finally, finishConnection
<1>8. CASE StreamEnds \/ StreamErrs \/ StreamCloses
    BY <1>8 DEF StreamEnds, StreamErrs, StreamCloses, finishConnection
<1>9. CASE EngineCloses \/ EngineRecycles \/ ServerFinalized
    BY <1>9 DEF EngineCloses, EngineRecycles, ServerFinalized
<1>10. CASE UNCHANGED vars
    BY <1>10 DEF vars
<1> QED BY <1>1, <1>2, <1>3, <1>4, <1>5, <1>6, <1>7, <1>8, <1>9, <1>10 DEF Next

LEMMA StepIInv == IInv /\ [Next]_vars => IInv'
BY TypeStep, CloseStep, LatchStep DEF IInv

(* IInv is an invariant of the record.                                       *)
THEOREM Invariance == Spec => []IInv
BY InitIInv, StepIInv, PTL DEF Spec

(* Every variable of the record keeps its type.                              *)
THEOREM TypeCorrect == Spec => []TypeOK
<1>1. IInv => TypeOK
    BY DEF IInv
<1> QED BY <1>1, Invariance, PTL

(* The close event is told exactly when a record becomes CLOSED, and once    *)
(* in every life, whatever its listeners do (finishConnection).              *)
THEOREM CloseTold == Spec => []CloseToldOnce
<1>1. IInv => CloseToldOnce
    BY DEF IInv
<1> QED BY <1>1, Invariance, PTL

(* A record that adopted a stream is CLOSED only once the stream has closed  *)
(* (attachSocket, terminateConnection).                                      *)
THEOREM StreamGone == Spec => []StreamGoneWhenClosed
<1>1. IInv => StreamGoneWhenClosed
    BY DEF IInv
<1> QED BY <1>1, Invariance, PTL

(* Only finalizing the server can leave a record in CLOSING with no close    *)
(* frame sent (closeConnection, failConnection).                             *)
THEOREM LatchedOnlyByFinalize == Spec => []LatchedByFinalizeOnly
<1>1. IInv => LatchedByFinalizeOnly
    BY DEF IInv
<1> QED BY <1>1, Invariance, PTL

-----------------------------------------------------------------------------
(* Elements that are in a sequence not at all, or once                       *)

None(s, x)   == \A k \in 1 .. Len(s) : s[k] # x
Single(s, x) == \E k \in 1 .. Len(s) :
                    s[k] = x /\ \A j \in 1 .. Len(s) : s[j] = x => j = k

LEMMA Positions ==
    ASSUME NEW S, NEW s \in Seq(S), NEW t \in Seq(S)
    PROVE  /\ Len(s \o t) = Len(s) + Len(t)
           /\ \A k \in 1 .. Len(s) : (s \o t)[k] = s[k]
           /\ \A k \in 1 .. Len(t) : (s \o t)[Len(s) + k] = t[k]
           /\ \A k \in 1 .. Len(s \o t) :
                  k \in 1 .. Len(s) \/ \E j \in 1 .. Len(t) : k = Len(s) + j
<1>1. Len(s \o t) = Len(s) + Len(t) /\ Len(s) \in Nat /\ Len(t) \in Nat
  OBVIOUS
<1>2. ASSUME NEW k \in 1 .. Len(s \o t), k \notin 1 .. Len(s)
      PROVE  k - Len(s) \in 1 .. Len(t) /\ k = Len(s) + (k - Len(s))
  BY <1>1, <1>2
<1> QED BY <1>1, <1>2

LEMMA NoneConcat ==
    ASSUME NEW S, NEW s \in Seq(S), NEW t \in Seq(S), NEW x, None(s, x), None(t, x)
    PROVE  None(s \o t, x)
<1>1. ASSUME NEW k \in 1 .. Len(s \o t) PROVE (s \o t)[k] # x
  <2>1. CASE k \in 1 .. Len(s)
    BY <2>1, Positions DEF None
  <2>2. ASSUME NEW j \in 1 .. Len(t), k = Len(s) + j PROVE (s \o t)[k] # x
    BY <2>2, Positions DEF None
  <2> QED BY <2>1, <2>2, Positions
<1> QED BY <1>1 DEF None

LEMMA SingleConcat ==
    ASSUME NEW S, NEW s \in Seq(S), NEW t \in Seq(S), NEW x,
           \/ Single(s, x) /\ None(t, x)
           \/ None(s, x) /\ Single(t, x)
    PROVE  Single(s \o t, x)
<1>1. Len(s) \in Nat /\ Len(t) \in Nat /\ Len(s \o t) = Len(s) + Len(t)
  OBVIOUS
<1>2. CASE Single(s, x) /\ None(t, x)
  <2>1. PICK k \in 1 .. Len(s) : s[k] = x /\ \A j \in 1 .. Len(s) : s[j] = x => j = k
    BY <1>2 DEF Single
  <2>2. k \in 1 .. Len(s \o t) /\ (s \o t)[k] = x
    BY <1>1, <2>1, Positions
  <2>3. ASSUME NEW j \in 1 .. Len(s \o t), (s \o t)[j] = x PROVE j = k
    BY <1>2, <2>1, <2>3, Positions DEF None
  <2> QED BY <2>2, <2>3 DEF Single
<1>3. CASE None(s, x) /\ Single(t, x)
  <2>1. PICK k \in 1 .. Len(t) : t[k] = x /\ \A j \in 1 .. Len(t) : t[j] = x => j = k
    BY <1>3 DEF Single
  <2>2. Len(s) + k \in 1 .. Len(s \o t) /\ (s \o t)[Len(s) + k] = x
    BY <1>1, <2>1, Positions
  <2>3. ASSUME NEW j \in 1 .. Len(s \o t), (s \o t)[j] = x PROVE j = Len(s) + k
    BY <1>3, <2>1, <2>3, Positions DEF None
  <2> QED BY <2>2, <2>3 DEF Single
<1> QED BY <1>2, <1>3

LEMMA OneOf == \A e, x : IF e = x THEN Single(<<e>>, x) ELSE None(<<e>>, x)
<1> SUFFICES ASSUME NEW e, NEW x
             PROVE  IF e = x THEN Single(<<e>>, x) ELSE None(<<e>>, x)
  OBVIOUS
<1>1. Len(<<e>>) = 1 /\ <<e>>[1] = e
  OBVIOUS
<1> QED BY <1>1 DEF Single, None

LEMMA NoneAppend ==
    ASSUME NEW S, NEW s \in Seq(S), NEW e \in S, NEW x, None(s, x)
    PROVE  IF e = x THEN Single(Append(s, e), x) ELSE None(Append(s, e), x)
<1>1. <<e>> \in Seq(S) /\ Append(s, e) = s \o <<e>>
  OBVIOUS
<1>2. IF e = x THEN Single(<<e>>, x) ELSE None(<<e>>, x)
  BY OneOf
<1> QED BY <1>1, <1>2, NoneConcat, SingleConcat

LEMMA SingleAppend ==
    ASSUME NEW S, NEW s \in Seq(S), NEW e \in S, NEW x, Single(s, x), e # x
    PROVE  Single(Append(s, e), x)
<1>1. <<e>> \in Seq(S) /\ Append(s, e) = s \o <<e>>
  OBVIOUS
<1>2. None(<<e>>, x)
  BY OneOf
<1> QED BY <1>1, <1>2, SingleConcat

(* Without its head.                                                         *)
LEMMA Behind ==
    ASSUME NEW S, NEW s \in Seq(S), s # <<>>, NEW x
    PROVE  /\ Tail(s) \in Seq(S) /\ Head(s) \in S
           /\ None(s, x) => None(Tail(s), x) /\ Head(s) # x
           /\ Single(s, x) => IF Head(s) = x THEN None(Tail(s), x) ELSE Single(Tail(s), x)
<1>1. PICK n \in Nat : Len(s) = n + 1
  OBVIOUS
<1>2. /\ Len(Tail(s)) = n /\ Head(s) = s[1]
      /\ \A k \in 1 .. n : Tail(s)[k] = s[k + 1] /\ k + 1 \in 1 .. n + 1
  BY <1>1
<1>3. None(s, x) => None(Tail(s), x) /\ Head(s) # x
  BY <1>1, <1>2 DEF None
<1>4. ASSUME Single(s, x), Head(s) = x PROVE None(Tail(s), x)
  BY <1>1, <1>2, <1>4 DEF Single, None
<1>5. ASSUME Single(s, x), Head(s) # x PROVE Single(Tail(s), x)
  <2>1. PICK k \in 1 .. n + 1 : s[k] = x /\ \A j \in 1 .. n + 1 : s[j] = x => j = k
    BY <1>1, <1>5 DEF Single
  <2>2. k # 1 /\ k - 1 \in 1 .. n /\ (k - 1) + 1 = k
    BY <1>2, <1>5, <2>1
  <2>3. Tail(s)[k - 1] = x
    BY <1>2, <2>1, <2>2
  <2>4. ASSUME NEW j \in 1 .. n, Tail(s)[j] = x PROVE j = k - 1
    BY <1>2, <2>1, <2>4
  <2> QED BY <1>2, <2>2, <2>3, <2>4 DEF Single
<1> QED BY <1>3, <1>4, <1>5

LEMMA NoneOfType ==
    ASSUME NEW S, NEW s \in Seq(S), NEW x, x \notin S
    PROVE  None(s, x)
BY DEF None

LEMMA NotBoth == \A s, x : ~(None(s, x) /\ Single(s, x))
BY DEF None, Single

LEMMA NoneEmpty == \A x : None(<<>>, x)
BY DEF None

-----------------------------------------------------------------------------
(* The stream                                                               *)

OpenListener  == {"openFinal", "openWrite"}
ErrorListener == {"error", "destroyError"}
CloseListener == {"eof", "final", "destroyClose"}
AnyListener   == OpenListener \cup ErrorListener \cup CloseListener \cup {"finally"}
Registry      == [open : Seq(OpenListener), error : Seq(ErrorListener),
                  close : Seq(CloseListener)]
Tick == {"end", "finish", "close", "writeDone", "writeFailed", "threw"}
Adapter == [life : {"none", "alive", "destroyed"}, errored : BOOLEAN,
            terminateOnDestroy : BOOLEAN, called : BOOLEAN,
            readable : {"open", "eof", "ending", "ended"},
            writable : {"open", "ending", "final", "answered", "finished"},
            write : {"none", "waits", "sent", "lost"}, answers : Nat, closed : Nat]

(* The parts below are said of a registry r, listeners t still to run, ticks *)
(* q still to come and an adapter d, for the steps of a function that has    *)
(* changed some of them already.                                             *)
Typed(r, t, q, d) ==
    r \in Registry /\ t \in Seq(AnyListener) /\ q \in Seq(Tick) /\ d \in Adapter

(* Where the close of a destroyed stream is: still to be heard from the      *)
(* socket, in a listener about to run, in a tick, or told.                   *)
CloseAt(place, r, t, q, d) ==
    /\ IF place = "socket" THEN Single(r.close, "destroyClose")
                           ELSE None(r.close, "destroyClose")
    /\ IF place = "listener" THEN Single(t, "destroyClose") ELSE None(t, "destroyClose")
    /\ IF place = "tick" THEN Single(q, "close") ELSE None(q, "close")
    /\ d.closed = IF place = "told" THEN 1 ELSE 0
    /\ d.answers = IF place \in {"tick", "told"} THEN 1 ELSE 0
    /\ place \in {"listener", "tick", "told"} => readyState = "CLOSED"

ClosePart(r, t, q, d) ==
    IF d.life = "destroyed"
    THEN \E place \in {"socket", "listener", "tick", "told"} : CloseAt(place, r, t, q, d)
    ELSE CloseAt("nowhere", r, t, q, d)

(* An error of the socket never reaches a stream that was destroyed before:  *)
(* by then the socket is closed, in the midst of that error, or over a       *)
(* transport, which raises none.                                             *)
ErrorUnheard(r) ==
    None(r.error, "destroyError") \/ failing \/ transport # "none" \/ readyState = "CLOSED"

ErrorPart(t, d) ==
    /\ ~d.called /\ None(t, "destroyError")
    /\ None(t, "error") \/ failing \/ readyState = "CLOSED"
    /\ d.terminateOnDestroy \/ d.life = "destroyed" \/ failing \/ readyState = "CLOSED"

(* Before there is a stream nobody listens.                                  *)
NoStream(r, t, d) ==
    d.life = "none" => /\ r.open = <<>> /\ r.error = <<>> /\ r.close = <<>>
                       /\ t \in Seq({"finally"}) /\ d.terminateOnDestroy

Sound(r, t, q, d) ==
    /\ Typed(r, t, q, d) /\ ClosePart(r, t, q, d)
    /\ ErrorUnheard(r) /\ ErrorPart(t, d) /\ NoStream(r, t, d)
    /\ readyState = "CLOSED" => r.close = <<>>

StreamInv == IInv /\ Sound(on, todo, ticks, duplex)

-----------------------------------------------------------------------------
(* The steps of the socket, adoption aside.                                  *)
SocketCall ==
    \/ SendStaged \/ SendCounted \/ controlFrame
    \/ \E code \in CloseCode, reason \in Reason : closeConnection(code, reason)
    \/ terminateConnection
    \/ \E paused \in BOOLEAN : SetPaused(paused)
    \/ Finally
    \/ StreamEnds \/ StreamErrs \/ StreamCloses
    \/ EngineCloses \/ EngineRecycles \/ ServerFinalized

(* What such a step does to the parts of the record the adapter relies on.   *)
Onward ==
    /\ readyState = "CLOSED" => readyState' = "CLOSED"
    /\ failing /\ ~failing' => readyState' = "CLOSED"
    /\ transport # "none" => transport' # "none"
    /\ failing' /\ ~failing => readyState = "OPEN" /\ attachment
    /\ readyState' = "OPEN" => readyState = "OPEN"

LEMMA CallIsNext == SocketCall => Next
BY DEF SocketCall, Next

LEMMA CallGoesOnward == ASSUME TypeOK, [SocketCall]_vars PROVE Onward
<1> USE DEF TypeOK, State, Transport, Onward
<1>1. CASE SendStaged \/ SendCounted \/ controlFrame
    BY <1>1 DEF SendStaged, SendCounted, controlFrame
<1>2. ASSUME NEW code \in CloseCode, NEW reason \in Reason, closeConnection(code, reason)
      PROVE  Onward
    BY <1>2 DEF closeConnection, finishConnection, CloseStaged, CloseTooLate,
                CloseFails, CloseThrows
<1>3. CASE terminateConnection
    BY <1>3 DEF terminateConnection, finishConnection
<1>4. ASSUME NEW paused \in BOOLEAN, SetPaused(paused) PROVE Onward
    BY <1>4 DEF SetPaused
<1>5. CASE Finally
    BY <1>5 DEF Finally, finishConnection
<1>6. CASE StreamEnds \/ StreamErrs \/ StreamCloses
    BY <1>6 DEF StreamEnds, StreamErrs, StreamCloses, finishConnection
<1>7. CASE EngineCloses \/ EngineRecycles \/ ServerFinalized
    BY <1>7 DEF EngineCloses, EngineRecycles, ServerFinalized
<1>8. CASE UNCHANGED vars
    BY <1>8 DEF vars
<1> QED BY <1>1, <1>2, <1>3, <1>4, <1>5, <1>6, <1>7, <1>8 DEF SocketCall

-----------------------------------------------------------------------------
(* Dispatch                                                                  *)

LEMMA Widen ==
    ASSUME NEW S, NEW T, S \subseteq T, NEW s \in Seq(S)
    PROVE  s \in Seq(T)
OBVIOUS

LEMMA RegistryParts ==
    ASSUME NEW r \in Registry
    PROVE  /\ r.open \in Seq(OpenListener) /\ r.error \in Seq(ErrorListener)
           /\ r.close \in Seq(CloseListener)
           /\ r.open \in Seq(AnyListener) /\ r.error \in Seq(AnyListener)
           /\ r.close \in Seq(AnyListener)
           /\ None(r.open, "destroyClose") /\ None(r.error, "destroyClose")
           /\ None(r.open, "error") /\ None(r.close, "error")
           /\ None(r.open, "destroyError") /\ None(r.close, "destroyError")
<1>1. r.open \in Seq(OpenListener) /\ r.error \in Seq(ErrorListener)
      /\ r.close \in Seq(CloseListener)
    BY DEF Registry
<1>2. /\ OpenListener \subseteq AnyListener /\ ErrorListener \subseteq AnyListener
      /\ CloseListener \subseteq AnyListener
    BY DEF AnyListener
<1>3. /\ "destroyClose" \notin OpenListener /\ "destroyClose" \notin ErrorListener
      /\ "error" \notin OpenListener /\ "error" \notin CloseListener
      /\ "destroyError" \notin OpenListener /\ "destroyError" \notin CloseListener
    BY DEF OpenListener, ErrorListener, CloseListener
<1> QED BY <1>1, <1>2, <1>3, Widen, NoneOfType

(* What Dispatch does, by what the step raised.                              *)
LEMMA DispatchCases ==
    ASSUME NEW r \in Registry, NEW t \in Seq(AnyListener), Dispatch(r, t)
    PROVE  \/ /\ readyState' = "OPEN" /\ readyState # "OPEN"
              /\ todo' = r.open \o t /\ on' = [r EXCEPT !.open = <<>>]
           \/ /\ readyState' = "CLOSED" /\ readyState # "CLOSED"
              /\ todo' = r.close \o t /\ on' = [r EXCEPT !.close = <<>>]
           \/ /\ failing' /\ ~failing
              /\ readyState' = "CLOSED" => readyState = "CLOSED"
              /\ todo' = (r.error \o <<"finally">>) \o t /\ on' = [r EXCEPT !.error = <<>>]
           \/ /\ readyState' = "CLOSED" => readyState = "CLOSED"
              /\ todo' = t /\ on' = r
<1>1. r.open \o <<>> = r.open /\ r.close \o <<>> = r.close
    BY RegistryParts
<1>2. CASE readyState' # readyState /\ readyState' = "OPEN"
    BY <1>1, <1>2 DEF Dispatch
<1>3. CASE readyState' # readyState /\ readyState' = "CLOSED"
    BY <1>1, <1>3 DEF Dispatch
<1>4. CASE /\ ~(readyState' # readyState /\ readyState' = "OPEN")
           /\ ~(readyState' # readyState /\ readyState' = "CLOSED")
           /\ failing' /\ ~failing
    BY <1>4 DEF Dispatch
<1>5. CASE /\ ~(readyState' # readyState /\ readyState' = "OPEN")
           /\ ~(readyState' # readyState /\ readyState' = "CLOSED")
           /\ ~(failing' /\ ~failing)
    BY <1>5 DEF Dispatch
<1> QED BY <1>2, <1>3, <1>4, <1>5

LEMMA RegistryUpdates ==
    ASSUME NEW r \in Registry
    PROVE  /\ \A s \in Seq(OpenListener) :
                  LET n == [r EXCEPT !.open = s]
                  IN  n \in Registry /\ n.open = s /\ n.error = r.error /\ n.close = r.close
           /\ \A s \in Seq(ErrorListener) :
                  LET n == [r EXCEPT !.error = s]
                  IN  n \in Registry /\ n.error = s /\ n.open = r.open /\ n.close = r.close
           /\ \A s \in Seq(CloseListener) :
                  LET n == [r EXCEPT !.close = s]
                  IN  n \in Registry /\ n.close = s /\ n.open = r.open /\ n.error = r.error
           /\ \A S : <<>> \in Seq(S)
<1>1. ASSUME NEW s \in Seq(OpenListener)
      PROVE  LET n == [r EXCEPT !.open = s]
             IN  n \in Registry /\ n.open = s /\ n.error = r.error /\ n.close = r.close
    BY DEF Registry
<1>2. ASSUME NEW s \in Seq(ErrorListener)
      PROVE  LET n == [r EXCEPT !.error = s]
             IN  n \in Registry /\ n.error = s /\ n.open = r.open /\ n.close = r.close
    BY DEF Registry
<1>3. ASSUME NEW s \in Seq(CloseListener)
      PROVE  LET n == [r EXCEPT !.close = s]
             IN  n \in Registry /\ n.close = s /\ n.open = r.open /\ n.error = r.error
    BY DEF Registry
<1>4. \A S : <<>> \in Seq(S)
    OBVIOUS
<1> QED BY <1>1, <1>2, <1>3, <1>4

LEMMA EmptyConcat == \A S : \A t \in Seq(S) : <<>> \o t = t
OBVIOUS

LEMMA ConcatType == \A S : \A s, t \in Seq(S) : s \o t \in Seq(S)
OBVIOUS

(* Whatever a step raises, its Dispatch leaves the stream sound when the     *)
(* registry, the rest and what it left of the stream were fit for the state  *)
(* it ends in.                                                               *)
LEMMA DispatchKeeps ==
    ASSUME TypeOK, NEW r, NEW t, NEW q, NEW d, Typed(r, t, q, d),
           ClosePart(r, t, q, d)', ErrorUnheard(r)', ErrorPart(t, d)', NoStream(r, t, d),
           readyState = "CLOSED" => r.close = <<>>,
           failing' /\ ~failing => None(r.error, "destroyError"),
           Dispatch(r, t), ticks' = q, duplex' = d
    PROVE  Sound(on, todo, ticks, duplex)'
<1>1. r \in Registry /\ t \in Seq(AnyListener) /\ q \in Seq(Tick) /\ d \in Adapter
    BY DEF Typed
<1> PICK rr : rr = on'
    OBVIOUS
<1> PICK tt : tt = todo'
    OBVIOUS
<1>2. Sound(rr, tt, q, d)'
    <2>1. CASE /\ readyState' = "OPEN" /\ readyState # "OPEN"
               /\ todo' = r.open \o t /\ on' = [r EXCEPT !.open = <<>>]
      <3>1. rr \in Registry /\ rr.open = <<>> /\ rr.error = r.error /\ rr.close = r.close
          BY <1>1, <2>1, RegistryUpdates
      <3>a. r.open \in Seq(AnyListener)
          BY <1>1, RegistryParts
      <3>2. tt \in Seq(AnyListener) /\ (r.open = <<>> => tt = t)
          BY <1>1, <2>1, <3>a, ConcatType, EmptyConcat
      <3>3. /\ None(t, "destroyClose") => None(tt, "destroyClose")
            /\ None(t, "destroyError") => None(tt, "destroyError")
            /\ None(t, "error") => None(tt, "error")
          BY <1>1, <2>1, RegistryParts, NoneConcat
      <3>4. ClosePart(rr, tt, q, d)'
          BY <2>1, <3>1, <3>3 DEF ClosePart, CloseAt
      <3>5. ErrorUnheard(rr)' /\ ErrorPart(tt, d)'
          BY <3>1, <3>3 DEF ErrorUnheard, ErrorPart
      <3>6. NoStream(rr, tt, d)'
          BY <3>1, <3>2 DEF NoStream
      <3> QED BY <1>1, <2>1, <3>1, <3>2, <3>4, <3>5, <3>6 DEF Sound, Typed
    <2>2. CASE /\ readyState' = "CLOSED" /\ readyState # "CLOSED"
               /\ todo' = r.close \o t /\ on' = [r EXCEPT !.close = <<>>]
      <3>1. rr \in Registry /\ rr.close = <<>> /\ rr.error = r.error /\ rr.open = r.open
          BY <1>1, <2>2, RegistryUpdates
      <3>a. r.close \in Seq(AnyListener)
          BY <1>1, RegistryParts
      <3>2. tt \in Seq(AnyListener) /\ (r.close = <<>> => tt = t)
          BY <1>1, <2>2, <3>a, ConcatType, EmptyConcat
      <3>3. /\ None(t, "destroyError") => None(tt, "destroyError")
            /\ None(t, "error") => None(tt, "error")
          BY <1>1, <2>2, RegistryParts, NoneConcat
      <3>4. ASSUME NEW place, CloseAt(place, r, t, q, d)'
            PROVE  CloseAt(IF place = "socket" THEN "listener" ELSE place, rr, tt, q, d)'
        <4>1. CASE place = "socket"
          <5>1. Single(tt, "destroyClose")
              BY <1>1, <2>2, <3>4, <4>1, RegistryParts, SingleConcat DEF CloseAt
          <5>2. None(rr.close, "destroyClose")
              BY <3>1, NoneEmpty
          <5> QED BY <2>2, <3>4, <4>1, <5>1, <5>2 DEF CloseAt
        <4>2. CASE place = "listener"
          <5>1. Single(tt, "destroyClose")
              BY <1>1, <2>2, <3>4, <4>2, RegistryParts, SingleConcat DEF CloseAt
          <5>2. None(rr.close, "destroyClose")
              BY <3>1, NoneEmpty
          <5> QED BY <2>2, <3>4, <4>2, <5>1, <5>2 DEF CloseAt
        <4>3. CASE place \notin {"socket", "listener"}
          <5>1. None(tt, "destroyClose")
              BY <1>1, <2>2, <3>4, <4>3, RegistryParts, NoneConcat DEF CloseAt
          <5>2. None(rr.close, "destroyClose")
              BY <3>1, NoneEmpty
          <5> QED BY <2>2, <3>4, <4>3, <5>1, <5>2 DEF CloseAt
        <4> QED BY <4>1, <4>2, <4>3
      <3>5. ClosePart(rr, tt, q, d)'
        <4>1. CASE d.life = "destroyed"
          <5>1. PICK place \in {"socket", "listener", "tick", "told"} :
                         CloseAt(place, r, t, q, d)'
              BY <4>1 DEF ClosePart
          <5>2. (IF place = "socket" THEN "listener" ELSE place)
                    \in {"socket", "listener", "tick", "told"}
              BY <5>1
          <5> QED BY <3>4, <4>1, <5>1, <5>2 DEF ClosePart
        <4>2. CASE d.life # "destroyed"
          <5>1. CloseAt("nowhere", r, t, q, d)'
              BY <4>2 DEF ClosePart
          <5>2. CloseAt("nowhere", rr, tt, q, d)'
              BY <3>4, <5>1
          <5> QED BY <4>2, <5>2 DEF ClosePart
        <4> QED BY <4>1, <4>2
      <3>6. ErrorUnheard(rr)' /\ ErrorPart(tt, d)'
          BY <2>2, <3>1, <3>3 DEF ErrorUnheard, ErrorPart
      <3>7. NoStream(rr, tt, d)'
          BY <3>1, <3>2 DEF NoStream
      <3> QED BY <1>1, <2>2, <3>1, <3>2, <3>5, <3>6, <3>7 DEF Sound, Typed
    <2>3. CASE /\ failing' /\ ~failing
               /\ readyState' = "CLOSED" => readyState = "CLOSED"
               /\ todo' = (r.error \o <<"finally">>) \o t
               /\ on' = [r EXCEPT !.error = <<>>]
      <3> PICK u : u = r.error \o <<"finally">>
          OBVIOUS
      <3>1. rr \in Registry /\ rr.error = <<>> /\ rr.open = r.open /\ rr.close = r.close
          BY <1>1, <2>3, RegistryUpdates
      <3>a. <<"finally">> \in Seq(AnyListener) /\ <<"finally">> \in Seq({"finally"})
          BY DEF AnyListener
      <3>b. /\ None(<<"finally">>, "destroyClose") /\ None(<<"finally">>, "destroyError")
            /\ None(<<"finally">>, "error")
          BY OneOf
      <3>c. u \in Seq(AnyListener) /\ None(u, "destroyClose") /\ None(u, "destroyError")
        <4>1. /\ r.error \in Seq(AnyListener) /\ None(r.error, "destroyClose")
              /\ None(r.error, "destroyError")
            BY <1>1, <2>3, RegistryParts
        <4> QED BY <4>1, <3>a, <3>b, ConcatType, NoneConcat
      <3>2. /\ tt \in Seq(AnyListener)
            /\ r.error = <<>> /\ t \in Seq({"finally"}) => tt \in Seq({"finally"})
          BY <1>1, <2>3, <3>a, <3>c, EmptyConcat
      <3>3. /\ None(t, "destroyClose") => None(tt, "destroyClose")
            /\ Single(t, "destroyClose") => Single(tt, "destroyClose")
            /\ None(t, "destroyError") => None(tt, "destroyError")
          BY <1>1, <2>3, <3>c, NoneConcat, SingleConcat
      <3>4. ClosePart(rr, tt, q, d)'
          BY <3>1, <3>3 DEF ClosePart, CloseAt
      <3>5. ErrorUnheard(rr)' /\ ErrorPart(tt, d)'
          BY <2>3, <3>1, <3>3 DEF ErrorUnheard, ErrorPart
      <3>6. NoStream(rr, tt, d)'
          BY <3>1, <3>2 DEF NoStream
      <3> QED BY <1>1, <2>3, <3>1, <3>2, <3>4, <3>5, <3>6 DEF Sound, Typed
    <2>4. CASE /\ readyState' = "CLOSED" => readyState = "CLOSED"
               /\ todo' = t /\ on' = r
        BY <1>1, <2>4 DEF Sound, Typed, ClosePart, CloseAt, ErrorUnheard, ErrorPart,
           NoStream
    <2> QED BY <1>1, <2>1, <2>2, <2>3, <2>4, DispatchCases
<1>3. on' = rr /\ todo' = tt
    OBVIOUS
<1> QED BY <1>2, <1>3 DEF Sound, Typed, ClosePart, CloseAt, ErrorUnheard, ErrorPart,
           NoStream

(* A step of the socket that adopts nothing keeps a sound stream sound.      *)
LEMMA OnwardKeeps ==
    ASSUME TypeOK, AdoptionInv, Onward, NEW r, NEW t, NEW q, NEW d,
           Sound(r, t, q, d), Dispatch(r, t), ticks' = q, duplex' = d
    PROVE  Sound(on, todo, ticks, duplex)'
<1>1. ClosePart(r, t, q, d)'
    BY DEF Sound, ClosePart, CloseAt, Onward
<1>2. ErrorUnheard(r)'
    BY DEF Sound, ErrorUnheard, Onward
<1>3. ErrorPart(t, d)'
    BY DEF Sound, ErrorPart, Onward
<1>4. failing' /\ ~failing => None(r.error, "destroyError")
    BY DEF Sound, ErrorUnheard, Onward, AdoptionInv
<1> QED BY <1>1, <1>2, <1>3, <1>4, DispatchKeeps DEF Sound

LEMMA CallKeeps ==
    ASSUME TypeOK, AdoptionInv, [SocketCall]_vars, NEW r, NEW t, NEW q, NEW d,
           Sound(r, t, q, d), Dispatch(r, t), ticks' = q, duplex' = d
    PROVE  Sound(on, todo, ticks, duplex)'
BY CallGoesOnward, OnwardKeeps

(* Adoption: before a socket has a stream, or connects.                      *)
LEMMA AdoptionKeeps ==
    ASSUME TypeOK, attachNativeSocket \/ attachSocket,
           duplex.life = "none" \/ readyState = "CONNECTING",
           Sound(on, <<>>, ticks, duplex), Dispatch(on, <<>>), UNCHANGED <<ticks, duplex>>
    PROVE  Sound(on, todo, ticks, duplex)'
<1> PICK r : r = on
    OBVIOUS
<1> PICK q : q = ticks
    OBVIOUS
<1> PICK d : d = duplex
    OBVIOUS
<1>1. Sound(r, <<>>, q, d)
    BY DEF Sound, Typed, ClosePart, CloseAt, ErrorUnheard, ErrorPart, NoStream
<1>2. /\ readyState' = "OPEN" /\ ~failing /\ ~failing'
      /\ transport # "none" => transport' # "none"
    BY DEF attachNativeSocket, attachSocket, TypeOK
<1>3. CASE d.life = "none"
    <2>1. ClosePart(r, <<>>, q, d)'
        BY <1>1, <1>3 DEF Sound, ClosePart, CloseAt
    <2>2. ErrorUnheard(r)'
        BY <1>1, <1>3, NoneEmpty DEF Sound, NoStream, ErrorUnheard
    <2>3. ErrorPart(<<>>, d)'
        BY <1>1, <1>3, NoneEmpty DEF Sound, NoStream, ErrorPart
    <2> QED BY <1>1, <1>2, <2>1, <2>2, <2>3, DispatchKeeps DEF Sound
<1>4. CASE readyState = "CONNECTING"
    <2>1. ClosePart(r, <<>>, q, d)'
        BY <1>1, <1>4 DEF Sound, ClosePart, CloseAt
    <2>2. ErrorUnheard(r)'
        BY <1>1, <1>2, <1>4 DEF Sound, ErrorUnheard
    <2>3. ErrorPart(<<>>, d)'
        BY <1>1, <1>2, <1>4 DEF Sound, ErrorPart
    <2> QED BY <1>1, <1>2, <2>1, <2>2, <2>3, DispatchKeeps DEF Sound
<1> QED BY <1>3, <1>4

-----------------------------------------------------------------------------
(* What the functions do to a sound stream before the socket's step.         *)

(* Flags of the adapter that concern neither its end nor its errors.         *)
Alike(e, d) ==
    /\ e \in Adapter /\ e.life = d.life /\ e.terminateOnDestroy = d.terminateOnDestroy
    /\ e.called = d.called /\ e.answers = d.answers /\ e.closed = d.closed

LEMMA SoundFlags ==
    ASSUME NEW r, NEW t, NEW q, NEW d, Sound(r, t, q, d), NEW e, Alike(e, d)
    PROVE  Sound(r, t, q, e)
BY Zenon DEF Alike, Sound, Typed, ClosePart, CloseAt, ErrorPart, NoStream

LEMMA FlagsKeep ==
    ASSUME NEW r, NEW t, NEW q, NEW d, Sound(r, t, q, d)
    PROVE  /\ \A x \in {"open", "eof", "ending", "ended"} :
                  Sound(r, t, q, [d EXCEPT !.readable = x])
           /\ \A x \in {"open", "ending", "final", "answered", "finished"} :
                  Sound(r, t, q, [d EXCEPT !.writable = x])
           /\ \A x \in {"none", "waits", "sent", "lost"} :
                  Sound(r, t, q, [d EXCEPT !.write = x])
           /\ \A x \in BOOLEAN : Sound(r, t, q, [d EXCEPT !.errored = x])
<1>0. d \in Adapter
    BY DEF Sound, Typed
<1>1. ASSUME NEW x \in {"open", "eof", "ending", "ended"}
      PROVE  Sound(r, t, q, [d EXCEPT !.readable = x])
    <2> PICK e : e = [d EXCEPT !.readable = x]
        OBVIOUS
    <2>1. Alike(e, d)
        BY <1>0 DEF Adapter, Alike
    <2> QED BY <2>1, SoundFlags
<1>2. ASSUME NEW x \in {"open", "ending", "final", "answered", "finished"}
      PROVE  Sound(r, t, q, [d EXCEPT !.writable = x])
    <2> PICK e : e = [d EXCEPT !.writable = x]
        OBVIOUS
    <2>1. Alike(e, d)
        BY <1>0 DEF Adapter, Alike
    <2> QED BY <2>1, SoundFlags
<1>3. ASSUME NEW x \in {"none", "waits", "sent", "lost"}
      PROVE  Sound(r, t, q, [d EXCEPT !.write = x])
    <2> PICK e : e = [d EXCEPT !.write = x]
        OBVIOUS
    <2>1. Alike(e, d)
        BY <1>0 DEF Adapter, Alike
    <2> QED BY <2>1, SoundFlags
<1>4. ASSUME NEW x \in BOOLEAN PROVE Sound(r, t, q, [d EXCEPT !.errored = x])
    <2> PICK e : e = [d EXCEPT !.errored = x]
        OBVIOUS
    <2>1. Alike(e, d)
        BY <1>0 DEF Adapter, Alike
    <2> QED BY <2>1, SoundFlags
<1> QED BY <1>1, <1>2, <1>3, <1>4

(* A tick that is not the close of the stream.                               *)
LEMMA SoundTick ==
    ASSUME NEW r, NEW t, NEW q, NEW d, Sound(r, t, q, d), NEW e \in Tick \ {"close"}
    PROVE  Sound(r, t, Append(q, e), d)
<1>1. q \in Seq(Tick) /\ e \in Tick /\ e # "close"
    BY DEF Sound, Typed
<1>2. Append(q, e) \in Seq(Tick)
    BY <1>1
<1>3. /\ None(q, "close") => None(Append(q, e), "close")
      /\ Single(q, "close") => Single(Append(q, e), "close")
    BY <1>1, NoneAppend, SingleAppend
<1>4. ClosePart(r, t, Append(q, e), d)
    BY <1>3 DEF Sound, ClosePart, CloseAt
<1> QED BY <1>2, <1>4 DEF Sound, Typed

(* A listener more that answers nothing by itself.                           *)
LEMMA SoundOpen ==
    ASSUME NEW r, NEW t, NEW q, NEW d, Sound(r, t, q, d), d.life # "none",
           NEW l \in OpenListener
    PROVE  Sound([r EXCEPT !.open = Append(@, l)], t, q, d)
<1> PICK n : n = [r EXCEPT !.open = Append(@, l)]
    OBVIOUS
<1>1. r \in Registry /\ Append(r.open, l) \in Seq(OpenListener)
    BY DEF Sound, Typed, Registry
<1>2. n \in Registry /\ n.error = r.error /\ n.close = r.close
    BY <1>1, RegistryUpdates
<1>3. Sound(n, t, q, d)
    BY <1>2 DEF Sound, Typed, ClosePart, CloseAt, ErrorUnheard, NoStream
<1> QED BY <1>3

LEMMA SoundFinal ==
    ASSUME NEW r, NEW t, NEW q, NEW d, Sound(r, t, q, d), d.life # "none",
           readyState # "CLOSED"
    PROVE  Sound([r EXCEPT !.close = Append(@, "final")], t, q, d)
<1> PICK n : n = [r EXCEPT !.close = Append(@, "final")]
    OBVIOUS
<1>1. r \in Registry /\ r.close \in Seq(CloseListener) /\ "final" \in CloseListener
    BY DEF Sound, Typed, Registry, CloseListener
<1>2. Append(r.close, "final") \in Seq(CloseListener)
    BY <1>1
<1>3. /\ n \in Registry /\ n.error = r.error /\ n.open = r.open
      /\ n.close = Append(r.close, "final")
    BY <1>1, <1>2, RegistryUpdates
<1>4. /\ None(r.close, "destroyClose") => None(n.close, "destroyClose")
      /\ Single(r.close, "destroyClose") => Single(n.close, "destroyClose")
    BY <1>1, <1>3, NoneAppend, SingleAppend
<1>5. ClosePart(n, t, q, d)
    BY <1>4 DEF Sound, ClosePart, CloseAt
<1>6. Sound(n, t, q, d)
    BY <1>3, <1>5 DEF Sound, Typed, ErrorUnheard, NoStream
<1> QED BY <1>6

(* The binding throws past the listeners of an event: of open, for no other  *)
(* is under way while the socket is OPEN and not failing.                    *)
LEMMA SoundUnwound ==
    ASSUME NEW r, NEW t, NEW q, NEW d, Sound(r, t, q, d), NEW b
    PROVE  Sound(r, Unwound(b, t), q, d)
<1>1. CASE Throws /\ b
    <2>1. readyState = "OPEN"
        BY <1>1 DEF Throws
    <2>2. ClosePart(r, <<>>, q, d)
        BY <2>1, NoneEmpty, NotBoth DEF Sound, ClosePart, CloseAt
    <2>3. ErrorPart(<<>>, d)
        BY NoneEmpty DEF Sound, ErrorPart
    <2>4. <<>> \in Seq(AnyListener) /\ <<>> \in Seq({"finally"})
        OBVIOUS
    <2>5. Sound(r, <<>>, q, d)
        BY <2>2, <2>3, <2>4 DEF Sound, Typed, NoStream
    <2> QED BY <1>1, <2>5 DEF Unwound
<1>2. CASE ~(Throws /\ b)
    BY <1>2 DEF Unwound
<1> QED BY <1>1, <1>2

(* Without the listener or the tick that runs.                               *)
LEMMA SoundListener ==
    ASSUME NEW r, NEW t, NEW q, NEW d, Sound(r, t, q, d), t # <<>>,
           Head(t) # "destroyClose"
    PROVE  Sound(r, Tail(t), q, d)
<1>1. t \in Seq(AnyListener)
    BY DEF Sound, Typed
<1>2. Tail(t) \in Seq(AnyListener) /\ (t \in Seq({"finally"}) => Tail(t) \in Seq({"finally"}))
    BY <1>1
<1>3. /\ None(t, "destroyClose") => None(Tail(t), "destroyClose")
      /\ Single(t, "destroyClose") => Single(Tail(t), "destroyClose")
      /\ None(t, "destroyError") => None(Tail(t), "destroyError")
      /\ None(t, "error") => None(Tail(t), "error")
    BY <1>1, Behind
<1>4. ClosePart(r, Tail(t), q, d)
    BY <1>3 DEF Sound, ClosePart, CloseAt
<1>5. ErrorPart(Tail(t), d) /\ NoStream(r, Tail(t), d)
    BY <1>2, <1>3 DEF Sound, ErrorPart, NoStream
<1> QED BY <1>2, <1>4, <1>5 DEF Sound, Typed

LEMMA SoundQueue ==
    ASSUME NEW r, NEW t, NEW q, NEW d, Sound(r, t, q, d), q # <<>>, Head(q) # "close"
    PROVE  Sound(r, t, Tail(q), d)
<1>1. q \in Seq(Tick)
    BY DEF Sound, Typed
<1>2. Tail(q) \in Seq(Tick)
    BY <1>1
<1>3. /\ None(q, "close") => None(Tail(q), "close")
      /\ Single(q, "close") => Single(Tail(q), "close")
    BY <1>1, Behind
<1>4. ClosePart(r, t, Tail(q), d)
    BY <1>3 DEF Sound, ClosePart, CloseAt
<1> QED BY <1>2, <1>4 DEF Sound, Typed

LEMMA QuietKeeps ==
    ASSUME TypeOK, AdoptionInv, NEW t, NEW q, NEW d, Sound(on, t, q, d),
           Quiet(t), ticks' = q, duplex' = d
    PROVE  [SocketCall]_vars /\ Sound(on, todo, ticks, duplex)'
<1> PICK r : r = on
    OBVIOUS
<1>1. Sound(r, t, q, d)
    BY DEF Sound, Typed, ClosePart, CloseAt, ErrorUnheard, NoStream
<1>2. UNCHANGED vars /\ Dispatch(r, t)
    BY DEF Quiet, Dispatch
<1> QED BY <1>1, <1>2, CallKeeps

(* Destroying a stream leaves exactly one place its close comes from.        *)
LEMMA DestroyKeeps ==
    ASSUME TypeOK, AdoptionInv, NEW t, NEW q, NEW d, Sound(on, t, q, d),
           destroy(d, t, q)
    PROVE  [SocketCall]_vars /\ Sound(on, todo, ticks, duplex)'
<1>0. /\ on \in Registry /\ t \in Seq(AnyListener) /\ q \in Seq(Tick) /\ d \in Adapter
    BY DEF Sound, Typed
<1>1. CASE d.life = "destroyed" /\ Quiet(t) /\ duplex' = d /\ ticks' = q
    BY <1>1, QuietKeeps
<1>2. ASSUME d.life = "alive", SocketGone, Quiet(t), ticks' = Append(q, "close"),
             duplex' = [d EXCEPT !.life = "destroyed", !.answers = @ + 1]
      PROVE  [SocketCall]_vars /\ Sound(on, todo, ticks, duplex)'
    <2> PICK e : e = [d EXCEPT !.life = "destroyed", !.answers = @ + 1]
        OBVIOUS
    <2> PICK p : p = Append(q, "close")
        OBVIOUS
    <2>1. CloseAt("nowhere", on, t, q, d) /\ readyState = "CLOSED"
        BY <1>2 DEF Sound, ClosePart, SocketGone
    <2>2. /\ e.life = "destroyed" /\ e.answers = 1 /\ e.closed = 0 /\ e.called = d.called
        BY <1>0, <2>1 DEF Adapter, CloseAt
    <2>3. d.answers + 1 \in Nat
        BY <1>0 DEF Adapter
    <2>4. e \in Adapter
        BY <1>0, <2>3 DEF Adapter
    <2>5. "close" \in Tick
        BY DEF Tick
    <2>6. p \in Seq(Tick) /\ Single(p, "close")
        BY <1>0, <2>1, <2>5, NoneAppend DEF CloseAt
    <2>7. CloseAt("tick", on, t, p, e)
        BY <2>1, <2>2, <2>6 DEF CloseAt
    <2>8. ClosePart(on, t, p, e)
        BY <2>2, <2>7 DEF ClosePart
    <2>9. ErrorPart(t, e)
        BY <2>2 DEF Sound, ErrorPart
    <2>10. Sound(on, t, p, e)
        BY <2>2, <2>4, <2>6, <2>8, <2>9 DEF Sound, Typed, NoStream
    <2> QED BY <1>2, <2>10, QuietKeeps
<1>3. ASSUME d.life = "alive", ~SocketGone,
             IF terminates(d) THEN terminateConnection ELSE UNCHANGED vars,
             Dispatch([on EXCEPT !.error = Append(@, "destroyError"),
                                 !.close = Append(@, "destroyClose")], t),
             duplex' = [d EXCEPT !.life = "destroyed"], ticks' = q
      PROVE  [SocketCall]_vars /\ Sound(on, todo, ticks, duplex)'
    <2> PICK r : r = [on EXCEPT !.error = Append(@, "destroyError"),
                                !.close = Append(@, "destroyClose")]
        OBVIOUS
    <2> PICK e : e = [d EXCEPT !.life = "destroyed"]
        OBVIOUS
    <2>1. CloseAt("nowhere", on, t, q, d) /\ readyState # "CLOSED"
        BY <1>3 DEF Sound, ClosePart, SocketGone
    <2>2. /\ e.life = "destroyed" /\ e.answers = 0 /\ e.closed = 0 /\ e.called = d.called
        BY <1>0, <2>1 DEF Adapter, CloseAt
    <2>3. e \in Adapter
        BY <1>0 DEF Adapter
    <2>4. /\ on.close \in Seq(CloseListener) /\ "destroyClose" \in CloseListener
          /\ on.error \in Seq(ErrorListener) /\ "destroyError" \in ErrorListener
        BY <1>0 DEF Registry, CloseListener, ErrorListener
    <2>5. /\ Append(on.close, "destroyClose") \in Seq(CloseListener)
          /\ Append(on.error, "destroyError") \in Seq(ErrorListener)
        BY <2>4
    <2>6. r \in Registry /\ r.close = Append(on.close, "destroyClose")
        BY <1>0, <2>5 DEF Registry
    <2>7. Single(r.close, "destroyClose")
        BY <2>1, <2>4, <2>6, NoneAppend DEF CloseAt
    <2>8. CloseAt("socket", r, t, q, e)'
        BY <2>1, <2>2, <2>7 DEF CloseAt
    <2>9. ClosePart(r, t, q, e)'
        BY <2>2, <2>8 DEF ClosePart
    <2>10. failing' = failing /\ (failing' \/ transport' # "none" \/ readyState' = "CLOSED")
        <3>1. CASE terminates(d)
            BY <1>3, <2>1, <3>1 DEF terminateConnection, finishConnection
        <3>2. CASE ~terminates(d)
            <4>1. ~d.terminateOnDestroy
                BY <2>1, <3>2 DEF terminates
            <4>2. failing
                BY <1>3, <2>1, <4>1 DEF Sound, ErrorPart
            <4> QED BY <1>3, <3>2, <4>2 DEF vars
        <3> QED BY <3>1, <3>2
    <2>11. ErrorUnheard(r)'
        BY <2>10 DEF ErrorUnheard
    <2>12. ErrorPart(t, e)'
        BY <2>1, <2>2, <2>10 DEF Sound, ErrorPart
    <2>13. Typed(r, t, q, e) /\ NoStream(r, t, e)
        BY <1>0, <2>2, <2>3, <2>6 DEF Typed, NoStream
    <2>14. Sound(on, todo, ticks, duplex)'
        BY <1>3, <2>1, <2>9, <2>10, <2>11, <2>12, <2>13, DispatchKeeps
    <2>15. [SocketCall]_vars
        BY <1>3 DEF SocketCall
    <2> QED BY <2>14, <2>15
<1> QED BY <1>1, <1>2, <1>3 DEF destroy

LEMMA FinalCallbackKeeps ==
    ASSUME TypeOK, AdoptionInv, NEW t, NEW q, NEW d, Sound(on, t, q, d),
           finalCallback(d, t, q)
    PROVE  [SocketCall]_vars /\ Sound(on, todo, ticks, duplex)'
<1>1. CASE d.life = "alive" /\ ~d.errored /\ d.writable = "final"
    <2> PICK e : e = [d EXCEPT !.writable = "answered"]
        OBVIOUS
    <2> PICK p : p = Append(q, "finish")
        OBVIOUS
    <2>1. Sound(on, t, q, e)
        BY FlagsKeep
    <2>2. "finish" \in Tick \ {"close"}
        BY DEF Tick
    <2>3. Sound(on, t, p, e)
        BY <2>1, <2>2, SoundTick
    <2> QED BY <1>1, <2>3, QuietKeeps DEF finalCallback
<1>2. CASE ~(d.life = "alive" /\ ~d.errored /\ d.writable = "final")
    BY <1>2, QuietKeeps DEF finalCallback
<1> QED BY <1>1, <1>2

LEMMA FinalKeeps ==
    ASSUME TypeOK, AdoptionInv, NEW t, NEW q, NEW d, NEW b \in BOOLEAN,
           Sound(on, t, q, d), d.life # "none", final(d, b, t, q)
    PROVE  [SocketCall]_vars /\ Sound(on, todo, ticks, duplex)'
<1>1. ASSUME readyState = "CONNECTING", UNCHANGED vars,
             Dispatch(Once("open", "openFinal"), t), duplex' = d, ticks' = q
      PROVE  [SocketCall]_vars /\ Sound(on, todo, ticks, duplex)'
    <2> PICK r : r = Once("open", "openFinal")
        OBVIOUS
    <2>1. "openFinal" \in OpenListener
        BY DEF OpenListener
    <2>2. r = [on EXCEPT !.open = Append(@, "openFinal")]
        BY DEF Once
    <2>3. Sound(r, t, q, d)
        BY <2>1, <2>2, SoundOpen
    <2> QED BY <1>1, <2>3, CallKeeps
<1>2. CASE finalCallback(d, t, q)
    BY <1>2, FinalCallbackKeeps
<1>3. ASSUME readyState # "CONNECTING", ~SocketGone,
             \/ closeConnection(CLOSE_NORMAL, "absent")
             \/ readyState \in {"CLOSING", "CLOSED"} /\ UNCHANGED vars,
             Dispatch(Once("close", "final"), Unwound(b, t)),
             LET caught == Throws /\ ~b
             IN  /\ duplex' = [d EXCEPT !.errored = @ \/ caught]
                 /\ ticks' = IF caught THEN Append(q, "threw") ELSE q
      PROVE  [SocketCall]_vars /\ Sound(on, todo, ticks, duplex)'
    <2> PICK r : r = Once("close", "final")
        OBVIOUS
    <2> PICK u : u = Unwound(b, t)
        OBVIOUS
    <2> PICK e : e = [d EXCEPT !.errored = @ \/ (Throws /\ ~b)]
        OBVIOUS
    <2> PICK p : p = IF Throws /\ ~b THEN Append(q, "threw") ELSE q
        OBVIOUS
    <2>1. r = [on EXCEPT !.close = Append(@, "final")]
        BY DEF Once
    <2>2. "threw" \in Tick \ {"close"}
        BY DEF Tick
    <2>3. d \in Adapter
        BY DEF Sound, Typed
    <2>4. (d.errored \/ (Throws /\ ~b)) \in BOOLEAN
        OBVIOUS
    <2>5. e.life = d.life
        BY <2>3 DEF Adapter
    <2>6. Sound(on, t, q, e)
        BY <2>4, FlagsKeep
    <2>7. Sound(on, t, p, e)
        BY <2>2, <2>6, SoundTick
    <2>8. Sound(on, u, p, e)
        BY <2>7, SoundUnwound
    <2>9. readyState # "CLOSED" /\ e.life # "none"
        BY <1>3, <2>5 DEF SocketGone
    <2>a. Sound([on EXCEPT !.close = Append(@, "final")], u, p, e)
        BY <2>8, <2>9, SoundFinal
    <2>10. Sound(r, u, p, e)
        BY <2>1, <2>a
    <2>11. CLOSE_NORMAL \in CloseCode /\ "absent" \in Reason
        BY StreamAssumption DEF StreamAssumption, Reason
    <2>12. [SocketCall]_vars
        BY <1>3, <2>11 DEF SocketCall
    <2>13. duplex' = e /\ ticks' = p /\ Dispatch(r, u)
        BY <1>3
    <2> QED BY <2>10, <2>12, <2>13, CallKeeps
<1> QED BY <1>1, <1>2, <1>3 DEF final

LEMMA WriteKeeps ==
    ASSUME TypeOK, AdoptionInv, NEW t, NEW q, NEW d, NEW b \in BOOLEAN,
           Sound(on, t, q, d), d.life # "none", write(d, b, t, q)
    PROVE  [SocketCall]_vars /\ Sound(on, todo, ticks, duplex)'
<1>0. d \in Adapter
    BY DEF Sound, Typed
<1>1. ASSUME NEW w \in {"none", "waits", "sent", "lost"}
      PROVE  Sound(on, t, q, [d EXCEPT !.write = w])
    BY FlagsKeep
<1>a. ASSUME NEW w \in {"none", "waits", "sent", "lost"}
      PROVE  [d EXCEPT !.write = w].life # "none"
    BY <1>0 DEF Adapter
<1>2. ASSUME UNCHANGED vars, Dispatch(Once("open", "openWrite"), t),
             duplex' = [d EXCEPT !.write = "waits"], ticks' = q
      PROVE  [SocketCall]_vars /\ Sound(on, todo, ticks, duplex)'
    <2> PICK r : r = Once("open", "openWrite")
        OBVIOUS
    <2> PICK e : e = [d EXCEPT !.write = "waits"]
        OBVIOUS
    <2>1. "openWrite" \in OpenListener
        BY DEF OpenListener
    <2>2. r = [on EXCEPT !.open = Append(@, "openWrite")]
        BY DEF Once
    <2>3. Sound(on, t, q, e) /\ e.life # "none"
        BY <1>1, <1>a
    <2>4. Sound([on EXCEPT !.open = Append(@, "openWrite")], t, q, e)
        BY <2>1, <2>3, SoundOpen
    <2>5. Sound(r, t, q, e)
        BY <2>2, <2>4
    <2> QED BY <1>2, <2>5, CallKeeps
<1>3. ASSUME NEW w \in {"sent"}, NEW k \in {"writeDone", "writeFailed"},
             SendStaged \/ SendCounted \/ UNCHANGED vars, Dispatch(on, t),
             duplex' = [d EXCEPT !.write = w], ticks' = Append(q, k)
      PROVE  [SocketCall]_vars /\ Sound(on, todo, ticks, duplex)'
    <2> PICK r : r = on
        OBVIOUS
    <2> PICK e : e = [d EXCEPT !.write = w]
        OBVIOUS
    <2> PICK p : p = Append(q, k)
        OBVIOUS
    <2>1. k \in Tick \ {"close"}
        BY DEF Tick
    <2>2. Sound(r, t, p, e)
        BY <1>1, <2>1, SoundTick
    <2>3. [SocketCall]_vars /\ Dispatch(r, t)
        BY <1>3 DEF SocketCall
    <2> QED BY <1>3, <2>2, <2>3, CallKeeps
<1>4. ASSUME Quiet(Unwound(b, t)), duplex' = [d EXCEPT !.write = "lost"], ticks' = q
      PROVE  [SocketCall]_vars /\ Sound(on, todo, ticks, duplex)'
    <2> PICK e : e = [d EXCEPT !.write = "lost"]
        OBVIOUS
    <2> PICK u : u = Unwound(b, t)
        OBVIOUS
    <2>1. Sound(on, u, q, e)
        BY <1>1, SoundUnwound
    <2> QED BY <1>4, <2>1, QuietKeeps
<1> QED BY <1>2, <1>3, <1>4 DEF write

(* A step of the socket that raises nothing.                                 *)
LEMMA StillKeeps ==
    ASSUME TypeOK, AdoptionInv, [SocketCall]_vars, NEW q, NEW d,
           Sound(on, todo, q, d), UNCHANGED <<readyState, failing, on, todo>>,
           ticks' = q, duplex' = d
    PROVE  Sound(on, todo, ticks, duplex)'
<1>1. Dispatch(on, todo)
    BY DEF Dispatch
<1> QED BY <1>1, CallKeeps

-----------------------------------------------------------------------------
(* Listeners                                                                 *)
LEMMA ListenerKeeps ==
    ASSUME TypeOK, AdoptionInv, Sound(on, todo, ticks, duplex), RunListener
    PROVE  [SocketCall]_vars /\ Sound(on, todo, ticks, duplex)'
<1> PICK l : l = Head(todo)
    OBVIOUS
<1> PICK t : t = Tail(todo)
    OBVIOUS
<1>1. /\ todo # <<>> /\ Listener(l) /\ todo \in Seq(AnyListener)
      /\ ticks \in Seq(Tick) /\ duplex \in Adapter
    BY DEF RunListener, Sound, Typed
<1>2. l \in AnyListener
    BY <1>1
<1>3. l # "destroyClose" => Sound(on, t, ticks, duplex)
    BY <1>1, SoundListener
<1>4. l # "finally" => duplex.life # "none"
    <2>1. ASSUME todo \in Seq({"finally"}) PROVE l = "finally"
        BY <1>1, <2>1
    <2> QED BY <2>1 DEF Sound, NoStream
<1>5. CASE l = "error"
    <2>1. CASE duplex.life = "destroyed"
        <3>1. Quiet(t) /\ UNCHANGED <<ticks, duplex>>
            BY <1>1, <1>5, <2>1 DEF Listener
        <3> QED BY <1>3, <1>5, <3>1, QuietKeeps
    <2>2. CASE duplex.life # "destroyed"
        <3> PICK e : e = [duplex EXCEPT !.terminateOnDestroy = FALSE, !.errored = TRUE]
            OBVIOUS
        <3>1. destroy(e, t, ticks)
            BY <1>1, <1>5, <2>2 DEF Listener
        <3>2. /\ e \in Adapter /\ e.life = duplex.life /\ e.called = duplex.called
              /\ e.answers = duplex.answers /\ e.closed = duplex.closed
            BY <1>1 DEF Adapter
        <3>3. failing \/ readyState = "CLOSED"
            <4>1. ~None(todo, "error")
                BY <1>1, <1>5, Behind
            <4> QED BY <4>1 DEF Sound, ErrorPart
        <3>4. Sound(on, t, ticks, duplex)
            BY <1>3, <1>5
        <3>5. ErrorPart(t, e)
            BY <3>2, <3>3, <3>4 DEF Sound, ErrorPart
        <3>6. ClosePart(on, t, ticks, e)
            BY <3>2, <3>4 DEF Sound, ClosePart, CloseAt
        <3>7. NoStream(on, t, e)
            BY <1>4, <1>5, <3>2 DEF NoStream
        <3>8. Sound(on, t, ticks, e)
            BY <3>2, <3>4, <3>5, <3>6, <3>7 DEF Sound, Typed
        <3> QED BY <3>1, <3>8, DestroyKeeps
    <2> QED BY <2>1, <2>2
<1>6. CASE l = "eof"
    <2>1. Quiet(t) /\ \/ UNCHANGED <<ticks, duplex>>
                      \/ /\ duplex' = [duplex EXCEPT !.readable = "ending"]
                         /\ ticks' = Append(ticks, "end")
                      \/ duplex' = [duplex EXCEPT !.readable = "eof"] /\ UNCHANGED ticks
        BY <1>1, <1>6 DEF Listener
    <2>2. /\ Sound(on, t, ticks, [duplex EXCEPT !.readable = "ending"])
          /\ Sound(on, t, ticks, [duplex EXCEPT !.readable = "eof"])
        BY <1>3, <1>6, FlagsKeep
    <2>3. "end" \in Tick \ {"close"}
        BY DEF Tick
    <2>4. Sound(on, t, Append(ticks, "end"), [duplex EXCEPT !.readable = "ending"])
        BY <2>2, <2>3, SoundTick
    <2>5. CASE UNCHANGED <<ticks, duplex>>
        BY <1>3, <1>6, <2>1, <2>5, QuietKeeps
    <2>6. CASE /\ duplex' = [duplex EXCEPT !.readable = "ending"]
               /\ ticks' = Append(ticks, "end")
        BY <2>1, <2>4, <2>6, QuietKeeps
    <2>7. CASE duplex' = [duplex EXCEPT !.readable = "eof"] /\ UNCHANGED ticks
        BY <2>1, <2>2, <2>7, QuietKeeps
    <2> QED BY <2>1, <2>5, <2>6, <2>7
<1>7. l # "destroyError"
    <2>1. None(todo, "destroyError")
        BY DEF Sound, ErrorPart
    <2> QED BY <1>1, <2>1, Behind
<1>8. CASE l = "destroyClose"
    <2> PICK e : e = [duplex EXCEPT !.answers = @ + 1]
        OBVIOUS
    <2> PICK p : p = Append(ticks, "close")
        OBVIOUS
    <2>1. Quiet(t) /\ duplex' = e /\ ticks' = p
        BY <1>1, <1>8 DEF Listener, Sound, ErrorPart
    <2>2. ~None(todo, "destroyClose")
        BY <1>1, <1>8, Behind
    <2>3. duplex.life = "destroyed" /\ CloseAt("listener", on, todo, ticks, duplex)
        BY <2>2 DEF Sound, ClosePart, CloseAt
    <2>4. Single(todo, "destroyClose")
        BY <2>3 DEF CloseAt
    <2>5. t \in Seq(AnyListener) /\ None(t, "destroyClose")
        BY <1>1, <1>8, <2>4, Behind
    <2>6. /\ None(todo, "destroyError") => None(t, "destroyError")
          /\ None(todo, "error") => None(t, "error")
        BY <1>1, Behind
    <2>7. duplex.answers = 0 /\ duplex.closed = 0 /\ readyState = "CLOSED"
        BY <2>3 DEF CloseAt
    <2>8. e \in Adapter /\ e.answers = 1 /\ e.closed = 0 /\ e.life = "destroyed"
          /\ e.called = duplex.called /\ e.terminateOnDestroy = duplex.terminateOnDestroy
        BY <1>1, <2>3, <2>7 DEF Adapter
    <2>9. "close" \in Tick /\ None(ticks, "close")
        BY <2>3 DEF Tick, CloseAt
    <2>10. p \in Seq(Tick) /\ Single(p, "close")
        BY <1>1, <2>9, NoneAppend
    <2>11. CloseAt("tick", on, t, p, e)
        BY <2>3, <2>5, <2>7, <2>8, <2>10 DEF CloseAt
    <2>12. ClosePart(on, t, p, e)
        BY <2>8, <2>11 DEF ClosePart
    <2>13. ErrorPart(t, e) /\ NoStream(on, t, e)
        BY <2>6, <2>8 DEF Sound, ErrorPart, NoStream
    <2>14. Sound(on, t, p, e)
        BY <2>5, <2>8, <2>10, <2>12, <2>13 DEF Sound, Typed
    <2> QED BY <2>1, <2>14, QuietKeeps
<1>9. CASE l = "final"
    BY <1>1, <1>3, <1>9, FinalCallbackKeeps DEF Listener
<1>10. CASE l = "openFinal"
    <2>1. final(duplex, TRUE, t, ticks)
        BY <1>1, <1>10 DEF Listener
    <2> QED BY <1>3, <1>4, <1>10, <2>1, FinalKeeps
<1>11. CASE l = "openWrite"
    <2>1. write(duplex, TRUE, t, ticks)
        BY <1>1, <1>11 DEF Listener
    <2> QED BY <1>3, <1>4, <1>11, <2>1, WriteKeeps
<1>12. CASE l = "finally"
    <2>1. Finally /\ Dispatch(on, t) /\ UNCHANGED <<ticks, duplex>>
        BY <1>1, <1>12 DEF Listener
    <2>2. [SocketCall]_vars
        BY <2>1 DEF SocketCall
    <2> QED BY <1>3, <1>12, <2>1, <2>2, CallKeeps
<1> QED BY <1>2, <1>5, <1>6, <1>7, <1>8, <1>9, <1>10, <1>11, <1>12
        DEF AnyListener, OpenListener, ErrorListener, CloseListener

-----------------------------------------------------------------------------
(* Ticks                                                                     *)
LEMMA TickKeeps ==
    ASSUME TypeOK, AdoptionInv, Sound(on, todo, ticks, duplex), RunTick
    PROVE  [SocketCall]_vars /\ Sound(on, todo, ticks, duplex)'
<1> PICK k : k = Head(ticks)
    OBVIOUS
<1> PICK q : q = Tail(ticks)
    OBVIOUS
<1>1. /\ ticks # <<>> /\ TickOf(k) /\ ticks \in Seq(Tick) /\ duplex \in Adapter
    BY DEF RunTick, Sound, Typed
<1>2. k \in Tick
    BY <1>1
<1>3. k # "close" => Sound(on, todo, q, duplex)
    BY <1>1, SoundQueue
<1>4. CASE k = "end"
    <2> PICK e : e = IF duplex.errored THEN duplex ELSE [duplex EXCEPT !.readable = "ended"]
        OBVIOUS
    <2>1. destroy(e, todo, q) \/ (Quiet(todo) /\ duplex' = e /\ ticks' = q)
        BY <1>1, <1>4 DEF TickOf
    <2>2. Sound(on, todo, q, e)
        BY <1>3, <1>4, FlagsKeep
    <2> QED BY <2>1, <2>2, DestroyKeeps, QuietKeeps
<1>5. CASE k = "finish"
    <2> PICK e : e = [duplex EXCEPT !.writable = "finished"]
        OBVIOUS
    <2>1. Quiet(todo) /\ duplex' = e /\ ticks' = q
        BY <1>1, <1>5 DEF TickOf
    <2>2. Sound(on, todo, q, e)
        BY <1>3, <1>5, FlagsKeep
    <2> QED BY <2>1, <2>2, QuietKeeps
<1>6. CASE k = "close"
    <2> PICK e : e = [duplex EXCEPT !.closed = @ + 1]
        OBVIOUS
    <2>1. Quiet(todo) /\ duplex' = e /\ ticks' = q
        BY <1>1, <1>6 DEF TickOf
    <2>2. ~None(ticks, "close")
        BY <1>1, <1>6, Behind
    <2>3. duplex.life = "destroyed" /\ CloseAt("tick", on, todo, ticks, duplex)
        BY <2>2 DEF Sound, ClosePart, CloseAt
    <2>4. Single(ticks, "close") /\ duplex.closed = 0
        BY <2>3 DEF CloseAt
    <2>5. q \in Seq(Tick) /\ None(q, "close")
        BY <1>1, <1>6, <2>4, Behind
    <2>a. e = [duplex EXCEPT !.closed = 1]
        BY <2>4
    <2>6. /\ e \in Adapter /\ e.closed = 1 /\ e.life = duplex.life
          /\ e.answers = duplex.answers /\ e.called = duplex.called
          /\ e.terminateOnDestroy = duplex.terminateOnDestroy
        BY <1>1, <2>a DEF Adapter
    <2>7. CloseAt("told", on, todo, q, e)
        BY <2>3, <2>5, <2>6 DEF CloseAt
    <2>8. ClosePart(on, todo, q, e)
        BY <2>3, <2>6, <2>7 DEF ClosePart
    <2>9. ErrorPart(todo, e) /\ NoStream(on, todo, e)
        BY <2>6 DEF Sound, ErrorPart, NoStream
    <2>10. Sound(on, todo, q, e)
        BY <2>5, <2>6, <2>8, <2>9 DEF Sound, Typed
    <2> QED BY <2>1, <2>10, QuietKeeps
<1>7. CASE k = "writeDone"
    <2>1. CASE Here /\ duplex.writable = "ending"
        <3> PICK e : e = [duplex EXCEPT !.write = "none"]
            OBVIOUS
        <3> PICK f : f = [e EXCEPT !.writable = "final"]
            OBVIOUS
        <3>1. f = [duplex EXCEPT !.write = "none", !.writable = "final"]
            BY <1>1 DEF Adapter
        <3>2. final(f, FALSE, todo, q)
            BY <1>1, <1>7, <2>1, <3>1 DEF TickOf
        <3>3. Sound(on, todo, q, e)
            BY <1>3, <1>7, FlagsKeep
        <3>4. Sound(on, todo, q, f)
            BY <3>3, FlagsKeep
        <3>5. f.life # "none"
            BY <1>1, <2>1, <3>1 DEF Adapter, Here
        <3> QED BY <3>2, <3>4, <3>5, FinalKeeps
    <2>2. CASE ~(Here /\ duplex.writable = "ending")
        <3> PICK e : e = [duplex EXCEPT !.write = "none"]
            OBVIOUS
        <3>1. Quiet(todo) /\ duplex' = e /\ ticks' = q
            BY <1>1, <1>7, <2>2 DEF TickOf
        <3>2. Sound(on, todo, q, e)
            BY <1>3, <1>7, FlagsKeep
        <3> QED BY <3>1, <3>2, QuietKeeps
    <2> QED BY <2>1, <2>2
<1>8. CASE k \in {"writeFailed", "threw"}
    <2> PICK e : e = [duplex EXCEPT !.errored = TRUE]
        OBVIOUS
    <2>1. destroy(e, todo, q)
        BY <1>1, <1>8 DEF TickOf
    <2>2. Sound(on, todo, q, e)
        BY <1>3, <1>8, FlagsKeep
    <2> QED BY <2>1, <2>2, DestroyKeeps
<1> QED BY <1>2, <1>4, <1>5, <1>6, <1>7, <1>8 DEF Tick

-----------------------------------------------------------------------------
(* The invariant                                                             *)
LEMMA InitStreamInv == StreamInit => StreamInv
<1> SUFFICES ASSUME StreamInit PROVE StreamInv
    OBVIOUS
<1>1. IInv
    BY InitIInv DEF StreamInit
<1>2. on = [open |-> <<>>, error |-> <<>>, close |-> <<>>] /\ todo = <<>> /\ ticks = <<>>
    BY DEF StreamInit
<1>3. /\ <<>> \in Seq(OpenListener) /\ <<>> \in Seq(ErrorListener)
      /\ <<>> \in Seq(CloseListener) /\ <<>> \in Seq(AnyListener) /\ <<>> \in Seq(Tick)
      /\ <<>> \in Seq({"finally"})
    OBVIOUS
<1>4. duplex \in Adapter
    BY DEF StreamInit, Adapter
<1>5. /\ on \in Registry /\ on.open = <<>> /\ on.error = <<>> /\ on.close = <<>>
    BY <1>2, <1>3 DEF Registry
<1>6. /\ duplex.life = "none" /\ ~duplex.called /\ duplex.terminateOnDestroy
      /\ duplex.closed = 0 /\ duplex.answers = 0
    BY DEF StreamInit
<1>7. ClosePart(on, todo, ticks, duplex)
    BY <1>2, <1>5, <1>6, NoneEmpty DEF ClosePart, CloseAt
<1>8. ErrorUnheard(on) /\ ErrorPart(todo, duplex) /\ NoStream(on, todo, duplex)
    BY <1>2, <1>3, <1>5, <1>6, NoneEmpty DEF ErrorUnheard, ErrorPart, NoStream
<1> QED BY <1>1, <1>2, <1>3, <1>4, <1>5, <1>7, <1>8 DEF StreamInv, Sound, Typed

LEMMA CreateKeeps ==
    ASSUME Sound(on, todo, ticks, duplex), createWebSocketStream
    PROVE  Sound(on, todo, ticks, duplex)'
<1> PICK r : r = [on EXCEPT !.error = <<"error">>, !.close = <<"eof">>]
    OBVIOUS
<1> PICK d : d = [duplex EXCEPT !.life = "alive"]
    OBVIOUS
<1>1. /\ on' = r /\ duplex' = d /\ UNCHANGED <<readyState, transport, failing, todo, ticks>>
      /\ duplex.life = "none" /\ readyState # "CLOSED"
    BY DEF createWebSocketStream, vars
<1>2. /\ on \in Registry /\ duplex \in Adapter /\ todo \in Seq(AnyListener)
      /\ ticks \in Seq(Tick)
    BY DEF Sound, Typed
<1>3. /\ "error" \in ErrorListener /\ "eof" \in CloseListener
    BY DEF ErrorListener, CloseListener
<1>4. <<"error">> \in Seq(ErrorListener) /\ <<"eof">> \in Seq(CloseListener)
    BY <1>3
<1>5. r \in Registry /\ r.error = <<"error">> /\ r.close = <<"eof">>
    BY <1>2, <1>4 DEF Registry
<1>6. /\ d \in Adapter /\ d.life = "alive" /\ d.called = duplex.called
      /\ d.answers = duplex.answers /\ d.closed = duplex.closed
      /\ d.terminateOnDestroy = duplex.terminateOnDestroy
    BY <1>2 DEF Adapter
<1>7. None(r.error, "destroyError") /\ None(r.close, "destroyClose")
    BY <1>5, OneOf
<1>8. CloseAt("nowhere", on, todo, ticks, duplex)
    BY <1>1 DEF Sound, ClosePart
<1>9. CloseAt("nowhere", r, todo, ticks, d)
    BY <1>6, <1>7, <1>8 DEF CloseAt
<1>10. ErrorUnheard(r)
    BY <1>7 DEF ErrorUnheard
<1>a. duplex.terminateOnDestroy /\ ~duplex.called
    BY <1>1 DEF Sound, NoStream, ErrorPart
<1>b. d.terminateOnDestroy /\ ~d.called
    BY <1>6, <1>a
<1>11. ErrorPart(todo, d) /\ NoStream(r, todo, d)
    BY <1>6, <1>b DEF Sound, ErrorPart, NoStream
<1>12. ClosePart(r, todo, ticks, d)
    BY <1>6, <1>9 DEF ClosePart
<1>13. Sound(r, todo, ticks, d)
    BY <1>1, <1>2, <1>5, <1>6, <1>10, <1>11, <1>12 DEF Sound, Typed
<1> QED BY <1>1, <1>13
        DEF Sound, Typed, ClosePart, CloseAt, ErrorUnheard, ErrorPart, NoStream

(* What the application calls.                                               *)
LEMMA ApplicationKeeps ==
    ASSUME TypeOK, AdoptionInv, Sound(on, todo, ticks, duplex), Application
    PROVE  [SocketCall]_vars /\ Sound(on, todo, ticks, duplex)'
<1>0. duplex \in Adapter
    BY DEF Sound, Typed
<1>1. CASE Write
    BY <1>1, WriteKeeps DEF Write, Here
<1>2. CASE End
    <2> PICK d : d = [duplex EXCEPT !.writable = "final"]
        OBVIOUS
    <2> PICK e : e = [duplex EXCEPT !.writable = "ending"]
        OBVIOUS
    <2>1. Sound(on, todo, ticks, d) /\ Sound(on, todo, ticks, e)
        BY FlagsKeep
    <2>2. d.life # "none"
        BY <1>0, <1>2 DEF Adapter, End, Here
    <2>3. CASE final(d, FALSE, todo, ticks)
        BY <2>1, <2>2, <2>3, FinalKeeps
    <2>4. CASE duplex' = e /\ UNCHANGED <<vars, on, todo, ticks>>
        BY <2>1, <2>4, StillKeeps DEF vars
    <2> QED BY <1>2, <2>3, <2>4 DEF End
<1>3. CASE Destroy
    BY <1>3, DestroyKeeps DEF Destroy
<1>4. CASE Read
    <2> PICK threw : threw = (attachment /\ native.state = "finalized")
        OBVIOUS
    <2> PICK d : d = [duplex EXCEPT !.errored = @ \/ threw]
        OBVIOUS
    <2> PICK q : q = IF threw THEN Append(ticks, "threw") ELSE ticks
        OBVIOUS
    <2>1. duplex' = d /\ ticks' = q /\ SetPaused(FALSE) /\ UNCHANGED <<on, todo>>
        BY <1>4 DEF Read
    <2>2. (duplex.errored \/ threw) \in BOOLEAN
        OBVIOUS
    <2>3. Sound(on, todo, ticks, d)
        BY <2>2, FlagsKeep
    <2>4. "threw" \in Tick \ {"close"}
        BY DEF Tick
    <2>5. Sound(on, todo, q, d)
        BY <2>3, <2>4, SoundTick
    <2>6. [SocketCall]_vars
        BY <2>1 DEF SocketCall
    <2>7. UNCHANGED <<readyState, failing>>
        BY <2>1 DEF SetPaused
    <2> QED BY <2>1, <2>5, <2>6, <2>7, StillKeeps
<1>5. CASE ReadToEnd
    <2> PICK d : d = [duplex EXCEPT !.readable = "ending"]
        OBVIOUS
    <2> PICK q : q = Append(ticks, "end")
        OBVIOUS
    <2>1. duplex' = d /\ ticks' = q /\ UNCHANGED <<vars, on, todo>>
        BY <1>5 DEF ReadToEnd
    <2>2. "end" \in Tick \ {"close"}
        BY DEF Tick
    <2>3. Sound(on, todo, ticks, d)
        BY FlagsKeep
    <2>4. Sound(on, todo, q, d)
        BY <2>2, <2>3, SoundTick
    <2> QED BY <2>1, <2>4, StillKeeps DEF vars
<1>6. CASE CallSocket
    <2>1. [SocketCall]_vars
        BY <1>6 DEF CallSocket, SocketCall
    <2> QED BY <1>6, <2>1, CallKeeps DEF CallSocket
<1> QED BY <1>1, <1>2, <1>3, <1>4, <1>5, <1>6 DEF Application

(* Every step of the stream is a step of its socket and keeps it sound.      *)
LEMMA StreamStep ==
    ASSUME TypeOK, AdoptionInv, Sound(on, todo, ticks, duplex), [StreamNext]_streamVars
    PROVE  [Next]_vars /\ Sound(on, todo, ticks, duplex)'
<1>1. ASSUME [SocketCall]_vars PROVE [Next]_vars
    BY <1>1, CallIsNext
<1>2. CASE createWebSocketStream
    BY <1>2, CreateKeeps DEF createWebSocketStream
<1>3. CASE Application
    BY <1>1, <1>3, ApplicationKeeps
<1>4. CASE RunListener
    BY <1>1, <1>4, ListenerKeeps
<1>5. CASE RunTick
    BY <1>1, <1>5, TickKeeps
<1>6. ASSUME Idle, SocketCall, Dispatch(on, <<>>), UNCHANGED <<ticks, duplex>>
      PROVE  [Next]_vars /\ Sound(on, todo, ticks, duplex)'
    <2>1. Sound(on, <<>>, ticks, duplex)
        BY <1>6 DEF Idle
    <2> QED BY <1>1, <1>6, <2>1, CallKeeps
<1>7. CASE Task
    <2>1. CASE /\ attachNativeSocket \/ attachSocket
               /\ duplex.life = "none" \/ readyState = "CONNECTING"
        <3>1. [Next]_vars
            BY <2>1 DEF Next
        <3>2. Sound(on, <<>>, ticks, duplex)
            BY <1>7 DEF Task, Idle
        <3> QED BY <1>7, <2>1, <3>1, <3>2, AdoptionKeeps DEF Task
    <2>2. CASE StreamEnds \/ StreamErrs
        BY <1>6, <1>7, <2>2 DEF Task, SocketCall
    <2> QED BY <1>7, <2>1, <2>2 DEF Task
<1>8. CASE TransportCloses
    BY <1>6, <1>8 DEF TransportCloses, SocketCall
<1>9. CASE MessageRefused
    <2>1. SocketCall /\ UNCHANGED <<readyState, failing, on, todo, ticks, duplex>>
        BY <1>9 DEF MessageRefused, SocketCall, SetPaused
    <2> QED BY <1>1, <2>1, StillKeeps
<1>10. CASE Engine
    <2>1. SocketCall /\ UNCHANGED <<readyState, failing, on, todo, ticks, duplex>>
        BY <1>10 DEF Engine, SocketCall, EngineCloses, EngineRecycles, ServerFinalized
    <2> QED BY <1>1, <2>1, StillKeeps
<1>11. CASE UNCHANGED streamVars
    <2>1. UNCHANGED <<vars, readyState, failing, on, todo, ticks, duplex>>
        BY <1>11 DEF streamVars, vars
    <2> QED BY <2>1, StillKeeps
<1> QED BY <1>2, <1>3, <1>4, <1>5, <1>7, <1>8, <1>9, <1>10, <1>11 DEF StreamNext

LEMMA StepStreamInv == StreamInv /\ [StreamNext]_streamVars => StreamInv' /\ [Next]_vars
<1> SUFFICES ASSUME StreamInv, [StreamNext]_streamVars PROVE StreamInv' /\ [Next]_vars
    OBVIOUS
<1>1. IInv /\ Sound(on, todo, ticks, duplex) /\ TypeOK /\ AdoptionInv
    BY DEF StreamInv, IInv
<1>2. [Next]_vars /\ Sound(on, todo, ticks, duplex)'
    BY <1>1, StreamStep
<1>3. IInv'
    BY <1>1, <1>2, StepIInv
<1> QED BY <1>2, <1>3 DEF StreamInv

(* StreamInv is an invariant of the adapter over its socket.                 *)
THEOREM StreamInvariance == StreamSpec => []StreamInv
BY InitStreamInv, StepStreamInv, PTL DEF StreamSpec

(* Whatever the adapter, Node and the application do, the socket under a     *)
(* stream behaves as a socket does: every theorem about Spec is one about    *)
(* StreamSpec (createWebSocketStream uses the socket's public calls only).   *)
THEOREM StreamOverSocket == StreamSpec => Spec
<1>1. StreamInit => Init
    BY DEF StreamInit
<1> QED BY <1>1, StreamInvariance, StepStreamInv, PTL DEF StreamSpec, Spec

(* The stream emits close once, after its _destroy was answered, once, and   *)
(* not before the socket is CLOSED (the two ws.once of _destroy, stream.ts). *)
THEOREM ClosedOnceAndLast == StreamSpec => []ClosedIsLast
<1>1. StreamInv => ClosedIsLast
    <2> SUFFICES ASSUME StreamInv, duplex.closed > 0
                 PROVE  /\ duplex.closed = 1 /\ duplex.answers = 1
                        /\ duplex.life = "destroyed" /\ readyState = "CLOSED"
        BY DEF ClosedIsLast
    <2>1. ClosePart(on, todo, ticks, duplex)
        BY DEF StreamInv, Sound
    <2>2. CASE duplex.life # "destroyed"
        BY <2>1, <2>2 DEF ClosePart, CloseAt
    <2>3. CASE duplex.life = "destroyed"
        <3>1. PICK place \in {"socket", "listener", "tick", "told"} :
                       CloseAt(place, on, todo, ticks, duplex)
            BY <2>1, <2>3 DEF ClosePart
        <3>2. place = "told"
            BY <3>1 DEF CloseAt
        <3> QED BY <2>3, <3>1, <3>2 DEF CloseAt
    <2> QED BY <2>2, <2>3
<1> QED BY <1>1, StreamInvariance, PTL

(* No callback of _final or _destroy waits for a close event that was told   *)
(* (the readyState checks before ws.once, stream.ts).                        *)
THEOREM NothingLeftWaiting == StreamSpec => []NothingWaitsForClose
<1>1. StreamInv => NothingWaitsForClose
    BY DEF StreamInv, Sound, NothingWaitsForClose
<1> QED BY <1>1, StreamInvariance, PTL

(* So the promises of the socket hold under a stream as well: its close is   *)
(* told once, a stream it adopted is gone by then, and only the finalization *)
(* of its server leaves it in CLOSING.                                       *)
THEOREM SocketUnderStream ==
    StreamSpec => [](CloseToldOnce /\ StreamGoneWhenClosed /\ LatchedByFinalizeOnly)
<1>1. StreamInv => CloseToldOnce /\ StreamGoneWhenClosed /\ LatchedByFinalizeOnly
    BY DEF StreamInv, IInv
<1> QED BY <1>1, StreamInvariance, PTL

(* The error listener of _destroy never runs: after _destroy has left it the *)
(* socket raises no error any more (once("error") in _destroy, stream.ts).   *)
THEOREM DestroyErrorUnheard == StreamSpec => [](~duplex.called)
<1>1. StreamInv => ~duplex.called
    BY DEF StreamInv, Sound, ErrorPart
<1> QED BY <1>1, StreamInvariance, PTL

(* Every variable of the adapter keeps its type.                             *)
THEOREM StreamTyped == StreamSpec => []Typed(on, todo, ticks, duplex)
<1>1. StreamInv => Typed(on, todo, ticks, duplex)
    BY DEF StreamInv, Sound
<1> QED BY <1>1, StreamInvariance, PTL
=============================================================================
