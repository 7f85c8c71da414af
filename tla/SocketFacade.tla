---------------------------- MODULE SocketFacade ----------------------------
(***************************************************************************)
(* One ws-shaped socket record (src/compat/socket) and what it adopts: a    *)
(* connection of the engine, reached through the binding, or a Node stream   *)
(* an HTTP server upgraded. All of it runs on the JavaScript thread; the    *)
(* engine thread and the peer act between two steps.                        *)
(***************************************************************************)
EXTENDS Naturals

CONSTANTS
    RingCapacity,   \* payloads the engine's staging ring holds
    CloseCode,      \* codes the application closes with, in halves: 2009 is 1004.5
    MaxBuffered     \* bound: bytes sent, of one byte per message

ASSUME FacadeAssumption ==
    RingCapacity \in Nat /\ MaxBuffered \in Nat /\ CloseCode \subseteq Nat

VARIABLES
    readyState, attachment, bufferedAmount, isPaused, closeFrameSent,
    transport,      \* the adopted stream, "none" before and without one
    failing,        \* inside failConnection, `error` listeners are running
    native,         \* the engine's record of the connection
    closes          \* close events since the record was built or adopted

vars == <<readyState, attachment, bufferedAmount, isPaused, closeFrameSent,
          transport, failing, native, closes>>

State == {"CONNECTING", "OPEN", "CLOSING", "CLOSED"}

(* A stream is live; half open, when only its peer has ended it (it allows  *)
(* that); ended on both sides; or destroyed. Its close event comes last.    *)
Transport == {"none", "live", "halfOpen", "ended", "destroyed", "closed"}

TypeOK ==
    /\ readyState \in State
    /\ attachment \in BOOLEAN
    /\ bufferedAmount \in Nat
    /\ isPaused \in BOOLEAN
    /\ closeFrameSent \in BOOLEAN
    /\ transport \in Transport
    /\ failing \in BOOLEAN
    /\ native \in [state    : {"open", "closing", "closed", "recycled", "finalized"},
                   buffered : Nat, paused : BOOLEAN]
    /\ closes \in Nat

Init ==
    /\ readyState = "CONNECTING"
    /\ attachment = FALSE
    /\ bufferedAmount = 0
    /\ isPaused = FALSE
    /\ closeFrameSent = FALSE
    /\ transport = "none"
    /\ failing = FALSE
    /\ native = [state |-> "open", buffered |-> 0, paused |-> FALSE]
    /\ closes = 0

-----------------------------------------------------------------------------
(* Adoption. Nothing keeps application code that holds the record from      *)
(* closing it first; the adoption does not look.                            *)

Unadopted == ~attachment /\ transport = "none"

attachNativeSocket ==
    /\ Unadopted
    /\ ~failing
    /\ attachment' = TRUE
    /\ readyState' = "OPEN"
    /\ closes' = 0
    /\ UNCHANGED <<bufferedAmount, isPaused, closeFrameSent, transport,
                   failing, native>>

attachSocket ==
    /\ Unadopted
    /\ ~failing
    /\ transport' = "live"
    /\ readyState' = "OPEN"
    /\ closes' = 0
    /\ UNCHANGED <<attachment, bufferedAmount, isPaused, closeFrameSent,
                   failing, native>>

-----------------------------------------------------------------------------
(* The terminal latch.                                                      *)

(* Mutant: the latch does not look at the state it sets.                    *)
finishConnection_Unlatched ==
    /\ readyState' = "CLOSED"
    /\ closes' = closes + 1

finishConnection ==
    IF readyState = "CLOSED" THEN UNCHANGED <<readyState, closes>>
    ELSE /\ readyState' = "CLOSED"
         /\ closes' = closes + 1

(* What the binding answers to an operation on the adopted connection.      *)
Blocked == native.state # "open"
NoRoom  == native.buffered = RingCapacity

(* The bytes the binding reports: none for a stale handle.                  *)
bufferedAmountOf(connection) ==
    IF connection.state = "recycled" THEN 0 ELSE connection.buffered

(* Codes. The facade compares a number, the engine one that was truncated.  *)
CLOSE_NORMAL == 2 * 1000
Reserved == {1004, 1005, 1006}

isValidStatusCode(code) ==
    \/ code \in 2 * 3000 .. 2 * 4999
    \/ code \in 2 * 1000 .. 2 * 1014 /\ \A r \in Reserved : code # 2 * r

Truncated(code) == code \div 2

valid_close_code(code) == code \in 3000 .. 4999 \cup 1000 .. 1014 /\ code \notin Reserved

(* Reasons. Whatever has no length counts as absent; an array that is no    *)
(* Uint8Array is refused, and so is what exceeds a frame.                   *)
Reason == {"absent", "text", "notUTF8", "tooLong", "array"}

isValidReason(reason) == reason \notin {"tooLong", "array"}

-----------------------------------------------------------------------------
(* Calls of the application, `error` listeners of failConnection included.  *)

(* sendData: what the engine staged is read back; what it refused because   *)
(* the connection is closing or closed counts as buffered. Anything else    *)
(* leaves the record as it is and only tells the callback.                  *)
SendStaged ==
    /\ readyState = "OPEN" /\ attachment /\ ~Blocked /\ ~NoRoom
    /\ native' = [native EXCEPT !.buffered = @ + 1]
    /\ bufferedAmount' = bufferedAmountOf(native')
    /\ UNCHANGED <<readyState, attachment, isPaused, closeFrameSent,
                   transport, failing, closes>>

SendCounted ==
    /\ \/ readyState \in {"CLOSING", "CLOSED"}
       \/ readyState = "OPEN" /\ attachment /\ native.state \in {"closing", "closed"}
    /\ bufferedAmount < MaxBuffered
    /\ bufferedAmount' = bufferedAmount + 1
    /\ UNCHANGED <<readyState, attachment, isPaused, closeFrameSent,
                   transport, failing, native, closes>>

(* ping and pong of a socket that is not open count, too.                   *)
controlFrame ==
    /\ readyState \in {"CLOSING", "CLOSED"}
    /\ bufferedAmount < MaxBuffered
    /\ bufferedAmount' = bufferedAmount + 1
    /\ UNCHANGED <<readyState, attachment, isPaused, closeFrameSent,
                   transport, failing, native, closes>>

(* What the engine finds wrong in a code and a reason the facade let pass.   *)
Refused(code, reason) == ~valid_close_code(Truncated(code)) \/ reason = "notUTF8"

CloseStaged(code, reason) ==
    /\ ~Blocked /\ ~Refused(code, reason) /\ ~NoRoom
    /\ native' = [native EXCEPT !.state = "closing", !.buffered = @ + 1]
    /\ closeFrameSent' = TRUE
    /\ bufferedAmount' = bufferedAmountOf(native')
    /\ readyState' = "CLOSING"
    /\ UNCHANGED <<failing, closes>>

CloseTooLate ==
    /\ native.state \in {"closing", "closed"}
    /\ finishConnection
    /\ UNCHANGED <<native, closeFrameSent, bufferedAmount, failing>>

(* Mutant: a rejected close is not reported.                                *)
CloseFails_Ignored(code, reason) ==
    /\ \/ native.state = "recycled"
       \/ ~Blocked /\ (Refused(code, reason) \/ NoRoom)
    /\ readyState' = "CLOSING"
    /\ UNCHANGED <<native, closeFrameSent, bufferedAmount, failing, closes>>

(* backpressure, invalid-handle, invalid-close-code, invalid-close-reason:  *)
(* failConnection emits `error`; its finally block is Finally below.        *)
CloseFails(code, reason) ==
    /\ \/ native.state = "recycled"
       \/ ~Blocked /\ (Refused(code, reason) \/ NoRoom)
    /\ readyState' = "CLOSING"
    /\ failing' = TRUE
    /\ UNCHANGED <<native, closeFrameSent, bufferedAmount, closes>>

(* The server was finalized: the binding throws, out of close() itself.      *)
CloseThrows ==
    /\ native.state = "finalized"
    /\ readyState' = "CLOSING"
    /\ UNCHANGED <<native, closeFrameSent, bufferedAmount, failing, closes>>

(* Arguments are looked at in an OPEN socket only; close() throws on wrong   *)
(* ones before it changes anything.                                         *)
closeConnection(code, reason) ==
    /\ \/ /\ readyState = "CONNECTING"
          /\ finishConnection
          /\ UNCHANGED <<native, closeFrameSent, bufferedAmount, failing>>
       \/ /\ readyState = "OPEN" /\ isValidStatusCode(code) /\ isValidReason(reason)
          /\ \/ /\ attachment
                /\ \/ CloseStaged(code, reason) \/ CloseTooLate
                   \/ CloseFails(code, reason) \/ CloseThrows
             \/ /\ ~attachment
                /\ readyState' = "CLOSING"
                /\ UNCHANGED <<native, closeFrameSent, bufferedAmount, failing, closes>>
    /\ UNCHANGED <<attachment, isPaused, transport>>

(* Mutant: terminate latches without waiting for the stream.                *)
terminateConnection_AtOnce ==
    /\ readyState # "CLOSED"
    /\ finishConnection
    /\ transport' = IF transport \in {"live", "halfOpen", "ended"} THEN "destroyed" ELSE transport
    /\ UNCHANGED <<attachment, bufferedAmount, isPaused, closeFrameSent,
                   failing, native>>

(* A stream is destroyed and its close event ends the record; the engine's  *)
(* connection is not told.                                                  *)
terminateConnection ==
    /\ readyState # "CLOSED"
    /\ IF transport = "none"
       THEN finishConnection /\ UNCHANGED transport
       ELSE transport' = "destroyed" /\ UNCHANGED <<readyState, closes>>
    /\ UNCHANGED <<attachment, bufferedAmount, isPaused, closeFrameSent,
                   failing, native>>

(* pauseConnection, resumeConnection.                                       *)
SetPaused(paused) ==
    /\ readyState \in {"OPEN", "CLOSING"}
    /\ isPaused' = paused
    /\ native' = IF attachment /\ ~Blocked THEN [native EXCEPT !.paused = paused]
                                           ELSE native
    /\ UNCHANGED <<readyState, attachment, bufferedAmount, closeFrameSent,
                   transport, failing, closes>>

-----------------------------------------------------------------------------
(* The `error` listeners returned or threw; failConnection latches.         *)
Finally ==
    /\ failing
    /\ failing' = FALSE
    /\ finishConnection
    /\ UNCHANGED <<attachment, bufferedAmount, isPaused, closeFrameSent,
                   transport, native>>

(* Events of the stream, each a task of its own.                            *)
(* Mutant: the end of the peer is not answered by one of our own.           *)
StreamEnds_HalfOpen ==
    /\ transport = "live" /\ ~failing
    /\ transport' = "halfOpen"
    /\ readyState' = IF readyState = "CLOSED" THEN readyState ELSE "CLOSING"
    /\ UNCHANGED <<attachment, bufferedAmount, isPaused, closeFrameSent,
                   failing, native, closes>>

StreamEnds ==
    /\ transport = "live" /\ ~failing
    /\ transport' = "ended"
    /\ readyState' = IF readyState = "CLOSED" THEN readyState ELSE "CLOSING"
    /\ UNCHANGED <<attachment, bufferedAmount, isPaused, closeFrameSent,
                   failing, native, closes>>

StreamErrs ==
    /\ transport \in {"live", "halfOpen", "ended"} /\ ~failing
    /\ transport' = "destroyed"
    /\ UNCHANGED <<readyState, attachment, bufferedAmount, isPaused,
                   closeFrameSent, failing, native, closes>>

StreamCloses ==
    /\ transport \in {"ended", "destroyed"} /\ ~failing
    /\ transport' = "closed"
    /\ finishConnection
    /\ UNCHANGED <<attachment, bufferedAmount, isPaused, closeFrameSent,
                   failing, native>>

(* The engine thread: the peer is gone, the slot is given to another        *)
(* connection. Nothing tells the record.                                    *)
EngineCloses ==
    /\ native.state \in {"open", "closing"}
    /\ native' = [native EXCEPT !.state = "closed"]
    /\ UNCHANGED <<readyState, attachment, bufferedAmount, isPaused,
                   closeFrameSent, transport, failing, closes>>

EngineRecycles ==
    /\ native.state = "closed"
    /\ native' = [native EXCEPT !.state = "recycled", !.buffered = 0]
    /\ UNCHANGED <<readyState, attachment, bufferedAmount, isPaused,
                   closeFrameSent, transport, failing, closes>>

(* The application finalizes the closed server the connection belonged to.   *)
ServerFinalized ==
    /\ native.state \in {"closed", "recycled"}
    /\ native' = [native EXCEPT !.state = "finalized", !.buffered = 0]
    /\ UNCHANGED <<readyState, attachment, bufferedAmount, isPaused,
                   closeFrameSent, transport, failing, closes>>

Next ==
    \/ attachNativeSocket \/ attachSocket
    \/ SendStaged \/ SendCounted \/ controlFrame
    \/ \E code \in CloseCode, reason \in Reason : closeConnection(code, reason)
    \/ terminateConnection
    \/ \E paused \in BOOLEAN : SetPaused(paused)
    \/ Finally
    \/ StreamEnds \/ StreamErrs \/ StreamCloses
    \/ EngineCloses \/ EngineRecycles \/ ServerFinalized

Spec == Init /\ [][Next]_vars

-----------------------------------------------------------------------------
(* The close event is told exactly when a record that was built or adopted  *)
(* becomes CLOSED, and once, although a failing close runs listeners that   *)
(* may terminate it before its own finally block does (finishConnection).   *)
CloseToldOnce == closes = IF readyState = "CLOSED" THEN 1 ELSE 0

Latched == attachment /\ readyState = "CLOSING" /\ ~failing /\ ~closeFrameSent

(* A record that adopted an engine connection is not left in CLOSING with   *)
(* no close frame sent, whatever the engine answered to closeConnection; it  *)
(* takes a close() after the server was finalized, for which the binding    *)
(* has no answer but an exception.                                          *)
LatchedByFinalizeOnly == Latched => native.state = "finalized"

(* No rejected native close leaves "the socket latched in CLOSING with no   *)
(* frame sent" (closeFailure, lifecycle.ts:61-62).                          *)
NotLatched == ~Latched

(* A record that adopted a stream reports CLOSED only when the stream is    *)
(* gone: terminate and end leave that to its close event (attach.ts:31).    *)
StreamGoneWhenClosed ==
    readyState = "CLOSED" /\ transport # "none" => transport = "closed"

(* A stream whose peer ended it, or that was destroyed, ends the record.    *)
DyingStreamCloses ==
    (transport \in {"halfOpen", "ended", "destroyed"}) ~> (readyState = "CLOSED")
=============================================================================
