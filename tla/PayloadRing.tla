----------------------------- MODULE PayloadRing ----------------------------
(***************************************************************************)
(* The staging ring of a server (payload.zig): the main thread of its      *)
(* environment copies payloads in, an engine drain peeks and releases.     *)
(* Slots change hands through their sequence words.  Positions are machine *)
(* words and wrap around, so a run is not bounded by a count of payloads.  *)
(*                                                                         *)
(* The code holds peek and release but no caller of them yet; Peek and     *)
(* the two steps of release are called as their documentation asks.  With  *)
(* the one producer there is, a weak swap can fail only spuriously, which  *)
(* changes nothing, and a slot is never ahead of the producer's position.  *)
(* The counter of dropped payloads is left out: nothing reads it.          *)
(* A ring of one slot, which payload_ring accepts and no server builds,     *)
(* overwrites its payload (README, 6): here a ring has two at least.        *)
(***************************************************************************)
EXTENDS Integers, Sequences

CONSTANTS Slots,    \* slots of the ring, a power of two
          WordSize, \* values of a position, 2^64
          Payload,  \* what is staged
          Garbage   \* what memory holds before it is written

ASSUME RingAssumption ==
    /\ Slots \in Nat /\ Slots > 1
    /\ WordSize \in Nat
    /\ WordSize % Slots = 0
    /\ WordSize > 2 * Slots
ASSUME GarbageAssumption == Garbage \notin Payload

Word == 0 .. WordSize - 1
Slot == 0 .. Slots - 1

VARIABLES bytes,       \* slot -> the bytes of its payload
          fields,      \* slot -> kind, index, generation and length of it
          sequences,   \* slot -> its sequence word
          enqueue_pos, dequeue_pos,
          producer,    \* main thread: its step, position and payload
          consumer     \* drain: its step and the view it holds

vars == <<bytes, fields, sequences, enqueue_pos, dequeue_pos, producer,
          consumer>>

\* Wrapping sum, and wrapping difference read as a signed word.
Plus(a, b) == (a + b) % WordSize
Difference(a, b) == LET d == (a - b) % WordSize
                    IN  IF 2 * d < WordSize THEN d ELSE d - WordSize

NoView == [sequence |-> 0, fields |-> Garbage]

Init == /\ bytes = [s \in Slot |-> Garbage]
        /\ fields = [s \in Slot |-> Garbage]
        /\ sequences = [s \in Slot |-> s]
        /\ enqueue_pos = 0
        /\ dequeue_pos = 0
        /\ producer = [pc |-> "idle", pos |-> 0, payload |-> Garbage]
        /\ consumer = [pc |-> "idle", view |-> NoView]

-----------------------------------------------------------------------------
(* stage *)

Load(p) == /\ producer.pc = "idle"
           /\ producer' = [pc |-> "claim", pos |-> enqueue_pos, payload |-> p]
           /\ UNCHANGED <<bytes, fields, sequences, enqueue_pos, dequeue_pos,
                          consumer>>

Ahead == Difference(sequences[producer.pos % Slots], producer.pos)

\* Mutant: the sequence word is stored before the payload is copied.
Claim_Publishes == /\ producer.pc = "claim"
                   /\ Ahead = 0
                   /\ enqueue_pos' = Plus(producer.pos, 1)
                   /\ sequences' = [sequences EXCEPT ![producer.pos % Slots] =
                                        Plus(producer.pos, 1)]
                   /\ producer' = [producer EXCEPT !.pc = "copy"]
                   /\ UNCHANGED <<bytes, fields, dequeue_pos, consumer>>

\* Mutant: a slot of the lap before is claimed as well.
Claim_OneLapEarly == /\ producer.pc = "claim"
                     /\ Ahead <= 0
                     /\ enqueue_pos' = Plus(producer.pos, 1)
                     /\ producer' = [producer EXCEPT !.pc = "copy"]
                     /\ UNCHANGED <<bytes, fields, sequences, dequeue_pos,
                                    consumer>>

Claim == /\ producer.pc = "claim"
         /\ Ahead = 0
         /\ enqueue_pos' = Plus(producer.pos, 1)
         /\ producer' = [producer EXCEPT !.pc = "copy"]
         /\ UNCHANGED <<bytes, fields, sequences, dequeue_pos, consumer>>

StageDone == [pc |-> "idle", pos |-> 0, payload |-> Garbage]

QueueFull == /\ producer.pc = "claim"
             /\ Ahead < 0
             /\ producer' = StageDone
             /\ UNCHANGED <<bytes, fields, sequences, enqueue_pos,
                            dequeue_pos, consumer>>

CopyBytes == /\ producer.pc = "copy"
             /\ bytes' = [bytes EXCEPT ![producer.pos % Slots] =
                              producer.payload]
             /\ producer' = [producer EXCEPT !.pc = "fields"]
             /\ UNCHANGED <<fields, sequences, enqueue_pos, dequeue_pos,
                            consumer>>

CopyFields == /\ producer.pc = "fields"
              /\ fields' = [fields EXCEPT ![producer.pos % Slots] =
                                producer.payload]
              /\ producer' = [producer EXCEPT !.pc = "publish"]
              /\ UNCHANGED <<bytes, sequences, enqueue_pos, dequeue_pos,
                             consumer>>

Publish == /\ producer.pc = "publish"
           /\ sequences' = [sequences EXCEPT ![producer.pos % Slots] =
                                Plus(producer.pos, 1)]
           /\ producer' = StageDone
           /\ UNCHANGED <<bytes, fields, enqueue_pos, dequeue_pos, consumer>>

-----------------------------------------------------------------------------
(* peek and release *)

\* An empty ring gives null and changes nothing.  The view borrows the bytes.
Peek == /\ consumer.pc = "idle"
        /\ Difference(sequences[dequeue_pos % Slots], Plus(dequeue_pos, 1)) >= 0
        /\ consumer' = [pc   |-> "holding",
                        view |-> [sequence |-> dequeue_pos,
                                  fields   |-> fields[dequeue_pos % Slots]]]
        /\ UNCHANGED <<bytes, fields, sequences, enqueue_pos, dequeue_pos,
                       producer>>

\* Mutant: the slot is given back for the next position, not the next lap.
ReleaseSlot_NextPosition ==
    /\ consumer.pc = "holding"
    /\ sequences' = [sequences EXCEPT ![consumer.view.sequence % Slots] =
                         Plus(consumer.view.sequence, 1)]
    /\ consumer' = [consumer EXCEPT !.pc = "released"]
    /\ UNCHANGED <<bytes, fields, enqueue_pos, dequeue_pos, producer>>

ReleaseSlot ==
    /\ consumer.pc = "holding"
    /\ sequences' = [sequences EXCEPT ![consumer.view.sequence % Slots] =
                         Plus(consumer.view.sequence, Slots)]
    /\ consumer' = [consumer EXCEPT !.pc = "released"]
    /\ UNCHANGED <<bytes, fields, enqueue_pos, dequeue_pos, producer>>

ReleasePos == /\ consumer.pc = "released"
              /\ dequeue_pos' = Plus(consumer.view.sequence, 1)
              /\ consumer' = [pc |-> "idle", view |-> NoView]
              /\ UNCHANGED <<bytes, fields, sequences, enqueue_pos, producer>>

Stage == \/ \E p \in Payload : Load(p)
         \/ Claim \/ QueueFull \/ CopyBytes \/ CopyFields \/ Publish

Drain == Peek \/ ReleaseSlot \/ ReleasePos

Next == Stage \/ Drain

Spec == Init /\ [][Next]_vars

-----------------------------------------------------------------------------
(* Properties *)

TypeOK ==
    /\ bytes \in [Slot -> Payload \cup {Garbage}]
    /\ fields \in [Slot -> Payload \cup {Garbage}]
    /\ sequences \in [Slot -> Word]
    /\ enqueue_pos \in Word /\ dequeue_pos \in Word
    /\ producer \in [pc : {"idle", "claim", "copy", "fields", "publish"},
                     pos : Word, payload : Payload \cup {Garbage}]
    /\ consumer \in [pc : {"idle", "holding", "released"},
                     view : [sequence : Word,
                             fields : Payload \cup {Garbage}]]

Writing == producer.pc \in {"copy", "fields", "publish"}

\* The payloads that were published and whose slot was not given back.
Oldest == IF consumer.pc = "released" THEN Plus(dequeue_pos, 1)
                                      ELSE dequeue_pos
Queue == [k \in 1 .. (enqueue_pos - Oldest - (IF Writing THEN 1 ELSE 0))
                         % WordSize |->
             fields[Plus(Oldest, k - 1) % Slots]]

Fifo == INSTANCE BoundedFifo WITH Size <- Slots, queue <- Queue

\* The ring is a bounded FIFO queue for ever, also when the positions wrap
\* around (payload.zig:31-33, 77-80, 119-123).
ImplementsFifo == Fifo!Spec

\* What the drain holds is the oldest payload, whole, and its bytes stay what
\* they were until it releases them (payload.zig:20-22).
ViewIsHead ==
    consumer.pc = "holding" =>
        /\ Queue # <<>> /\ consumer.view.fields = Head(Queue)
        /\ bytes[consumer.view.sequence % Slots] = consumer.view.fields

\* A payload is turned away only when there is no slot for it, and never
\* while an earlier copy is all that is in the way (payload.zig:94-97).
RefusedOnlyWhenFull == [][QueueFull => Len(Queue) = Slots]_vars
=============================================================================
