------------------------- MODULE EventChannelProofs -------------------------
(***************************************************************************)
(* Theorems about EventChannel, for every ring size, every reserve and     *)
(* every number of events.  The inductive invariant IInv says what the two *)
(* threads know of each other between any two accesses.                    *)
(***************************************************************************)
EXTENDS EventChannel, TLAPS

HeldCount    == IF cpc \in {"copy", "complete"} THEN 1 ELSE 0
ClaimedCount == IF ppc \in {"fill", "call"} THEN 1 ELSE 0
UnclaimedShutdown ==
    IF /\ ppc \in {"load_reserved", "load_completed", "swap"}
       /\ pevent.kind \in ShutdownKind
    THEN 1 ELSE 0

\* What the publisher loaded is still true, because nobody else reserves and
\* the consumer only makes room.
PublisherInv ==
    /\ ppc \in {"load_completed", "swap"} => pseq = reserved
    /\ ppc \in {"fill", "call"} => reserved = pseq + 1
    /\ ppc \in {"swap", "fill", "call"} =>
           pseq - completed < LimitOf(pevent.kind)
    /\ ppc = "call" => slots[SlotOf(pseq)].sequence = pseq

\* Outstanding sequences stay out of the shutdown reserve except for as many
\* as shutdown events were emitted.
ReserveInv ==
    /\ reserved - completed + UnclaimedShutdown
           <= Capacity - ShutdownReserve + shutdowns
    /\ shutdowns <= ShutdownReserve
    /\ refused \cap ShutdownKind = {}

\* Every outstanding sequence is in exactly one place: in the consumer's
\* hands, queued, in the publisher's hands, or abandoned by a failed call.
LedgerInv ==
    /\ cpc # "idle" => envAlive
    /\ ~envAlive => tsfnq = <<>>
    /\ abandoned > 0 => ppc = "latch" \/ (ppc = "idle" /\ closing)
    /\ completed <= reserved
    /\ envAlive => reserved = completed + HeldCount + Len(tsfnq)
                                + ClaimedCount + abandoned

\* The consumer's slot and the queued slots hold consecutive sequences.
AddressInv ==
    /\ HeldCount = 1 => /\ cslot = SlotOf(completed)
                        /\ slots[cslot].sequence = completed
    /\ \A n \in 1 .. Len(tsfnq) :
           /\ tsfnq[n] = SlotOf(completed + HeldCount + n - 1)
           /\ slots[tsfnq[n]].sequence = completed + HeldCount + n - 1

IInv == TypeOK /\ PublisherInv /\ ReserveInv /\ LedgerInv /\ AddressInv

-----------------------------------------------------------------------------
(* Arithmetic of slot addresses *)

\* A remainder and its quotient determine a number.
LEMMA DivMod ==
    ASSUME NEW c \in Nat \ {0}, NEW a \in Nat
    PROVE  /\ a = c * (a \div c) + (a % c)
           /\ a \div c \in Int
           /\ a % c \in 0 .. c - 1
<1>1. a = c * (a \div c) + (a % c)
  BY SMTT(10)
<1>2. a % c \in 0 .. c - 1
  BY SMTT(10)
<1>3. a \div c \in Int
  BY SMTT(10)
<1>4. QED
  BY <1>1, <1>2, <1>3

\* Two multiples of c that are less than c apart are the same multiple.
LEMMA SameMultiple ==
    ASSUME NEW c \in Nat \ {0}, NEW x \in Int, NEW y \in Int,
           0 <= c * x - c * y, c * x - c * y < c
    PROVE  x = y
  BY SMTT(30)

\* Two sequences less than a whole ring apart share a slot only if they are
\* equal: ring.slot (ring.zig:87-89) is injective on the outstanding ones.
LEMMA SlotOfInjective ==
    ASSUME NEW a \in Nat, NEW b \in Nat,
           a <= b, b < a + Capacity, SlotOf(a) = SlotOf(b)
    PROVE  a = b
<1>1. Capacity \in Nat \ {0}
  BY ReserveAssumption
<1> DEFINE x == a \div Capacity
           y == b \div Capacity
           r == a % Capacity
<1>2. /\ a = Capacity * x + r /\ b = Capacity * y + r
      /\ x \in Int /\ y \in Int /\ r \in Int
  BY <1>1, DivMod DEF SlotOf
<1> HIDE DEF x, y, r
<1>3. Capacity * x \in Int /\ Capacity * y \in Int
  BY <1>1, <1>2
<1>4. Capacity * y - Capacity * x = b - a
  BY <1>2, <1>3
<1>5. 0 <= Capacity * y - Capacity * x /\ Capacity * y - Capacity * x < Capacity
  BY <1>1, <1>4
<1>6. y = x
  BY <1>1, <1>2, <1>5, SameMultiple
<1>7. QED
  BY <1>2, <1>6

LEMMA SlotOfIndex == ASSUME NEW s \in Nat PROVE SlotOf(s) \in Index
  BY ReserveAssumption, DivMod DEF SlotOf, Index

\* The limits claim is called with lie inside the ring, and only shutdown
\* events reach into the shutdown reserve.
LEMMA LimitBounds ==
    ASSUME NEW k \in EngineKind
    PROVE  /\ LimitOf(k) \in Nat
           /\ LimitOf(k) <= Capacity
           /\ k \in ShutdownKind => LimitOf(k) = Capacity
           /\ k \notin ShutdownKind => LimitOf(k) <= Capacity - ShutdownReserve
  BY ReserveAssumption DEF LimitOf, EngineKind, ShutdownKind

-----------------------------------------------------------------------------
(* Type correctness *)

LEMMA TypeInit == Init => TypeOK
<1> SUFFICES ASSUME Init PROVE TypeOK
  OBVIOUS
<1>1. 0 \in Index
  BY ReserveAssumption DEF Index
<1>2. NoEvent \in Event
  BY DEF NoEvent, Event, EngineKind
<1>3. slots \in [Index -> Slot]
  BY <1>2 DEF Init, Slot
<1>4. QED
  BY <1>1, <1>2, <1>3 DEF Init, TypeOK

LEMMA TypeStep == TypeOK /\ [Next]_vars => TypeOK'
<1> SUFFICES ASSUME TypeOK, [Next]_vars PROVE TypeOK'
  OBVIOUS
<1> USE DEF TypeOK, ringVars, pubVars, conVars
<1>1. ASSUME NEW k \in Kind, MayEmit(k), Publish(k) PROVE TypeOK'
  <2>1. pevent' \in Event
    BY <1>1, KindAssumption DEF Publish, Event
  <2>2. QED
    BY <1>1, <2>1 DEF Publish, CountEmit
<1>2. ASSUME NEW k \in Kind, MayEmit(k), PublishLatched(k) PROVE TypeOK'
  BY <1>2 DEF PublishLatched, CountEmit
<1>3. CASE LoadReserved
  BY <1>3 DEF LoadReserved
<1>4. CASE ClaimRefused
  BY <1>4 DEF ClaimRefused, Event
<1>5. CASE ClaimAllowed
  BY <1>5 DEF ClaimAllowed
<1>6. CASE Claim
  BY <1>6 DEF Claim
<1>7. CASE ClaimRetried
  BY <1>7 DEF ClaimRetried
<1>8. CASE Fill
  <2>1. [event |-> pevent, sequence |-> pseq] \in Slot
    BY DEF Slot
  <2>2. slots' \in [Index -> Slot]
    BY <1>8, <2>1 DEF Fill
  <2>3. QED
    BY <1>8, <2>2 DEF Fill
<1>9. CASE CallTsfn
  BY <1>9, SlotOfIndex DEF CallTsfn
<1>10. CASE CallTsfnFails
  BY <1>10 DEF CallTsfnFails
<1>11. CASE LatchAfterFailure
  BY <1>11 DEF LatchAfterFailure
<1>12. CASE Take
  BY <1>12 DEF Take
<1>13. CASE Copy
  BY <1>13 DEF Copy, Slot
<1>14. CASE Complete
  <2>1. slots[cslot].sequence \in Nat
    BY DEF Slot
  <2>2. completed' \in Nat
    BY <1>14, <2>1 DEF Complete
  <2>3. QED
    BY <1>14, <2>2 DEF Complete
<1>15. CASE CallHandler
  BY <1>15 DEF CallHandler
<1>16. CASE Stop
  BY <1>16 DEF Stop
<1>17. CASE TearDown
  <2>1. /\ tsfnq' = <<>> /\ envAlive' = FALSE
        /\ UNCHANGED <<ringVars, closing, pubVars, conVars>>
    BY <1>17 DEF TearDown
  <2>2. <<>> \in Seq(Index)
    OBVIOUS
  <2>3. QED
    BY <2>1, <2>2
<1>18. CASE UNCHANGED vars
  BY <1>18 DEF vars
<1>19. CASE AcquireRefused
  BY <1>19 DEF AcquireRefused
<1>20. QED
  BY <1>1, <1>2, <1>3, <1>4, <1>5, <1>6, <1>7, <1>8, <1>9, <1>10, <1>11,
     <1>12, <1>13, <1>14, <1>15, <1>16, <1>17, <1>18, <1>19
     DEF Next, PublisherStep, ConsumerStep

\* Every variable keeps its type, for every ring and every reserve.
THEOREM TypeCorrect == Spec => []TypeOK
<1>1. QED
  BY TypeInit, TypeStep, PTL DEF Spec

-----------------------------------------------------------------------------
(* The publisher and the shutdown reserve *)

\* The value a dispatch completes never moves `completed` backwards.
LEMMA CompletedMonotonic ==
    ASSUME TypeOK, [Next]_vars
    PROVE  completed' >= completed
<1> USE DEF TypeOK, ringVars, pubVars, conVars
<1>1. CASE Complete
  <2>1. slots[cslot].sequence \in Nat
    BY DEF Slot
  <2>2. QED
    BY <1>1, <2>1 DEF Complete
<1>2. CASE ~Complete
  <2>1. completed' = completed
    BY <1>2 DEF Next, Publish, PublishLatched, PublisherStep, ConsumerStep,
       LoadReserved, ClaimRefused, ClaimAllowed, Claim, ClaimRetried, Fill,
       CallTsfn, CallTsfnFails, LatchAfterFailure, AcquireRefused, Take, Copy,
       CallHandler,
       Stop, TearDown, vars
  <2>2. QED
    BY <2>1
<1>3. QED
  BY <1>1, <1>2

\* Completing a sequence lowers the number of outstanding ones.
LEMMA CompletionMakesRoom ==
    ASSUME NEW r \in Nat, NEW c \in Nat, NEW d \in Nat, NEW u \in {0, 1},
           NEW s \in Nat, d >= c,
           r - c + u <= Capacity - ShutdownReserve + s
    PROVE  r - d + u <= Capacity - ShutdownReserve + s
  BY ReserveAssumption

LEMMA PublisherInit == Init => PublisherInv
  BY DEF Init, PublisherInv

LEMMA PublisherPreserved ==
    TypeOK /\ PublisherInv /\ [Next]_vars => PublisherInv'
<1> SUFFICES ASSUME TypeOK, PublisherInv, [Next]_vars PROVE PublisherInv'
  OBVIOUS
<1> USE DEF TypeOK, PublisherInv, ringVars, pubVars, conVars
<1>0. completed' >= completed /\ completed' \in Nat
  BY CompletedMonotonic, TypeStep
<1>a. /\ pevent.kind \in EngineKind
      /\ LimitOf(pevent.kind) \in Nat
  BY LimitBounds DEF Event
<1>1. ASSUME NEW k \in Kind, MayEmit(k), Publish(k) PROVE PublisherInv'
  BY <1>1 DEF Publish
<1>2. ASSUME NEW k \in Kind, MayEmit(k), PublishLatched(k) PROVE PublisherInv'
  BY <1>2 DEF PublishLatched
<1>3. CASE LoadReserved
  BY <1>3 DEF LoadReserved
<1>4. CASE ClaimRefused
  BY <1>4 DEF ClaimRefused
<1>5. CASE ClaimAllowed
  BY <1>5 DEF ClaimAllowed
<1>6. CASE Claim
  BY <1>6 DEF Claim
<1>7. CASE ClaimRetried
  BY <1>7 DEF ClaimRetried
<1>8. CASE Fill
  <2>1. SlotOf(pseq) \in Index
    BY SlotOfIndex
  <2>2. slots'[SlotOf(pseq)].sequence = pseq
    BY <1>8, <2>1 DEF Fill
  <2>3. QED
    BY <1>8, <2>2 DEF Fill
<1>9. CASE CallTsfn
  BY <1>9 DEF CallTsfn
<1>10. CASE CallTsfnFails
  BY <1>10 DEF CallTsfnFails
<1>11. CASE LatchAfterFailure
  BY <1>11 DEF LatchAfterFailure
<1>12. CASE Take
  BY <1>12 DEF Take
<1>13. CASE Copy
  BY <1>13 DEF Copy
<1>14. CASE Complete
  <2>1. UNCHANGED <<reserved, slots, ppc, pevent, pseq>>
    BY <1>14 DEF Complete
  <2>2. pseq - completed < LimitOf(pevent.kind)
            => pseq - completed' < LimitOf(pevent.kind)
    BY <1>0, <1>a
  <2>3. QED
    BY <2>1, <2>2
<1>15. CASE CallHandler
  BY <1>15 DEF CallHandler
<1>16. CASE Stop
  BY <1>16 DEF Stop
<1>17. CASE TearDown
  BY <1>17 DEF TearDown
<1>18. CASE UNCHANGED vars
  BY <1>18 DEF vars
<1>19. CASE AcquireRefused
  BY <1>19 DEF AcquireRefused
<1>20. QED
  BY <1>1, <1>2, <1>3, <1>4, <1>5, <1>6, <1>7, <1>8, <1>9, <1>10, <1>11,
     <1>12, <1>13, <1>14, <1>15, <1>16, <1>17, <1>18, <1>19
     DEF Next, PublisherStep, ConsumerStep

LEMMA ReserveInit == Init => ReserveInv
  BY ReserveAssumption DEF Init, ReserveInv, UnclaimedShutdown

LEMMA ReservePreserved ==
    TypeOK /\ PublisherInv /\ ReserveInv /\ [Next]_vars => ReserveInv'
<1> SUFFICES ASSUME TypeOK, PublisherInv, ReserveInv, [Next]_vars
             PROVE  ReserveInv'
  OBVIOUS
<1> USE ReserveAssumption
    DEF TypeOK, PublisherInv, ReserveInv, UnclaimedShutdown,
        ringVars, pubVars, conVars
<1>0. completed' >= completed /\ completed' \in Nat
  BY CompletedMonotonic, TypeStep
<1>a. /\ pevent.kind \in EngineKind
      /\ LimitOf(pevent.kind) \in Nat
      /\ LimitOf(pevent.kind) <= Capacity
      /\ pevent.kind \in ShutdownKind => LimitOf(pevent.kind) = Capacity
      /\ pevent.kind \notin ShutdownKind =>
             LimitOf(pevent.kind) <= Capacity - ShutdownReserve
  BY LimitBounds DEF Event
<1>1. ASSUME NEW k \in Kind, MayEmit(k), Publish(k) PROVE ReserveInv'
  <2>1. pevent'.kind = k
    BY <1>1 DEF Publish
  <2>2. CASE k \in ShutdownKind
    BY <1>1, <2>1, <2>2 DEF Publish, MayEmit, CountEmit
  <2>3. CASE k \notin ShutdownKind
    BY <1>1, <2>1, <2>3 DEF Publish, MayEmit, CountEmit
  <2>4. QED
    BY <2>2, <2>3
<1>2. ASSUME NEW k \in Kind, MayEmit(k), PublishLatched(k) PROVE ReserveInv'
  BY <1>2 DEF PublishLatched, MayEmit, CountEmit
<1>3. CASE LoadReserved
  BY <1>3 DEF LoadReserved
<1>4. CASE ClaimRefused
  <2>1. pevent.kind \notin ShutdownKind
    BY <1>4, <1>a DEF ClaimRefused
  <2>2. QED
    BY <1>4, <2>1 DEF ClaimRefused
<1>5. CASE ClaimAllowed
  BY <1>5 DEF ClaimAllowed
<1>6. CASE Claim
  <2>1. CASE pevent.kind \in ShutdownKind
    BY <1>6, <2>1 DEF Claim
  <2>2. CASE pevent.kind \notin ShutdownKind
    BY <1>6, <1>a, <2>2 DEF Claim
  <2>3. QED
    BY <2>1, <2>2
<1>7. CASE ClaimRetried
  BY <1>7 DEF ClaimRetried
<1>8. CASE Fill
  BY <1>8 DEF Fill
<1>9. CASE CallTsfn
  BY <1>9 DEF CallTsfn
<1>10. CASE CallTsfnFails
  BY <1>10 DEF CallTsfnFails
<1>11. CASE LatchAfterFailure
  BY <1>11 DEF LatchAfterFailure
<1>12. CASE Take
  BY <1>12 DEF Take
<1>13. CASE Copy
  BY <1>13 DEF Copy
<1>14. CASE Complete
  <2>1. UNCHANGED <<reserved, ppc, pevent, shutdowns, refused>>
    BY <1>14 DEF Complete
  <2>2. UNCHANGED UnclaimedShutdown /\ UnclaimedShutdown \in {0, 1}
    BY <2>1
  <2>3. reserved - completed' + UnclaimedShutdown
            <= Capacity - ShutdownReserve + shutdowns
    BY <1>0, <2>2, CompletionMakesRoom
  <2>4. reserved' - completed' + UnclaimedShutdown'
            <= Capacity - ShutdownReserve + shutdowns'
    BY <2>1, <2>2, <2>3
  <2>5. QED
    BY <2>1, <2>4
<1>15. CASE CallHandler
  BY <1>15 DEF CallHandler
<1>16. CASE Stop
  BY <1>16 DEF Stop
<1>17. CASE TearDown
  BY <1>17 DEF TearDown
<1>18. CASE UNCHANGED vars
  BY <1>18 DEF vars
<1>19. CASE AcquireRefused
  BY <1>19 DEF AcquireRefused
<1>20. QED
  BY <1>1, <1>2, <1>3, <1>4, <1>5, <1>6, <1>7, <1>8, <1>9, <1>10, <1>11,
     <1>12, <1>13, <1>14, <1>15, <1>16, <1>17, <1>18, <1>19
     DEF Next, PublisherStep, ConsumerStep

\* No shutdown event is ever refused for want of a slot, whatever the size of
\* the ring and of its reserves, and however long dispatch is stalled.
THEOREM ShutdownSafe == Spec => []ShutdownNeverRefused
<1>1. Init => TypeOK /\ PublisherInv /\ ReserveInv
  BY TypeInit, PublisherInit, ReserveInit
<1>2. TypeOK /\ PublisherInv /\ ReserveInv /\ [Next]_vars
          => (TypeOK /\ PublisherInv /\ ReserveInv)'
  BY TypeStep, PublisherPreserved, ReservePreserved
<1>3. ReserveInv => ShutdownNeverRefused
  BY DEF ReserveInv, ShutdownNeverRefused
<1>4. QED
  BY <1>1, <1>2, <1>3, PTL DEF Spec

-----------------------------------------------------------------------------
(* The ledger of outstanding sequences and the slots they live in *)

LEMMA LedgerInit == Init => LedgerInv /\ AddressInv
  BY DEF Init, LedgerInv, AddressInv, HeldCount, ClaimedCount

\* A dispatch completes exactly the first outstanding sequence.
LEMMA CompleteAdvances ==
    ASSUME TypeOK, LedgerInv, AddressInv, Complete
    PROVE  completed' = completed + 1 /\ completed + 1 <= reserved
<1>1. HeldCount = 1 /\ envAlive
  BY DEF Complete, HeldCount, LedgerInv
<1>2. slots[cslot].sequence = completed
  BY <1>1 DEF AddressInv
<1>3. completed' = completed + 1
  BY <1>2 DEF Complete, TypeOK
<1>4. /\ reserved = completed + 1 + Len(tsfnq) + ClaimedCount + abandoned
      /\ Len(tsfnq) \in Nat /\ ClaimedCount \in Nat
  BY <1>1 DEF LedgerInv, TypeOK, ClaimedCount
<1>5. QED
  BY <1>3, <1>4 DEF TypeOK

LEMMA LedgerPreserved ==
    TypeOK /\ PublisherInv /\ LedgerInv /\ AddressInv /\ [Next]_vars
        => LedgerInv'
<1> SUFFICES ASSUME TypeOK, PublisherInv, LedgerInv, AddressInv, [Next]_vars
             PROVE  LedgerInv'
  OBVIOUS
<1> USE DEF TypeOK, LedgerInv, HeldCount, ClaimedCount,
            ringVars, pubVars, conVars
<1>1. ASSUME NEW k \in Kind, MayEmit(k), Publish(k) PROVE LedgerInv'
  BY <1>1 DEF Publish, MayEmit
<1>2. ASSUME NEW k \in Kind, MayEmit(k), PublishLatched(k) PROVE LedgerInv'
  BY <1>2 DEF PublishLatched
<1>3. CASE LoadReserved
  BY <1>3 DEF LoadReserved
<1>4. CASE ClaimRefused
  BY <1>4 DEF ClaimRefused
<1>5. CASE ClaimAllowed
  BY <1>5 DEF ClaimAllowed
<1>6. CASE Claim
  BY <1>6 DEF Claim, PublisherInv
<1>7. CASE ClaimRetried
  BY <1>7 DEF ClaimRetried
<1>8. CASE Fill
  BY <1>8 DEF Fill
<1>9. CASE CallTsfn
  <2>1. Len(tsfnq') = Len(tsfnq) + 1
    BY <1>9, SlotOfIndex DEF CallTsfn
  <2>2. QED
    BY <1>9, <2>1 DEF CallTsfn
<1>10. CASE CallTsfnFails
  <2>1. /\ UNCHANGED <<reserved, completed, tsfnq, envAlive, cpc>>
        /\ abandoned' = abandoned + 1 /\ ppc = "call" /\ ppc' = "latch"
    BY <1>10 DEF CallTsfnFails
  <2>2. UNCHANGED HeldCount /\ ClaimedCount = 1 /\ ClaimedCount' = 0
    BY <2>1
  <2>3. HeldCount \in Nat /\ Len(tsfnq) \in Nat
    OBVIOUS
  <2>4. envAlive' => reserved' = completed' + HeldCount' + Len(tsfnq')
                                  + ClaimedCount' + abandoned'
    <3> HIDE DEF HeldCount, ClaimedCount
    <3>1. QED
      BY <2>1, <2>2, <2>3
  <2>5. QED
    BY <2>1, <2>4
<1>11. CASE LatchAfterFailure
  <2>1. /\ UNCHANGED <<reserved, completed, abandoned, tsfnq, envAlive, cpc>>
        /\ ppc = "latch" /\ ppc' = "idle" /\ closing' = TRUE
    BY <1>11 DEF LatchAfterFailure
  <2>2. UNCHANGED <<HeldCount, ClaimedCount>>
    BY <2>1
  <2>3. ppc' = "latch" \/ (ppc' = "idle" /\ closing')
    BY <2>1
  <2> HIDE DEF HeldCount, ClaimedCount
  <2>4. QED
    BY <2>1, <2>2, <2>3
<1>12. CASE Take
  <2>1. Len(tsfnq') = Len(tsfnq) - 1
    BY <1>12 DEF Take
  <2>2. QED
    BY <1>12, <2>1 DEF Take
<1>13. CASE Copy
  BY <1>13 DEF Copy
<1>14. CASE Complete
  <2>1. completed' = completed + 1 /\ completed + 1 <= reserved
    BY <1>14, CompleteAdvances
  <2>2. /\ UNCHANGED <<reserved, abandoned, tsfnq, envAlive, ppc, closing>>
        /\ cpc = "complete" /\ cpc' = "handler"
    BY <1>14 DEF Complete
  <2>3. HeldCount = 1 /\ HeldCount' = 0 /\ UNCHANGED ClaimedCount
    BY <2>2
  <2>4. completed' <= reserved'
    BY <2>1, <2>2
  <2>5. envAlive' => reserved' = completed' + HeldCount' + Len(tsfnq')
                                  + ClaimedCount' + abandoned'
    BY <2>1, <2>2, <2>3
  <2>6. (cpc' # "idle" => envAlive') /\ (~envAlive' => tsfnq' = <<>>)
    BY <2>2
  <2>7. abandoned' > 0 => ppc' = "latch" \/ (ppc' = "idle" /\ closing')
    BY <2>2
  <2>8. QED
    BY <2>4, <2>5, <2>6, <2>7
<1>15. CASE CallHandler
  BY <1>15 DEF CallHandler
<1>16. CASE Stop
  BY <1>16 DEF Stop
<1>17. CASE TearDown
  BY <1>17 DEF TearDown
<1>18. CASE UNCHANGED vars
  BY <1>18 DEF vars
<1>19. CASE AcquireRefused
  BY <1>19 DEF AcquireRefused
<1>20. QED
  BY <1>1, <1>2, <1>3, <1>4, <1>5, <1>6, <1>7, <1>8, <1>9, <1>10, <1>11,
     <1>12, <1>13, <1>14, <1>15, <1>16, <1>17, <1>18, <1>19
     DEF Next, PublisherStep, ConsumerStep

\* The slot a publisher fills is not one the consumer has yet to read.
LEMMA FilledSlotIsFree ==
    ASSUME TypeOK, PublisherInv, LedgerInv, AddressInv, ppc = "fill"
    PROVE  /\ HeldCount = 1 => cslot # SlotOf(pseq)
           /\ \A n \in 1 .. Len(tsfnq) : tsfnq[n] # SlotOf(pseq)
<1>1. LimitOf(pevent.kind) \in Nat /\ LimitOf(pevent.kind) <= Capacity
  BY LimitBounds DEF TypeOK, Event
<1>2. pseq < completed + Capacity /\ pseq \in Nat /\ completed \in Nat
  BY <1>1, ReserveAssumption DEF PublisherInv, TypeOK
<1>3. /\ HeldCount \in {0, 1} /\ Len(tsfnq) \in Nat
      /\ envAlive => pseq = completed + HeldCount + Len(tsfnq)
      /\ ~envAlive => HeldCount = 0 /\ Len(tsfnq) = 0
  BY DEF LedgerInv, PublisherInv, TypeOK, HeldCount, ClaimedCount
<1>4. ASSUME HeldCount = 1 PROVE cslot # SlotOf(pseq)
  <2>1. completed < pseq
    BY <1>2, <1>3, <1>4
  <2>2. cslot = SlotOf(completed)
    BY <1>4 DEF AddressInv
  <2>3. QED
    BY <1>2, <2>1, <2>2, SlotOfInjective
<1>5. ASSUME NEW n \in 1 .. Len(tsfnq) PROVE tsfnq[n] # SlotOf(pseq)
  <2> DEFINE s == completed + HeldCount + n - 1
  <2>1. s \in Nat /\ s < pseq /\ pseq < s + Capacity
    BY <1>2, <1>3, ReserveAssumption
  <2>2. tsfnq[n] = SlotOf(s)
    BY DEF AddressInv
  <2> HIDE DEF s
  <2>3. QED
    BY <1>2, <2>1, <2>2, SlotOfInjective
<1>6. QED
  BY <1>4, <1>5

LEMMA AddressPreserved ==
    TypeOK /\ PublisherInv /\ LedgerInv /\ AddressInv /\ [Next]_vars
        => AddressInv'
<1> SUFFICES ASSUME TypeOK, PublisherInv, LedgerInv, AddressInv, [Next]_vars
             PROVE  AddressInv'
  OBVIOUS
<1> USE DEF ringVars, pubVars, conVars
<1>1. CASE Fill
  <2>1. /\ slots' = [slots EXCEPT ![SlotOf(pseq)] =
                        [event |-> pevent, sequence |-> pseq]]
        /\ UNCHANGED <<completed, cpc, cslot, tsfnq>>
    BY <1>1 DEF Fill
  <2>2. UNCHANGED HeldCount
    BY <2>1 DEF HeldCount
  <2>3. /\ HeldCount = 1 => cslot # SlotOf(pseq)
        /\ \A n \in 1 .. Len(tsfnq) : tsfnq[n] # SlotOf(pseq)
    BY <1>1, FilledSlotIsFree DEF Fill
  <2>4. \A i \in Index : i # SlotOf(pseq) => slots'[i] = slots[i]
    BY <2>1 DEF TypeOK
  <2>5. cslot \in Index /\ \A n \in 1 .. Len(tsfnq) : tsfnq[n] \in Index
    BY DEF TypeOK
  <2>6. HeldCount' = 1 => /\ cslot' = SlotOf(completed')
                          /\ slots'[cslot'].sequence = completed'
    BY <2>1, <2>2, <2>3, <2>4, <2>5 DEF AddressInv
  <2>7. ASSUME NEW n \in 1 .. Len(tsfnq')
        PROVE  /\ tsfnq'[n] = SlotOf(completed' + HeldCount' + n - 1)
               /\ slots'[tsfnq'[n]].sequence = completed' + HeldCount' + n - 1
    BY <2>1, <2>2, <2>3, <2>4, <2>5 DEF AddressInv
  <2>8. QED
    BY <2>6, <2>7 DEF AddressInv
<1>2. CASE CallTsfn
  <2>1. /\ tsfnq' = Append(tsfnq, SlotOf(pseq))
        /\ UNCHANGED <<slots, completed, cpc, cslot>>
        /\ SlotOf(pseq) \in Index
    BY <1>2, SlotOfIndex DEF CallTsfn, TypeOK
  <2>2. UNCHANGED HeldCount
    BY <2>1 DEF HeldCount
  <2>3. pseq = completed + HeldCount + (Len(tsfnq) + 1) - 1
    <3>1. ppc = "call" /\ envAlive
      BY <1>2 DEF CallTsfn
    <3>2. ClaimedCount = 1 /\ abandoned = 0 /\ HeldCount \in {0, 1}
      BY <3>1 DEF ClaimedCount, HeldCount, LedgerInv, TypeOK
    <3>3. reserved = pseq + 1 /\ pseq \in Nat /\ completed \in Nat
      BY <3>1 DEF PublisherInv, TypeOK
    <3>4. reserved = completed + HeldCount + Len(tsfnq) + 1
      BY <3>1, <3>2 DEF LedgerInv, TypeOK
    <3>5. QED
      BY <3>2, <3>3, <3>4 DEF TypeOK
  <2>4. slots[SlotOf(pseq)].sequence = pseq
    BY <1>2 DEF CallTsfn, PublisherInv
  <2>5. ASSUME NEW n \in 1 .. Len(tsfnq')
        PROVE  /\ tsfnq'[n] = SlotOf(completed + HeldCount + n - 1)
               /\ slots[tsfnq'[n]].sequence = completed + HeldCount + n - 1
    <3>1. tsfnq \in Seq(Index) /\ Len(tsfnq') = Len(tsfnq) + 1
      BY <2>1 DEF TypeOK
    <3>2. CASE n = Len(tsfnq) + 1
      BY <2>1, <2>3, <2>4, <3>1, <3>2
    <3>3. CASE n \in 1 .. Len(tsfnq)
      <4>1. tsfnq'[n] = tsfnq[n]
        BY <2>1, <3>1, <3>3
      <4>2. QED
        BY <3>3, <4>1 DEF AddressInv
    <3>4. QED
      BY <3>1, <3>2, <3>3
  <2>6. QED
    BY <2>1, <2>2, <2>5 DEF AddressInv
<1>3. CASE Take
  <2>1. /\ HeldCount = 0 /\ HeldCount' = 1
        /\ UNCHANGED <<slots, completed>>
        /\ tsfnq # <<>> /\ tsfnq' = Tail(tsfnq) /\ cslot' = Head(tsfnq)
    BY <1>3 DEF Take, HeldCount
  <2>2. /\ tsfnq \in Seq(Index) /\ Len(tsfnq') = Len(tsfnq) - 1
        /\ Len(tsfnq) \in Nat /\ Len(tsfnq) >= 1
        /\ completed \in Nat
    BY <2>1 DEF TypeOK
  <2>3. cslot' = tsfnq[1] /\ 1 \in 1 .. Len(tsfnq)
    BY <2>1, <2>2
  <2>4. completed + 0 + 1 - 1 = completed
    BY <2>2
  <2>5. cslot' = SlotOf(completed) /\ slots[cslot'].sequence = completed
    BY <2>1, <2>3, <2>4 DEF AddressInv
  <2>6. ASSUME NEW n \in 1 .. Len(tsfnq')
        PROVE  /\ tsfnq'[n] = SlotOf(completed + 1 + n - 1)
               /\ slots[tsfnq'[n]].sequence = completed + 1 + n - 1
    <3>1. n + 1 \in 1 .. Len(tsfnq) /\ tsfnq'[n] = tsfnq[n + 1]
      BY <2>1, <2>2
    <3>2. completed + 0 + (n + 1) - 1 = completed + 1 + n - 1
      BY <2>2
    <3>3. QED
      BY <2>1, <3>1, <3>2 DEF AddressInv
  <2>7. QED
    BY <2>1, <2>5, <2>6 DEF AddressInv
<1>4. CASE Complete
  <2>1. /\ HeldCount = 1 /\ HeldCount' = 0
        /\ UNCHANGED <<slots, tsfnq>>
    BY <1>4 DEF Complete, HeldCount
  <2>2. completed' = completed + 1 /\ completed \in Nat
    BY <1>4, CompleteAdvances DEF TypeOK
  <2>3. ASSUME NEW n \in 1 .. Len(tsfnq)
        PROVE  /\ tsfnq[n] = SlotOf(completed' + 0 + n - 1)
               /\ slots[tsfnq[n]].sequence = completed' + 0 + n - 1
    <3>1. completed' + 0 + n - 1 = completed + 1 + n - 1
      BY <2>2
    <3>2. QED
      BY <2>1, <3>1 DEF AddressInv
  <2>4. QED
    BY <2>1, <2>3 DEF AddressInv
<1>5. CASE TearDown
  <2>1. HeldCount' = 0 /\ tsfnq' = <<>>
    BY <1>5 DEF TearDown, HeldCount
  <2>2. QED
    BY <2>1 DEF AddressInv
<1>6. CASE ~Fill /\ ~CallTsfn /\ ~Take /\ ~Complete /\ ~TearDown
  <2>1. UNCHANGED <<slots, completed, tsfnq, cslot>>
    BY <1>6 DEF Next, Publish, PublishLatched, PublisherStep, ConsumerStep,
       LoadReserved, ClaimRefused, ClaimAllowed, Claim, ClaimRetried,
       CallTsfnFails, LatchAfterFailure, AcquireRefused, Copy, CallHandler,
       Stop, vars
  <2>2. UNCHANGED HeldCount
    BY <1>6 DEF Next, Publish, PublishLatched, PublisherStep, ConsumerStep,
       LoadReserved, ClaimRefused, ClaimAllowed, Claim, ClaimRetried,
       CallTsfnFails, LatchAfterFailure, AcquireRefused, Copy, CallHandler,
       Stop, vars,
       HeldCount
  <2>3. QED
    BY <2>1, <2>2 DEF AddressInv
<1>7. QED
  BY <1>1, <1>2, <1>3, <1>4, <1>5, <1>6

LEMMA Inductive == IInv /\ [Next]_vars => IInv'
  BY TypeStep, PublisherPreserved, ReservePreserved, LedgerPreserved,
     AddressPreserved DEF IInv

LEMMA InvInit == Init => IInv
  BY TypeInit, PublisherInit, ReserveInit, LedgerInit DEF IInv

LEMMA IInvAlways == Spec => []IInv
  BY InvInit, Inductive, PTL DEF Spec

-----------------------------------------------------------------------------
(* What IInv implies *)

LEMMA UndispatchedLength ==
    ASSUME TypeOK
    PROVE  /\ Len(Undispatched) = HeldCount + Len(tsfnq)
           /\ \A n \in 1 .. Len(Undispatched) :
                  Undispatched[n] = IF HeldCount = 1
                                    THEN IF n = 1 THEN cslot ELSE tsfnq[n - 1]
                                    ELSE tsfnq[n]
<1>1. CASE cpc \in {"copy", "complete"}
  <2>1. Undispatched = <<cslot>> \o tsfnq /\ HeldCount = 1
    BY <1>1 DEF Undispatched, Held, HeldCount
  <2>2. <<cslot>> \in Seq(Index) /\ tsfnq \in Seq(Index)
    BY DEF TypeOK
  <2>3. QED
    BY <2>1, <2>2
<1>2. CASE cpc \notin {"copy", "complete"}
  <2>1. Undispatched = <<>> \o tsfnq /\ HeldCount = 0
    BY <1>2 DEF Undispatched, Held, HeldCount
  <2>2. tsfnq \in Seq(Index)
    BY DEF TypeOK
  <2>3. QED
    BY <2>1, <2>2
<1>3. QED
  BY <1>1, <1>2

\* No slot is reused while its address is queued or being dispatched, for
\* every ring size: the claim limits keep a whole ring from being outstanding
\* past the slot that is filled.
THEOREM SlotsSafe == Spec => []NoSlotReused
<1>1. ASSUME IInv PROVE NoSlotReused
  <2> SUFFICES ASSUME NEW n \in 1 .. Len(Undispatched)
               PROVE  slots[Undispatched[n]].sequence = completed + n - 1
    BY DEF NoSlotReused
  <2>1. TypeOK /\ AddressInv /\ completed \in Nat /\ Len(tsfnq) \in Nat
    BY <1>1 DEF IInv, TypeOK
  <2>2. Len(Undispatched) = HeldCount + Len(tsfnq)
    BY <2>1, UndispatchedLength
  <2>3. CASE HeldCount = 1 /\ n = 1
    <3>1. Undispatched[n] = cslot
      BY <2>1, <2>3, UndispatchedLength
    <3>2. slots[cslot].sequence = completed
      BY <2>1, <2>3 DEF AddressInv
    <3>3. QED
      BY <2>1, <2>3, <3>1, <3>2
  <2>4. CASE HeldCount = 1 /\ n # 1
    <3>1. Undispatched[n] = tsfnq[n - 1] /\ n - 1 \in 1 .. Len(tsfnq)
      BY <2>1, <2>2, <2>4, UndispatchedLength
    <3>2. slots[tsfnq[n - 1]].sequence = completed + 1 + (n - 1) - 1
      BY <2>1, <2>4, <3>1 DEF AddressInv
    <3>3. QED
      BY <2>1, <3>1, <3>2
  <2>5. CASE HeldCount = 0
    <3>1. Undispatched[n] = tsfnq[n] /\ n \in 1 .. Len(tsfnq)
      BY <2>1, <2>2, <2>5, UndispatchedLength
    <3>2. slots[tsfnq[n]].sequence = completed + 0 + n - 1
      BY <2>1, <2>5, <3>1 DEF AddressInv
    <3>3. QED
      BY <2>1, <3>1, <3>2
  <2>6. QED
    BY <2>3, <2>4, <2>5 DEF HeldCount
<1>2. QED
  BY <1>1, IInvAlways, PTL

\* pending() counts the addresses a dispatch is still owed, so finalize frees
\* the ring only when no dispatch can follow, and a failed call never makes it
\* wait for ever.
THEOREM PendingSafe == Spec => []PendingExact
<1>1. ASSUME IInv PROVE PendingExact
  <2> SUFFICES ASSUME envAlive, ppc \in {"idle", "latch"}
               PROVE  Pending = Len(Undispatched)
    BY DEF PendingExact
  <2>1. TypeOK /\ LedgerInv
    BY <1>1 DEF IInv
  <2>2. ClaimedCount = 0 /\ HeldCount \in {0, 1}
    BY DEF ClaimedCount, HeldCount
  <2>3. reserved = completed + HeldCount + Len(tsfnq) + 0 + abandoned
    BY <2>1, <2>2 DEF LedgerInv
  <2>4. /\ reserved \in Nat /\ completed \in Nat /\ abandoned \in Nat
        /\ Len(tsfnq) \in Nat
    BY <2>1 DEF TypeOK
  <2>5. Len(Undispatched) = HeldCount + Len(tsfnq)
    BY <2>1, UndispatchedLength
  <2>6. QED
    BY <2>2, <2>3, <2>4, <2>5 DEF Pending
<1>2. QED
  BY <1>1, IInvAlways, PTL

-----------------------------------------------------------------------------
(* EventChannel implements EventQueue: each step of the ring is a step of   *)
(* the queue or none.                                                       *)

Emitted == [kind : EngineKind, id : 1 .. MaxEmits]

\* The event a publication began with is the one its slot carries when the
\* address is queued, and the consumer's copy is what its slot carries still.
EventInv ==
    /\ emitted <= MaxEmits
    /\ ppc \notin {"idle", "latch"} => pevent \in Emitted
    /\ ppc = "call" => slots[SlotOf(pseq)].event = pevent
    /\ cpc = "complete" => slots[cslot].event = cevent

-----------------------------------------------------------------------------
(* The events of a sequence of addresses *)

EventsOf(u, s) == [n \in 1 .. Len(u) |-> s[u[n]].event]

LEMMA EventsOfType ==
    ASSUME NEW u \in Seq(Index), NEW s \in [Index -> Slot]
    PROVE  /\ EventsOf(u, s) \in Seq(Event)
           /\ Len(EventsOf(u, s)) = Len(u)
<1>1. ASSUME NEW n \in 1 .. Len(u) PROVE s[u[n]].event \in Event
  BY DEF Slot
<1>2. QED
  BY <1>1 DEF EventsOf

LEMMA EventsOfAppend ==
    ASSUME NEW u \in Seq(Index), NEW i \in Index, NEW s \in [Index -> Slot]
    PROVE  EventsOf(Append(u, i), s) = Append(EventsOf(u, s), s[i].event)
  BY EventsOfType DEF EventsOf

LEMMA EventsOfTail ==
    ASSUME NEW u \in Seq(Index), u # <<>>, NEW s \in [Index -> Slot]
    PROVE  /\ EventsOf(u, s) # <<>>
           /\ Head(EventsOf(u, s)) = s[Head(u)].event
           /\ Tail(EventsOf(u, s)) = EventsOf(Tail(u), s)
  BY EventsOfType DEF EventsOf

\* A slot that none of the addresses names may be filled.
LEMMA EventsOfSame ==
    ASSUME NEW u \in Seq(Index), NEW s \in [Index -> Slot], NEW t \in [Index -> Slot],
           \A n \in 1 .. Len(u) : t[u[n]] = s[u[n]]
    PROVE  EventsOf(u, t) = EventsOf(u, s)
  BY DEF EventsOf

LEMMA QueuedIsEventsOf == QueuedEvents = EventsOf(Undispatched, slots)
  BY DEF QueuedEvents, EventsOf

LEMMA UndispatchedType == TypeOK => Undispatched \in Seq(Index)
  BY DEF TypeOK, Undispatched, Held

-----------------------------------------------------------------------------
(* The invariant *)

LEMMA EventInit == Init => EventInv
  BY BoundAssumption DEF Init, EventInv

LEMMA EventPreserved ==
    IInv /\ EventInv /\ [Next]_vars => EventInv'
<1> SUFFICES ASSUME IInv, EventInv, [Next]_vars PROVE EventInv'
  OBVIOUS
<1> USE DEF EventInv, ringVars, pubVars, conVars
<1>0. TypeOK /\ PublisherInv /\ LedgerInv /\ AddressInv
  BY DEF IInv
<1>1. ASSUME NEW k \in Kind, MayEmit(k), Publish(k) PROVE EventInv'
  <2>1. emitted' = emitted + 1 /\ emitted < MaxEmits /\ emitted \in Nat
    BY <1>0, <1>1 DEF MayEmit, Publish, CountEmit, TypeOK
  <2>2. pevent' = [kind |-> k, id |-> emitted + 1]
    BY <1>1 DEF Publish
  <2>3. pevent' \in Emitted /\ emitted' <= MaxEmits
    BY <2>1, <2>2, KindAssumption, BoundAssumption DEF Emitted
  <2>4. QED
    BY <1>1, <2>3 DEF Publish
<1>2. ASSUME NEW k \in Kind, MayEmit(k), PublishLatched(k) PROVE EventInv'
  <2>1. emitted' = emitted + 1 /\ emitted < MaxEmits /\ emitted \in Nat
    BY <1>0, <1>2 DEF MayEmit, PublishLatched, CountEmit, TypeOK
  <2>2. emitted' <= MaxEmits
    BY <2>1, BoundAssumption
  <2>3. QED
    BY <1>2, <2>2 DEF PublishLatched
<1>3. CASE Fill
  <2>1. SlotOf(pseq) \in Index
    BY <1>0, SlotOfIndex DEF TypeOK
  <2>2. slots'[SlotOf(pseq)].event = pevent
    BY <1>0, <1>3, <2>1 DEF Fill, TypeOK
  <2>3. cpc = "complete" => slots'[cslot] = slots[cslot]
    BY <1>0, <1>3, FilledSlotIsFree DEF Fill, HeldCount, TypeOK
  <2>4. QED
    BY <1>3, <2>2, <2>3 DEF Fill
<1>4. CASE LoadReserved \/ ClaimRefused \/ ClaimAllowed \/ Claim \/ ClaimRetried
           \/ CallTsfn \/ CallTsfnFails \/ LatchAfterFailure
  BY <1>4 DEF LoadReserved, ClaimRefused, ClaimAllowed, Claim, ClaimRetried, CallTsfn,
     CallTsfnFails, LatchAfterFailure
<1>5. CASE ConsumerStep
  BY <1>5 DEF ConsumerStep, Take, Copy, Complete, CallHandler
<1>6. CASE AcquireRefused \/ Stop \/ TearDown \/ UNCHANGED vars
  BY <1>6 DEF AcquireRefused, Stop, TearDown, vars
<1>7. QED
  BY <1>1, <1>2, <1>3, <1>4, <1>5, <1>6 DEF Next, PublisherStep

-----------------------------------------------------------------------------
(* Steps of the queue *)

\* A step that neither queues nor completes an address, and fills no slot.
LEMMA Stutter ==
    ASSUME UNCHANGED <<slots, envAlive>>, Undispatched' = Undispatched, Dispatched' = Dispatched
    PROVE  UNCHANGED Abstract!vars
  BY DEF Abstract!vars, QueuedEvents

\* Queueing the address of a slot queues the event of the publication.
LEMMA CallQueues ==
    ASSUME IInv, EventInv, CallTsfn
    PROVE  /\ QueuedEvents' = Append(QueuedEvents, pevent)
           /\ Dispatched' = Dispatched
           /\ envAlive /\ envAlive' = envAlive
<1>0. TypeOK
  BY DEF IInv
<1>1. slots[SlotOf(pseq)].event = pevent
  BY DEF EventInv, CallTsfn
<1>2. SlotOf(pseq) \in Index
  BY <1>0, SlotOfIndex DEF TypeOK
<1>3. Undispatched' = Append(Undispatched, SlotOf(pseq))
  BY <1>0, <1>2, UndispatchedType
  DEF CallTsfn, conVars, Undispatched, Held, TypeOK
<1>4. slots' = slots /\ slots \in [Index -> Slot]
  BY <1>0 DEF CallTsfn, ringVars, TypeOK
<1>5. EventsOf(Append(Undispatched, SlotOf(pseq)), slots)
          = Append(EventsOf(Undispatched, slots), pevent)
  BY <1>0, <1>1, <1>2, <1>4, EventsOfAppend, UndispatchedType
<1>6. QueuedEvents' = Append(QueuedEvents, pevent)
  BY <1>3, <1>4, <1>5 DEF QueuedEvents, EventsOf
<1>7. UNCHANGED <<Dispatched, envAlive>> /\ envAlive
  BY DEF CallTsfn, conVars, Dispatched
<1>8. QED
  BY <1>6, <1>7

\* An event is accepted when its address is queued, and below its limit: what
\* is not completed was claimed below it.
LEMMA CallAccepts ==
    ASSUME IInv, EventInv, CallTsfn
    PROVE  \E e \in Emitted : Abstract!Accept(e)
<1>0. TypeOK /\ PublisherInv /\ LedgerInv
  BY DEF IInv
<1>1. pevent \in Emitted /\ envAlive
  BY DEF EventInv, CallTsfn
<1>2. Len(QueuedEvents) < LimitOf(pevent.kind)
  <2>1. Len(QueuedEvents) = HeldCount + Len(tsfnq)
    BY <1>0, QueuedIsEventsOf, EventsOfType, UndispatchedType,
       UndispatchedLength DEF TypeOK
  <2>2. /\ reserved = completed + HeldCount + Len(tsfnq) + 1 + abandoned
        /\ reserved = pseq + 1
    BY <1>0, <1>1 DEF LedgerInv, PublisherInv, ClaimedCount, CallTsfn
  <2>3. /\ pseq - completed < LimitOf(pevent.kind)
        /\ LimitOf(pevent.kind) \in Nat
    BY <1>0, LimitBounds DEF PublisherInv, CallTsfn, TypeOK, Event
  <2>4. /\ reserved \in Nat /\ completed \in Nat /\ abandoned \in Nat
        /\ pseq \in Nat /\ Len(tsfnq) \in Nat /\ HeldCount \in Nat
    BY <1>0 DEF TypeOK, HeldCount
  <2>5. QED
    BY <2>1, <2>2, <2>3, <2>4
<1>3. QED
  BY <1>1, <1>2, CallQueues DEF Abstract!Accept, Emitted

\* It is delivered when its sequence is completed: from there on the handler
\* runs with the copy.
LEMMA CompleteDelivers ==
    ASSUME IInv, EventInv, Complete
    PROVE  Abstract!Deliver
<1>0. TypeOK /\ LedgerInv
  BY DEF IInv
<1>1. Undispatched = <<cslot>> \o tsfnq /\ Undispatched' = <<>> \o tsfnq
  BY DEF Complete, Undispatched, Held
<1>2. Undispatched # <<>> /\ Head(Undispatched) = cslot /\ Tail(Undispatched) = Undispatched'
  BY <1>0, <1>1 DEF TypeOK
<1>3. slots' = slots /\ slots \in [Index -> Slot] /\ Undispatched \in Seq(Index)
  BY <1>0, UndispatchedType DEF Complete, TypeOK
<1>4. /\ QueuedEvents # <<>> /\ Head(QueuedEvents) = slots[cslot].event
      /\ Tail(QueuedEvents) = QueuedEvents'
  <2>1. QueuedEvents' = EventsOf(Undispatched', slots)
    BY <1>3 DEF QueuedEvents, EventsOf
  <2>2. QED
    BY <1>2, <1>3, <2>1, EventsOfTail, QueuedIsEventsOf
<1>5. Dispatched' = Append(Dispatched, slots[cslot].event)
  BY DEF Complete, Dispatched, EventInv
<1>6. envAlive /\ envAlive' = envAlive
  BY <1>0 DEF LedgerInv, Complete
<1>7. QED
  BY <1>4, <1>5, <1>6 DEF Abstract!Deliver

LEMMA TearDownDiscards ==
    ASSUME TearDown  PROVE  Abstract!Discard
  BY DEF TearDown, conVars, Abstract!Discard, Dispatched

LEMMA FillIsHidden ==
    ASSUME IInv, Fill  PROVE  UNCHANGED Abstract!vars
<1>0. TypeOK /\ PublisherInv /\ LedgerInv /\ AddressInv /\ ppc = "fill"
  BY DEF IInv, Fill
<1>1. slots' \in [Index -> Slot] /\ slots \in [Index -> Slot] /\ Undispatched \in Seq(Index)
  <2>1. TypeOK'
    BY <1>0, TypeStep DEF Next, PublisherStep
  <2>2. QED
    BY <1>0, <2>1, UndispatchedType DEF TypeOK
<1>2. \A i \in Index : i # SlotOf(pseq) => slots'[i] = slots[i]
  BY <1>0 DEF Fill, TypeOK
<1>3. ASSUME NEW n \in 1 .. Len(Undispatched) PROVE slots'[Undispatched[n]] = slots[Undispatched[n]]
  <2>1. Undispatched[n] # SlotOf(pseq)
    BY <1>0, UndispatchedLength, FilledSlotIsFree DEF HeldCount, TypeOK
  <2>2. QED
    BY <1>1, <1>2, <2>1
<1>4. EventsOf(Undispatched, slots') = EventsOf(Undispatched, slots)
  BY <1>1, <1>3, EventsOfSame
<1>5. Undispatched' = Undispatched /\ Dispatched' = Dispatched /\ envAlive' = envAlive
  BY DEF Fill, conVars, Undispatched, Held, Dispatched
<1>6. QueuedEvents' = QueuedEvents
  BY <1>4, <1>5 DEF QueuedEvents, EventsOf
<1>7. QED
  BY <1>5, <1>6 DEF Abstract!vars

LEMMA TakeIsHidden ==
    ASSUME IInv, Take  PROVE  UNCHANGED Abstract!vars
<1>1. tsfnq \in Seq(Index) /\ tsfnq # <<>>
  BY DEF IInv, TypeOK, Take
<1>2. <<>> \o tsfnq = <<Head(tsfnq)>> \o Tail(tsfnq)
  BY <1>1
<1>3. Undispatched' = Undispatched
  BY <1>2 DEF Take, Undispatched, Held
<1>4. QED
  BY <1>3, Stutter DEF Take, ringVars, Dispatched

\* Every other step leaves the queue alone.
LEMMA HiddenStep ==
    ASSUME IInv, [Next]_vars, ~CallTsfn, ~Complete, ~TearDown
    PROVE  UNCHANGED Abstract!vars
<1> USE DEF ringVars, pubVars, conVars
<1>1. CASE Fill \/ Take
  BY <1>1, FillIsHidden, TakeIsHidden
<1>2. CASE \E k \in Kind : Publish(k) \/ PublishLatched(k)
  BY <1>2, Stutter
  DEF Publish, PublishLatched, Undispatched, Held, Dispatched
<1>3. CASE LoadReserved \/ ClaimRefused \/ ClaimAllowed \/ Claim
           \/ ClaimRetried \/ CallTsfnFails \/ LatchAfterFailure
  BY <1>3, Stutter DEF LoadReserved, ClaimRefused, ClaimAllowed, Claim,
     ClaimRetried, CallTsfnFails, LatchAfterFailure, Undispatched, Held,
     Dispatched
<1>4. CASE Copy \/ CallHandler
  BY <1>4, Stutter DEF Copy, CallHandler, Undispatched, Held, Dispatched
<1>5. CASE AcquireRefused \/ Stop \/ UNCHANGED vars
  BY <1>5, Stutter
  DEF AcquireRefused, Stop, vars, Undispatched, Held, Dispatched
<1>6. QED
  BY <1>1, <1>2, <1>3, <1>4, <1>5 DEF Next, PublisherStep, ConsumerStep

LEMMA StepImplements ==
    ASSUME IInv, EventInv, [Next]_vars
    PROVE  [Abstract!Next]_(Abstract!vars)
<1>1. CASE CallTsfn
  BY <1>1, CallAccepts DEF Abstract!Next, Emitted
<1>2. CASE Complete
  BY <1>2, CompleteDelivers DEF Abstract!Next
<1>3. CASE TearDown
  BY <1>3, TearDownDiscards DEF Abstract!Next
<1>4. CASE ~CallTsfn /\ ~Complete /\ ~TearDown
  BY <1>4, HiddenStep
<1>5. QED
  BY <1>1, <1>2, <1>3, <1>4

\* Every event accepted and not discarded, oldest first: what was dispatched,
\* then what waits.
Line == Dispatched \o (IF envAlive THEN QueuedEvents ELSE <<>>)

LEMMA LineType ==
    TypeOK => /\ Line \in Seq(Event)
              /\ Dispatched \in Seq(Event) /\ QueuedEvents \in Seq(Event)
<1> SUFFICES ASSUME TypeOK PROVE /\ Line \in Seq(Event)
                                 /\ Dispatched \in Seq(Event)
                                 /\ QueuedEvents \in Seq(Event)
  OBVIOUS
<1>1. QueuedEvents \in Seq(Event)
  BY QueuedIsEventsOf, EventsOfType, UndispatchedType DEF TypeOK
<1>2. Dispatched \in Seq(Event)
  BY DEF TypeOK, Dispatched
<1>3. QED
  BY <1>1, <1>2 DEF Line

\* Delivering moves the boundary in the line and not the line; only queueing
\* an address makes it longer, and only the teardown makes it shorter.
LEMMA LineStep ==
    IInv /\ EventInv /\ [Next]_vars =>
        /\ CallTsfn => Line' = Append(Line, pevent)
        /\ TearDown => Line' = Dispatched
        /\ ~CallTsfn /\ ~TearDown => Line' = Line
<1> SUFFICES ASSUME IInv, EventInv, [Next]_vars
             PROVE  /\ CallTsfn => Line' = Append(Line, pevent)
                    /\ TearDown => Line' = Dispatched
                    /\ ~CallTsfn /\ ~TearDown => Line' = Line
  OBVIOUS
<1>0. TypeOK /\ Dispatched \in Seq(Event) /\ QueuedEvents \in Seq(Event)
  BY LineType DEF IInv
<1>1. CallTsfn => Line' = Append(Line, pevent)
  <2> SUFFICES ASSUME CallTsfn PROVE Line' = Append(Line, pevent)
    OBVIOUS
  <2>1. /\ QueuedEvents' = Append(QueuedEvents, pevent)
        /\ Dispatched' = Dispatched
        /\ envAlive /\ envAlive' = envAlive
    BY CallQueues
  <2>2. ASSUME NEW d \in Seq(Event), NEW q \in Seq(Event), NEW e \in Event
        PROVE  d \o Append(q, e) = Append(d \o q, e)
    OBVIOUS
  <2>3. Dispatched \o Append(QueuedEvents, pevent)
            = Append(Dispatched \o QueuedEvents, pevent)
    BY <1>0, <2>2 DEF TypeOK
  <2>4. /\ Line' = Dispatched' \o QueuedEvents'
        /\ Line = Dispatched \o QueuedEvents
    BY <2>1 DEF Line
  <2>5. QED
    BY <2>1, <2>3, <2>4
<1>2. TearDown => Line' = Dispatched
  <2> SUFFICES ASSUME TearDown PROVE Line' = Dispatched
    OBVIOUS
  <2>1. Dispatched' = Dispatched /\ ~envAlive'
    BY DEF TearDown, conVars, Dispatched
  <2>2. Line' = Dispatched \o <<>>
    BY <2>1 DEF Line
  <2>3. QED
    BY <1>0, <2>2
<1>3. Complete => Line' = Line
  <2> SUFFICES ASSUME Complete PROVE Line' = Line
    OBVIOUS
  <2>1. Abstract!Deliver /\ envAlive /\ envAlive' = envAlive
    BY CompleteDelivers DEF Complete, IInv, LedgerInv
  <2>2. /\ QueuedEvents # <<>> /\ QueuedEvents' = Tail(QueuedEvents)
        /\ Dispatched' = Append(Dispatched, Head(QueuedEvents))
    BY <2>1 DEF Abstract!Deliver
  <2>3. Append(Dispatched, Head(QueuedEvents)) \o Tail(QueuedEvents)
            = Dispatched \o QueuedEvents
    BY <1>0, <2>2
  <2>4. QED
    BY <2>1, <2>2, <2>3 DEF Line
<1>4. UNCHANGED Abstract!vars => Line' = Line
  BY DEF Abstract!vars, Line
<1>5. QED
  BY <1>1, <1>2, <1>3, <1>4, HiddenStep

LEMMA InitImplements == Init => Abstract!Init
  BY DEF Init, Abstract!Init, QueuedEvents, Undispatched, Held, Dispatched

\* The ring, its counters and the threadsafe function deliver every accepted
\* event once, in order and unmixed, and accept each kind below its limit
\* only, for every ring size (ring.zig, callbacks.zig, dispatch.zig).
THEOREM QueueImplemented == Spec => ImplementsQueue
<1>1. Init => EventInv
  BY EventInit
<1>2. Spec => [](IInv /\ EventInv)
  BY <1>1, IInvAlways, EventPreserved, PTL DEF Spec
<1>3. QED
  BY <1>2, InitImplements, StepImplements, PTL DEF Spec, ImplementsQueue, Abstract!Spec
=============================================================================
