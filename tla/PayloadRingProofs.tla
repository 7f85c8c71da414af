-------------------------- MODULE PayloadRingProofs -------------------------
(***************************************************************************)
(* Theorems about PayloadRing, for every number of slots and every width   *)
(* of the positions: it implements BoundedFifo although they wrap around.  *)
(***************************************************************************)
EXTENDS PayloadRing, TLAPS

\* Positions reserved and not given back, and those of them published.
Count     == (enqueue_pos - Oldest) % WordSize
Published == Count - (IF Writing THEN 1 ELSE 0)

\* The slot of the k-th position after o.
SlotAt(o, k) == Plus(o, k) % Slots

\* From o on, n slots are published and whole; the others carry the position
\* that may claim them.
Ring(o, n, seq, by, fi) ==
    \A k \in Slot :
        IF k < n
        THEN /\ seq[SlotAt(o, k)] = Plus(Plus(o, k), 1)
             /\ by[SlotAt(o, k)] = fi[SlotAt(o, k)]
        ELSE seq[SlotAt(o, k)] = Plus(o, k)

RingInv == /\ Count <= Slots
           /\ Ring(Oldest, Published, sequences, bytes, fields)

ProducerInv ==
    /\ producer.pc # "idle" => producer.payload \in Payload
    /\ producer.pc = "claim" => producer.pos = enqueue_pos
    /\ Writing => Count >= 1 /\ producer.pos = Plus(Oldest, Count - 1)
    /\ producer.pc \in {"fields", "publish"} =>
           bytes[producer.pos % Slots] = producer.payload
    /\ producer.pc = "publish" =>
           fields[producer.pos % Slots] = producer.payload

ConsumerInv ==
    /\ consumer.pc # "idle" => consumer.view.sequence = dequeue_pos
    /\ consumer.pc = "holding" =>
           /\ Published >= 1
           /\ consumer.view.fields = fields[dequeue_pos % Slots]

IInv == TypeOK /\ RingInv /\ ProducerInv /\ ConsumerInv

-----------------------------------------------------------------------------
(* Wrapping arithmetic                                                     *)

LEMMA Sizes == /\ Slots \in Nat /\ Slots > 1 /\ WordSize \in Nat /\ WordSize > 2 * Slots
BY RingAssumption

(* A remainder and its quotient determine a number.                        *)
LEMMA DivMod ==
    ASSUME NEW c \in Nat, c > 0, NEW a \in Int
    PROVE  a = c * (a \div c) + (a % c) /\ a \div c \in Int /\ a % c \in 0 .. c - 1
<1>1. a = c * (a \div c) + (a % c)
  BY SMTT(10)
<1>2. a % c \in 0 .. c - 1
  BY SMTT(10)
<1> QED BY <1>1, <1>2, SMTT(10)

LEMMA SameMultiple ==
    ASSUME NEW c \in Nat, c > 0, NEW x \in Int, NEW y \in Int,
           -c < c * x - c * y, c * x - c * y < c
    PROVE  x = y
BY SMTT(30)

(* Numbers with the same remainder that are less than c apart are equal.   *)
LEMMA ModInjective ==
    ASSUME NEW c \in Nat, c > 0, NEW a \in Int, NEW b \in Int,
           -c < a - b, a - b < c, a % c = b % c
    PROVE  a = b
<1> DEFINE x == a \div c
           y == b \div c
           r == a % c
<1>1. /\ a = c * x + r /\ b = c * y + r /\ x \in Int /\ y \in Int /\ r \in Int
  BY DivMod
<1> HIDE DEF x, y, r
<1>2. c * x \in Int /\ c * y \in Int
  BY <1>1
<1>3. c * x - c * y = a - b
  BY <1>1, <1>2
<1>4. x = y
  BY <1>1, <1>3, SameMultiple
<1> QED BY <1>1, <1>4

(* The remainder of a number less than one word away.                      *)
LEMMA WordRemainder ==
    ASSUME NEW a \in Int, -WordSize <= a, a < 2 * WordSize
    PROVE  a % WordSize = IF a < 0 THEN a + WordSize
                          ELSE IF a < WordSize THEN a ELSE a - WordSize
BY Sizes, SMTT(20)

(* A whole word does not move a slot.                                      *)
LEMMA SlotOfWord ==
    ASSUME NEW a \in Nat
    PROVE  (a + WordSize) % Slots = a % Slots
<1> DEFINE q == WordSize \div Slots
           x == a \div Slots
           y == (a + WordSize) \div Slots
<1>1. WordSize = Slots * q /\ q \in Int
  BY DivMod, Sizes, RingAssumption
<1>2. a = Slots * x + (a % Slots) /\ x \in Int /\ a % Slots \in 0 .. Slots - 1
  BY DivMod, Sizes
<1>3. a + WordSize = Slots * y + ((a + WordSize) % Slots) /\ y \in Int
      /\ (a + WordSize) % Slots \in 0 .. Slots - 1
  BY DivMod, Sizes
<1> HIDE DEF q, x, y
<1>4. PICK r \in 0 .. Slots - 1, s \in 0 .. Slots - 1 :
          r = a % Slots /\ s = (a + WordSize) % Slots
  BY <1>2, <1>3
<1>5. Slots * (x + q) = Slots * x + Slots * q /\ x + q \in Int
  BY <1>1, <1>2, Sizes
<1>6. Slots * y - Slots * (x + q) = r - s
  BY <1>1, <1>2, <1>3, <1>4, <1>5, Sizes
<1>7. y = x + q
  BY <1>3, <1>4, <1>5, <1>6, Sizes, SameMultiple
<1>8. Slots * y = Slots * (x + q) /\ Slots * y \in Int
  BY <1>3, <1>7, Sizes
<1>9. PICK m \in Int : m = Slots * y
  BY <1>8
<1>10. m - m = r - s
  BY <1>6, <1>8, <1>9
<1> QED BY <1>4, <1>9, <1>10

LEMMA PlusType ==
    ASSUME NEW a \in Int, NEW b \in Int
    PROVE  Plus(a, b) \in Word
BY DivMod, Sizes DEF Plus, Word

LEMMA SlotType ==
    ASSUME NEW a \in Int
    PROVE  a % Slots \in Slot
BY DivMod, Sizes DEF Slot

LEMMA PlusZero ==
    ASSUME NEW a \in Word
    PROVE  Plus(a, 0) = a
BY WordRemainder, Sizes DEF Plus, Word

LEMMA WordSum ==
    ASSUME NEW a \in Word, NEW k \in 0 .. Slots
    PROVE  Plus(a, k) = IF a + k < WordSize THEN a + k ELSE a + k - WordSize
BY WordRemainder, Sizes DEF Word, Plus

LEMMA PlusPlus ==
    ASSUME NEW a \in Word, NEW j \in 0 .. Slots, NEW k \in 0 .. Slots, j + k <= Slots
    PROVE  Plus(Plus(a, j), k) = Plus(a, j + k)
<1>1. (a + j) % WordSize = IF a + j < WordSize THEN a + j ELSE a + j - WordSize
  BY WordRemainder, Sizes DEF Word
<1>2. (a + (j + k)) % WordSize = IF a + (j + k) < WordSize THEN a + (j + k)
                                 ELSE a + (j + k) - WordSize
  BY WordRemainder, Sizes DEF Word
<1>3. CASE a + j < WordSize
  <2>1. Plus(a, j) + k = a + (j + k)
    BY <1>1, <1>3, Sizes DEF Plus, Word
  <2> QED BY <2>1 DEF Plus
<1>4. CASE a + j >= WordSize
  <2>1. Plus(a, j) = a + j - WordSize
    BY <1>1, <1>4, Sizes DEF Plus, Word
  <2>2. (a + j - WordSize + k) % WordSize = a + j - WordSize + k
    BY <1>4, WordRemainder, Sizes DEF Word
  <2> QED BY <1>2, <1>4, <2>1, <2>2, Sizes DEF Plus, Word
<1> QED BY <1>3, <1>4, Sizes DEF Word

(* The slot of a wrapping sum is that of the sum.                          *)
LEMMA SlotOfSum ==
    ASSUME NEW a \in Word, NEW k \in 0 .. Slots
    PROVE  SlotAt(a, k) = (a + k) % Slots
<1>1. CASE a + k < WordSize
  BY <1>1, WordRemainder, Sizes DEF SlotAt, Plus, Word
<1>2. CASE a + k >= WordSize
  <2>1. Plus(a, k) = a + k - WordSize
    BY <1>2, WordRemainder, Sizes DEF Plus, Word
  <2>2. PICK b \in Nat : b = a + k - WordSize
    BY <1>2, Sizes DEF Word
  <2>3. (b + WordSize) % Slots = b % Slots
    BY SlotOfWord
  <2>4. b + WordSize = a + k
    BY <2>2, Sizes DEF Word
  <2>5. (a + k) % Slots = b % Slots
    BY <2>3, <2>4
  <2> QED BY <2>1, <2>2, <2>5 DEF SlotAt
<1> QED BY <1>1, <1>2, Sizes DEF Word

(* Positions less than a ring apart have slots of their own.               *)
LEMMA SlotsDistinct ==
    ASSUME NEW a \in Word, NEW j \in Slot, NEW k \in Slot, SlotAt(a, j) = SlotAt(a, k)
    PROVE  j = k
<1>1. (a + j) % Slots = (a + k) % Slots
  BY SlotOfSum, Sizes DEF Slot
<1>2. a + j = a + k
  BY <1>1, ModInjective, Sizes DEF Slot, Word
<1> QED BY <1>2 DEF Slot, Word

LEMMA NextLap ==
    ASSUME NEW a \in Word
    PROVE  SlotAt(a, Slots) = SlotAt(a, 0) /\ SlotAt(a, 0) = a % Slots
<1>1. SlotAt(a, Slots) = (a + Slots) % Slots /\ SlotAt(a, 0) = (a + 0) % Slots
  BY SlotOfSum, Sizes
<1>2. (a + Slots) % Slots = a % Slots
  <2> DEFINE x == a \div Slots
             y == (a + Slots) \div Slots
  <2>1. PICK r \in 0 .. Slots - 1 : r = a % Slots
    BY DivMod, Sizes DEF Word
  <2>2. PICK s \in 0 .. Slots - 1 : s = (a + Slots) % Slots
    BY DivMod, Sizes DEF Word
  <2>3. a = Slots * x + r /\ x \in Int
    BY <2>1, DivMod, Sizes DEF Word
  <2>4. a + Slots = Slots * y + s /\ y \in Int
    BY <2>2, DivMod, Sizes DEF Word
  <2> HIDE DEF x, y
  <2>5. PICK m \in Int, n \in Int : m = Slots * x /\ n = Slots * y
    BY <2>3, <2>4, Sizes
  <2>6. Slots * (x + 1) = m + Slots /\ x + 1 \in Int
    BY <2>3, <2>5, Sizes
  <2>7. n - (m + Slots) = r - s
    BY <2>3, <2>4, <2>5, Sizes DEF Word
  <2>8. y = x + 1
    BY <2>4, <2>5, <2>6, <2>7, Sizes, SameMultiple
  <2>9. n = m + Slots
    BY <2>5, <2>6, <2>8
  <2> QED BY <2>1, <2>2, <2>5, <2>7, <2>9, Sizes
<1> QED BY <1>1, <1>2 DEF Word

(* The wrapping distance from a to a position of the ring.                 *)
LEMMA Distance ==
    ASSUME NEW a \in Word, NEW b \in Word, NEW n \in Nat, n = (b - a) % WordSize
    PROVE  /\ Plus(a, n) = b
           /\ n + 1 < WordSize => (Plus(b, 1) - a) % WordSize = n + 1
           /\ n >= 1 => (b - Plus(a, 1)) % WordSize = n - 1
<1>1. n = IF b < a THEN b - a + WordSize ELSE b - a
  BY WordRemainder, Sizes DEF Word
<1>2. Plus(a, n) = b
  BY <1>1, WordRemainder, Sizes DEF Word, Plus
<1>3. ASSUME n + 1 < WordSize PROVE (Plus(b, 1) - a) % WordSize = n + 1
  <2>1. Plus(b, 1) = IF b + 1 < WordSize THEN b + 1 ELSE b + 1 - WordSize
    BY WordRemainder, Sizes DEF Word, Plus
  <2>2. PICK c \in Word : c = Plus(b, 1)
    BY PlusType DEF Word
  <2>3. (c - a) % WordSize = IF c < a THEN c - a + WordSize ELSE c - a
    BY WordRemainder, Sizes DEF Word
  <2> QED BY <1>1, <1>3, <2>1, <2>2, <2>3, Sizes DEF Word
<1>4. ASSUME n >= 1 PROVE (b - Plus(a, 1)) % WordSize = n - 1
  <2>1. Plus(a, 1) = IF a + 1 < WordSize THEN a + 1 ELSE a + 1 - WordSize
    BY WordRemainder, Sizes DEF Word, Plus
  <2>2. PICK c \in Word : c = Plus(a, 1)
    BY PlusType DEF Word
  <2>3. (b - c) % WordSize = IF b < c THEN b - c + WordSize ELSE b - c
    BY WordRemainder, Sizes DEF Word
  <2> QED BY <1>1, <1>4, <2>1, <2>2, <2>3, Sizes DEF Word
<1> QED BY <1>2, <1>3, <1>4

(* What the two ends read in a sequence word: a free slot is level with    *)
(* the producer and behind the consumer, a published one of the lap before *)
(* is behind the producer.                                                 *)
LEMMA Readings ==
    ASSUME NEW a \in Word
    PROVE  /\ Difference(a, a) = 0
           /\ Difference(a, Plus(a, 1)) < 0
           /\ Difference(Plus(a, 1), Plus(a, Slots)) < 0
           /\ Difference(Plus(a, 1), Plus(a, Slots)) # 0
<1>1. Difference(a, a) = 0
  <2>1. (a - a) % WordSize = 0
    BY WordRemainder, Sizes DEF Word
  <2> QED BY <2>1, Sizes DEF Difference
<1>11. a \in Int /\ 1 \in Int /\ Slots \in Int
  BY Sizes DEF Word
<1>12. Plus(a, 1) \in Word /\ Plus(a, Slots) \in Word
  BY <1>11, PlusType
<1>2. PICK b \in Word : b = Plus(a, 1)
  BY <1>12
<1>8. PICK c \in Word : c = Plus(a, Slots)
  BY <1>12
<1>9. b = IF a + 1 < WordSize THEN a + 1 ELSE a + 1 - WordSize
  BY <1>2, WordSum, Sizes
<1>10. c = IF a + Slots < WordSize THEN a + Slots ELSE a + Slots - WordSize
  BY <1>8, WordSum, Sizes
<1>3. /\ b = IF a + 1 < WordSize THEN a + 1 ELSE a + 1 - WordSize
      /\ c = IF a + Slots < WordSize THEN a + Slots ELSE a + Slots - WordSize
  BY <1>9, <1>10
<1>4. (a - b) % WordSize = WordSize - 1
  <2>1. (a - b) % WordSize = IF a - b < 0 THEN a - b + WordSize ELSE a - b
    BY WordRemainder, Sizes DEF Word
  <2> QED BY <1>3, <2>1, Sizes DEF Word
<1>5. (b - c) % WordSize = WordSize + 1 - Slots
  <2>1. (b - c) % WordSize = IF b - c < 0 THEN b - c + WordSize ELSE b - c
    BY WordRemainder, Sizes DEF Word
  <2> QED BY <1>3, <2>1, Sizes DEF Word
<1>6. Difference(a, b) < 0
  BY <1>4, Sizes DEF Difference
<1>7. Difference(b, c) < 0 /\ Difference(b, c) # 0
  BY <1>5, Sizes DEF Difference
<1> QED BY <1>1, <1>2, <1>6, <1>7, <1>8

LEMMA DifferenceType ==
    ASSUME NEW a \in Word, NEW b \in Word
    PROVE  Difference(a, b) \in Int
BY DivMod, Sizes DEF Difference, Word

(* A distance that is not zero, less one.                                  *)
LEMMA LessOne ==
    ASSUME NEW a \in Word, NEW b \in Word, (b - a) % WordSize >= 1
    PROVE  (b - a - 1) % WordSize = ((b - a) % WordSize) - 1
BY WordRemainder, Sizes DEF Word

-----------------------------------------------------------------------------
(* The ring and its queue                                                  *)

Words == [Slot -> Word]
Cells == [Slot -> Payload \cup {Garbage}]

LEMMA SlotAtType ==
    ASSUME NEW o \in Word, NEW k \in Int
    PROVE  SlotAt(o, k) \in Slot
BY PlusType, SlotType DEF SlotAt, Word

(* Copying into the first slot that is not published disturbs nothing.     *)
LEMMA RingCopyBytes ==
    ASSUME NEW o \in Word, NEW n \in Slot, NEW seq \in Words, NEW by \in Cells,
           NEW fi \in Cells, NEW p, Ring(o, n, seq, by, fi)
    PROVE  Ring(o, n, seq, [by EXCEPT ![SlotAt(o, n)] = p], fi)
<1> SUFFICES ASSUME NEW k \in Slot, k < n
             PROVE  [by EXCEPT ![SlotAt(o, n)] = p][SlotAt(o, k)] = by[SlotAt(o, k)]
  BY DEF Ring
<1>1. SlotAt(o, k) # SlotAt(o, n) /\ SlotAt(o, k) \in Slot
  BY SlotsDistinct, SlotAtType DEF Slot
<1> QED BY <1>1 DEF Cells

LEMMA RingCopyFields ==
    ASSUME NEW o \in Word, NEW n \in Slot, NEW seq \in Words, NEW by \in Cells,
           NEW fi \in Cells, NEW p, Ring(o, n, seq, by, fi)
    PROVE  Ring(o, n, seq, by, [fi EXCEPT ![SlotAt(o, n)] = p])
<1> SUFFICES ASSUME NEW k \in Slot, k < n
             PROVE  [fi EXCEPT ![SlotAt(o, n)] = p][SlotAt(o, k)] = fi[SlotAt(o, k)]
  BY DEF Ring
<1>1. SlotAt(o, k) # SlotAt(o, n) /\ SlotAt(o, k) \in Slot
  BY SlotsDistinct, SlotAtType DEF Slot
<1> QED BY <1>1 DEF Cells

LEMMA RingPublish ==
    ASSUME NEW o \in Word, NEW n \in Slot, NEW seq \in Words, NEW by \in Cells,
           NEW fi \in Cells, Ring(o, n, seq, by, fi),
           by[SlotAt(o, n)] = fi[SlotAt(o, n)]
    PROVE  Ring(o, n + 1,
                [seq EXCEPT ![SlotAt(o, n)] = Plus(Plus(o, n), 1)], by, fi)
<1> DEFINE seq2 == [seq EXCEPT ![SlotAt(o, n)] = Plus(Plus(o, n), 1)]
<1>1. SlotAt(o, n) \in Slot /\ seq2[SlotAt(o, n)] = Plus(Plus(o, n), 1)
  BY SlotAtType DEF Words, Slot
<1>2. ASSUME NEW k \in Slot, k # n
      PROVE  seq2[SlotAt(o, k)] = seq[SlotAt(o, k)]
  <2>1. SlotAt(o, k) # SlotAt(o, n) /\ SlotAt(o, k) \in Slot
    BY <1>2, SlotsDistinct, SlotAtType DEF Slot
  <2> QED BY <2>1 DEF Words
<1> HIDE DEF seq2
<1>3. ASSUME NEW k \in Slot
      PROVE  IF k < n + 1
             THEN /\ seq2[SlotAt(o, k)] = Plus(Plus(o, k), 1)
                  /\ by[SlotAt(o, k)] = fi[SlotAt(o, k)]
             ELSE seq2[SlotAt(o, k)] = Plus(o, k)
  <2>1. CASE k = n
    BY <1>1, <2>1 DEF Slot
  <2>2. CASE k # n
    <3>1. k < n + 1 <=> k < n
      BY <2>2 DEF Slot
    <3> QED BY <1>2, <2>2, <3>1 DEF Ring
  <2> QED BY <2>1, <2>2
<1>4. Ring(o, n + 1, seq2, by, fi)
  BY <1>3 DEF Ring
<1> QED BY <1>4 DEF seq2

LEMMA RingRelease ==
    ASSUME NEW o \in Word, NEW n \in 1 .. Slots, NEW seq \in Words, NEW by \in Cells,
           NEW fi \in Cells, Ring(o, n, seq, by, fi)
    PROVE  Ring(Plus(o, 1), n - 1,
                [seq EXCEPT ![o % Slots] = Plus(o, Slots)], by, fi)
<1> DEFINE seq2 == [seq EXCEPT ![o % Slots] = Plus(o, Slots)]
<1>1. SlotAt(o, 0) = o % Slots /\ SlotAt(o, Slots) = o % Slots /\ o % Slots \in Slot
  BY NextLap, SlotType DEF Word
<1>2. seq2[o % Slots] = Plus(o, Slots)
  BY <1>1 DEF Words
<1>3. ASSUME NEW k \in Slot, k # 0
      PROVE  seq2[SlotAt(o, k)] = seq[SlotAt(o, k)]
  <2>1. 0 \in Slot
    BY Sizes DEF Slot
  <2>2. SlotAt(o, k) # SlotAt(o, 0) /\ SlotAt(o, k) \in Slot
    BY <1>3, <2>1, SlotsDistinct, SlotAtType DEF Slot
  <2> QED BY <1>1, <2>2 DEF Words
<1> HIDE DEF seq2
<1>4. ASSUME NEW k \in Slot
      PROVE  /\ Plus(Plus(o, 1), k) = Plus(o, k + 1)
             /\ SlotAt(Plus(o, 1), k) = SlotAt(o, k + 1)
  <2>1. Plus(Plus(o, 1), k) = Plus(o, 1 + k) /\ 1 + k = k + 1
    BY PlusPlus, Sizes DEF Slot
  <2> QED BY <2>1 DEF SlotAt
<1>5. ASSUME NEW k \in Slot
      PROVE  IF k < n - 1
             THEN /\ seq2[SlotAt(o, k + 1)] = Plus(Plus(o, k + 1), 1)
                  /\ by[SlotAt(o, k + 1)] = fi[SlotAt(o, k + 1)]
             ELSE seq2[SlotAt(o, k + 1)] = Plus(o, k + 1)
  <2>1. CASE k = Slots - 1
    <3>1. k + 1 = Slots /\ ~(k < n - 1)
      BY <2>1, Sizes
    <3> QED BY <1>1, <1>2, <3>1
  <2>2. CASE k # Slots - 1
    <3>1. PICK j \in Slot : j = k + 1 /\ j # 0
      BY <2>2, Sizes DEF Slot
    <3>2. j < n <=> k < n - 1
      BY <3>1 DEF Slot
    <3>3. seq2[SlotAt(o, j)] = seq[SlotAt(o, j)]
      BY <1>3, <3>1
    <3>4. IF j < n
          THEN /\ seq[SlotAt(o, j)] = Plus(Plus(o, j), 1)
               /\ by[SlotAt(o, j)] = fi[SlotAt(o, j)]
          ELSE seq[SlotAt(o, j)] = Plus(o, j)
      BY DEF Ring
    <3> QED BY <3>1, <3>2, <3>3, <3>4
  <2> QED BY <2>1, <2>2
<1>6. Ring(Plus(o, 1), n - 1, seq2, by, fi)
  BY <1>4, <1>5 DEF Ring
<1> QED BY <1>6 DEF seq2

(* The payloads of n slots from o on.                                      *)
QueueOf(o, n, fi) == [k \in 1 .. n |-> fi[SlotAt(o, k - 1)]]

LEMMA QueueType ==
    ASSUME NEW o \in Word, NEW n \in Nat, NEW fi \in Cells
    PROVE  /\ QueueOf(o, n, fi) \in Seq(Payload \cup {Garbage})
           /\ Len(QueueOf(o, n, fi)) = n
<1>1. ASSUME NEW k \in 1 .. n PROVE fi[SlotAt(o, k - 1)] \in Payload \cup {Garbage}
  BY SlotAtType DEF Cells
<1> QED BY <1>1 DEF QueueOf

LEMMA QueueAppend ==
    ASSUME NEW o \in Word, NEW n \in Nat, NEW fi \in Cells
    PROVE  QueueOf(o, n + 1, fi) = Append(QueueOf(o, n, fi), fi[SlotAt(o, n)])
<1>1. \A k \in 1 .. n + 1 : k # n + 1 => k \in 1 .. n
  OBVIOUS
<1>2. n + 1 - 1 = n
  OBVIOUS
<1> QED BY <1>1, <1>2, QueueType DEF QueueOf

LEMMA QueueTail ==
    ASSUME NEW o \in Word, NEW n \in 1 .. Slots, NEW fi \in Cells
    PROVE  /\ QueueOf(o, n, fi) # <<>>
           /\ Head(QueueOf(o, n, fi)) = fi[o % Slots]
           /\ Tail(QueueOf(o, n, fi)) = QueueOf(Plus(o, 1), n - 1, fi)
<1>1. QueueOf(o, n, fi) \in Seq(Payload \cup {Garbage}) /\ Len(QueueOf(o, n, fi)) = n
  BY QueueType
<1>2. QueueOf(o, n, fi) # <<>>
  BY <1>1
<1>3. Head(QueueOf(o, n, fi)) = fi[o % Slots]
  BY <1>1, NextLap DEF QueueOf
<1>4. ASSUME NEW k \in 1 .. n - 1
      PROVE  SlotAt(Plus(o, 1), k - 1) = SlotAt(o, k)
  <2>1. Plus(Plus(o, 1), k - 1) = Plus(o, 1 + (k - 1)) /\ 1 + (k - 1) = k
    BY PlusPlus, Sizes
  <2> QED BY <2>1 DEF SlotAt
<1>5. Tail(QueueOf(o, n, fi)) = [k \in 1 .. n - 1 |-> fi[SlotAt(o, k)]]
  BY <1>1 DEF QueueOf
<1>6. Tail(QueueOf(o, n, fi)) = QueueOf(Plus(o, 1), n - 1, fi)
  BY <1>4, <1>5 DEF QueueOf
<1> QED BY <1>2, <1>3, <1>6

LEMMA QueueCopy ==
    ASSUME NEW o \in Word, NEW n \in Slot, NEW fi \in Cells, NEW p
    PROVE  QueueOf(o, n, [fi EXCEPT ![SlotAt(o, n)] = p]) = QueueOf(o, n, fi)
<1>1. ASSUME NEW k \in 1 .. n
      PROVE  [fi EXCEPT ![SlotAt(o, n)] = p][SlotAt(o, k - 1)] = fi[SlotAt(o, k - 1)]
  <2>1. k - 1 \in Slot /\ k - 1 # n
    BY Sizes DEF Slot
  <2>2. SlotAt(o, k - 1) # SlotAt(o, n) /\ SlotAt(o, k - 1) \in Slot
    BY <2>1, SlotsDistinct, SlotAtType DEF Slot
  <2> QED BY <2>2 DEF Cells
<1> QED BY <1>1 DEF QueueOf

-----------------------------------------------------------------------------
(* Types *)

\* Init gives every variable its type.
LEMMA TypeInit == Init => TypeOK
<1> SUFFICES ASSUME Init PROVE TypeOK
  OBVIOUS
<1>1. 0 \in Word /\ Slot \subseteq Word
  BY Sizes DEF Word, Slot
<1> QED BY <1>1 DEF Init, TypeOK, NoView

\* No step takes a variable out of its type.
LEMMA TypeStep == TypeOK /\ [Next]_vars => TypeOK'
<1> SUFFICES ASSUME TypeOK, [Next]_vars PROVE TypeOK'
  OBVIOUS
<1> USE DEF TypeOK
<1>0. 0 \in Word /\ Slot \subseteq Word
  BY Sizes DEF Word, Slot
<1>1. ASSUME NEW p \in Payload, Load(p) PROVE TypeOK'
  BY <1>1 DEF Load
<1>2. CASE Claim
  <2>1. enqueue_pos' \in Word
    BY <1>2, PlusType DEF Claim, Word
  <2> QED BY <1>2, <2>1 DEF Claim
<1>3. CASE QueueFull
  BY <1>0, <1>3 DEF QueueFull, StageDone
<1>4. CASE CopyBytes
  BY <1>4 DEF CopyBytes
<1>5. CASE CopyFields
  BY <1>5 DEF CopyFields
<1>6. CASE Publish
  <2>1. Plus(producer.pos, 1) \in Word
    BY PlusType DEF Word
  <2> QED BY <1>0, <1>6, <2>1 DEF Publish, StageDone
<1>7. CASE Peek
  <2>1. dequeue_pos % Slots \in Slot
    BY SlotType DEF Word
  <2> QED BY <1>7, <2>1 DEF Peek
<1>8. CASE ReleaseSlot
  <2>1. consumer.view.sequence \in Int /\ Slots \in Int
    BY Sizes DEF Word
  <2>2. Plus(consumer.view.sequence, Slots) \in Word
    BY <2>1, PlusType
  <2> QED BY <1>8, <2>2 DEF ReleaseSlot
<1>9. CASE ReleasePos
  <2>1. consumer.view.sequence \in Int
    BY DEF Word
  <2>2. Plus(consumer.view.sequence, 1) \in Word
    BY <2>1, PlusType
  <2> QED BY <1>0, <1>9, <2>2 DEF ReleasePos, NoView
<1>10. CASE UNCHANGED vars
  BY <1>10 DEF vars
<1> QED BY <1>1, <1>2, <1>3, <1>4, <1>5, <1>6, <1>7, <1>8, <1>9, <1>10
        DEF Next, Stage, Drain

\* Positions, slots and sequence words stay words of their width, and the two
\* ends at one of their steps, for every size (payload.zig:47-66).
THEOREM TypeCorrect == Spec => []TypeOK
<1> QED BY TypeInit, TypeStep, PTL DEF Spec

-----------------------------------------------------------------------------
(* The invariant *)

\* The counts of positions, as numbers.
LEMMA Counts ==
    ASSUME TypeOK
    PROVE  /\ Oldest \in Word /\ Count \in Nat
           /\ Plus(Oldest, Count) = enqueue_pos
<1>1. Oldest \in Word
  <2>1. dequeue_pos \in Word /\ dequeue_pos \in Int
    BY DEF TypeOK, Word
  <2>2. Plus(dequeue_pos, 1) \in Word
    BY <2>1, PlusType
  <2> QED BY <2>1, <2>2 DEF Oldest
<1>2. Count \in Nat
  BY <1>1, DivMod, Sizes DEF Count, TypeOK, Word
<1> QED BY <1>1, <1>2, Distance DEF Count, TypeOK

\* Every slot begins free for the position of its own number.
LEMMA InvInit == Init => IInv
<1> SUFFICES ASSUME Init PROVE IInv
  OBVIOUS
<1> USE DEF Init
<1>1. TypeOK
  BY TypeInit
<1>2. Oldest = 0 /\ ~Writing /\ 0 \in Word
  BY Sizes DEF Oldest, Writing, Word
<1>3. Count = 0 /\ Published = 0
  <2>1. (0 - 0) % WordSize = 0
    BY WordRemainder, Sizes
  <2> QED BY <1>2, <2>1 DEF Count, Published
<1>4. ASSUME NEW k \in Slot PROVE sequences[SlotAt(0, k)] = Plus(0, k) /\ ~(k < 0)
  <2>1. Plus(0, k) = k
    BY <1>2, WordSum, Sizes DEF Slot
  <2>2. 0 \div Slots = 0
    BY Sizes, SMTT(20)
  <2>3. k % Slots = k
    BY Sizes, SMTT(20) DEF Slot
  <2> QED BY <2>1, <2>3 DEF SlotAt, Slot
<1>5. RingInv
  BY <1>2, <1>3, <1>4, Sizes DEF RingInv, Ring
<1> QED BY <1>1, <1>2, <1>5 DEF IInv, ProducerInv, ConsumerInv, Writing

\* What the counts of an invariant state say.
LEMMA Parts ==
    ASSUME IInv
    PROVE  /\ Oldest \in Word /\ Count \in 0 .. Slots
           /\ Plus(Oldest, Count) = enqueue_pos
           /\ Published = IF Writing THEN Count - 1 ELSE Count
           /\ Published \in 0 .. Slots
           /\ Writing => /\ Published \in Slot
                         /\ producer.pos % Slots = SlotAt(Oldest, Published)
           /\ sequences \in Words /\ bytes \in Cells /\ fields \in Cells
           /\ enqueue_pos \in Word /\ dequeue_pos \in Word
           /\ Ring(Oldest, Published, sequences, bytes, fields)
<1>1. /\ Oldest \in Word /\ Count \in Nat
      /\ Plus(Oldest, Count) = enqueue_pos
  BY Counts DEF IInv
<1>2. Count \in 0 .. Slots
  BY <1>1, Sizes DEF IInv, RingInv
<1>3. Published = IF Writing THEN Count - 1 ELSE Count
  BY <1>2 DEF Published
<1>4. Writing => Count >= 1
  BY DEF IInv, ProducerInv
<1>5. /\ Published \in 0 .. Slots
      /\ Writing => Published \in Slot
  BY <1>2, <1>3, <1>4, Sizes DEF Slot
<1>6. Writing => producer.pos % Slots = SlotAt(Oldest, Published)
  BY <1>3 DEF IInv, ProducerInv, SlotAt
<1> QED BY <1>1, <1>2, <1>3, <1>5, <1>6 DEF IInv, RingInv, TypeOK, Words, Cells

\* A step that moves no position changes no count, and Published by what the
\* producer leaves or begins.
LEMMA CountsKept ==
    ASSUME UNCHANGED <<enqueue_pos, dequeue_pos, consumer>>
    PROVE  /\ Oldest' = Oldest /\ Count' = Count
           /\ (Writing' <=> Writing) => Published' = Published
BY DEF Oldest, Count, Published

LEMMA LoadKeeps ==
    ASSUME IInv, TypeOK', NEW p \in Payload, Load(p)
    PROVE  IInv'
<1>1. /\ UNCHANGED <<enqueue_pos, dequeue_pos, consumer, sequences, bytes, fields>>
      /\ ~Writing /\ ~Writing'
      /\ producer'.pc = "claim" /\ producer'.pos = enqueue_pos /\ producer'.payload = p
  BY DEF Load, Writing
<1>2. Oldest' = Oldest /\ Count' = Count /\ Published' = Published
  BY <1>1, CountsKept
<1> QED BY <1>1, <1>2 DEF IInv, RingInv, ProducerInv, ConsumerInv

\* A claim succeeds exactly when a slot is free.
LEMMA ClaimReads ==
    ASSUME IInv, producer.pc = "claim"
    PROVE  /\ Ahead = 0 <=> Count < Slots
           /\ Ahead < 0 <=> Count = Slots
<1>0. ~Writing /\ producer.pos = enqueue_pos
  BY DEF IInv, ProducerInv, Writing
<1>1. /\ Oldest \in Word /\ Count \in 0 .. Slots /\ Published = Count
      /\ Plus(Oldest, Count) = enqueue_pos
      /\ Ring(Oldest, Published, sequences, bytes, fields)
  BY <1>0, Parts
<1>2. CASE Count < Slots
  <2>1. Count \in Slot
    BY <1>1, <1>2, Sizes DEF Slot
  <2>2. sequences[SlotAt(Oldest, Count)] = Plus(Oldest, Count)
    BY <1>1, <2>1 DEF Ring
  <2>3. sequences[enqueue_pos % Slots] = enqueue_pos
    BY <1>1, <2>2 DEF SlotAt
  <2>4. Ahead = 0
    BY <1>0, <2>3, Readings, Parts DEF Ahead
  <2> QED BY <1>1, <1>2, <2>4, Sizes
<1>3. CASE Count = Slots
  <2>1. 0 \in Slot /\ 0 < Published
    BY <1>1, <1>3, Sizes DEF Slot
  <2>2. sequences[SlotAt(Oldest, 0)] = Plus(Plus(Oldest, 0), 1)
    BY <1>1, <2>1 DEF Ring
  <2>3. sequences[SlotAt(Oldest, Slots)] = Plus(Oldest, 1)
    BY <1>1, <2>2, NextLap, PlusZero
  <2>4. SlotAt(Oldest, Slots) = enqueue_pos % Slots /\ enqueue_pos = Plus(Oldest, Slots)
    BY <1>1, <1>3 DEF SlotAt
  <2>5. Ahead = Difference(Plus(Oldest, 1), Plus(Oldest, Slots))
    BY <1>0, <2>3, <2>4 DEF Ahead
  <2>6. Ahead < 0
    BY <1>1, <2>5, Readings
  <2>7. ~(Ahead = 0)
    BY <1>1, <2>5, Readings
  <2> QED BY <1>3, <2>6, <2>7, Sizes
<1> QED BY <1>1, <1>2, <1>3, Sizes

LEMMA ClaimKeeps ==
    ASSUME IInv, TypeOK', Claim
    PROVE  IInv' /\ Oldest' = Oldest /\ Published' = Published
<1>1. /\ producer.pc = "claim" /\ Ahead = 0 /\ ~Writing /\ producer.pos = enqueue_pos
      /\ producer.payload \in Payload
  BY DEF Claim, IInv, ProducerInv, Writing
<1>2. /\ UNCHANGED <<dequeue_pos, consumer, sequences, bytes, fields>>
      /\ enqueue_pos' = Plus(enqueue_pos, 1)
      /\ producer' = [producer EXCEPT !.pc = "copy"]
  BY <1>1 DEF Claim
<1>3. /\ producer'.pc = "copy" /\ producer'.pos = enqueue_pos
      /\ producer'.payload = producer.payload /\ Writing'
  BY <1>1, <1>2 DEF IInv, TypeOK, Writing
<1>4. Oldest' = Oldest
  BY <1>2 DEF Oldest
<1>5. Count < Slots
  BY <1>1, ClaimReads
<1>6. /\ Oldest \in Word /\ enqueue_pos \in Word /\ Count \in Nat /\ Count \in 0 .. Slots
      /\ Plus(Oldest, Count) = enqueue_pos /\ Published = Count
  BY <1>1, Parts
<1>7. Count' = Count + 1
  <2>1. Count = (enqueue_pos - Oldest) % WordSize
    BY DEF Count
  <2>2. Count + 1 < WordSize
    BY <1>5, <1>6, Sizes
  <2>3. (Plus(enqueue_pos, 1) - Oldest) % WordSize = Count + 1
    BY <1>6, <2>1, <2>2, Distance
  <2> QED BY <1>2, <1>4, <2>3 DEF Count
<1>8. Published' = Published
  BY <1>3, <1>6, <1>7 DEF Published
<1>9. RingInv'
  BY <1>2, <1>4, <1>5, <1>6, <1>7, <1>8, Sizes DEF IInv, RingInv
<1>10. ProducerInv'
  <2>1. Count' - 1 = Count /\ Count' >= 1
    BY <1>6, <1>7
  <2> QED BY <1>1, <1>3, <1>4, <1>6, <2>1 DEF ProducerInv
<1>11. ConsumerInv'
  BY <1>2, <1>8 DEF IInv, ConsumerInv
<1> QED BY <1>4, <1>8, <1>9, <1>10, <1>11 DEF IInv

LEMMA QueueFullKeeps ==
    ASSUME IInv, TypeOK', QueueFull
    PROVE  IInv' /\ Oldest' = Oldest /\ Published' = Published
<1>1. /\ UNCHANGED <<enqueue_pos, dequeue_pos, consumer, sequences, bytes, fields>>
      /\ ~Writing /\ ~Writing' /\ producer'.pc = "idle"
  BY DEF QueueFull, StageDone, Writing
<1>2. Oldest' = Oldest /\ Count' = Count /\ Published' = Published
  BY <1>1, CountsKept
<1> QED BY <1>1, <1>2 DEF IInv, RingInv, ProducerInv, ConsumerInv

\* The two copies write the slot that was claimed, which nobody reads.
LEMMA CopyBytesKeeps ==
    ASSUME IInv, TypeOK', CopyBytes
    PROVE  IInv' /\ Oldest' = Oldest /\ Published' = Published
<1>1. /\ UNCHANGED <<enqueue_pos, dequeue_pos, consumer, sequences, fields>>
      /\ bytes' = [bytes EXCEPT ![producer.pos % Slots] = producer.payload]
      /\ Writing /\ producer.payload \in Payload
  BY DEF CopyBytes, Writing, IInv, ProducerInv
<1>2. /\ producer'.pc = "fields" /\ producer'.pos = producer.pos
      /\ producer'.payload = producer.payload /\ Writing'
  BY DEF CopyBytes, Writing, IInv, TypeOK
<1>3. Oldest' = Oldest /\ Count' = Count /\ Published' = Published
  BY <1>1, <1>2, CountsKept
<1>4. /\ Oldest \in Word /\ Published \in Slot
      /\ producer.pos % Slots = SlotAt(Oldest, Published)
      /\ sequences \in Words /\ bytes \in Cells /\ fields \in Cells
      /\ Ring(Oldest, Published, sequences, bytes, fields)
  BY <1>1, Parts
<1>5. Ring(Oldest, Published, sequences,
           [bytes EXCEPT ![SlotAt(Oldest, Published)] = producer.payload], fields)
  BY <1>4, RingCopyBytes
<1>6. RingInv'
  BY <1>1, <1>3, <1>4, <1>5 DEF IInv, RingInv
<1>7. bytes'[producer.pos % Slots] = producer.payload
  BY <1>1, <1>4, SlotAtType, Sizes DEF Slot, Cells
<1>8. ProducerInv'
  BY <1>1, <1>2, <1>3, <1>7 DEF IInv, ProducerInv
<1>9. ConsumerInv'
  BY <1>1, <1>3 DEF IInv, ConsumerInv
<1> QED BY <1>3, <1>6, <1>8, <1>9 DEF IInv

LEMMA CopyFieldsKeeps ==
    ASSUME IInv, TypeOK', CopyFields
    PROVE  IInv' /\ Oldest' = Oldest /\ Published' = Published
<1>1. /\ UNCHANGED <<enqueue_pos, dequeue_pos, consumer, sequences, bytes>>
      /\ fields' = [fields EXCEPT ![producer.pos % Slots] = producer.payload]
      /\ Writing /\ producer.payload \in Payload
      /\ bytes[producer.pos % Slots] = producer.payload
  BY DEF CopyFields, Writing, IInv, ProducerInv
<1>2. /\ producer'.pc = "publish" /\ producer'.pos = producer.pos
      /\ producer'.payload = producer.payload /\ Writing'
  BY DEF CopyFields, Writing, IInv, TypeOK
<1>3. Oldest' = Oldest /\ Count' = Count /\ Published' = Published
  BY <1>1, <1>2, CountsKept
<1>4. /\ Oldest \in Word /\ Published \in Slot
      /\ producer.pos % Slots = SlotAt(Oldest, Published)
      /\ sequences \in Words /\ bytes \in Cells /\ fields \in Cells
      /\ Ring(Oldest, Published, sequences, bytes, fields)
  BY <1>1, Parts
<1>5. Ring(Oldest, Published, sequences, bytes,
           [fields EXCEPT ![SlotAt(Oldest, Published)] = producer.payload])
  BY <1>4, RingCopyFields
<1>6. RingInv'
  BY <1>1, <1>3, <1>4, <1>5 DEF IInv, RingInv
<1>7. fields'[producer.pos % Slots] = producer.payload
  BY <1>1, <1>4, SlotAtType, Sizes DEF Slot, Cells
<1>8. ProducerInv'
  BY <1>1, <1>2, <1>3, <1>7 DEF IInv, ProducerInv
<1>9. ASSUME consumer.pc = "holding"
      PROVE  fields'[dequeue_pos % Slots] = fields[dequeue_pos % Slots]
  <2>1. Oldest = dequeue_pos /\ Published >= 1
    BY <1>9 DEF Oldest, IInv, ConsumerInv
  <2>2. 0 \in Slot /\ Published # 0
    BY <2>1, Sizes DEF Slot
  <2>3. SlotAt(Oldest, 0) # SlotAt(Oldest, Published) /\ SlotAt(Oldest, 0) \in Slot
    BY <1>4, <2>2, SlotsDistinct, SlotAtType DEF Slot
  <2>4. SlotAt(Oldest, 0) = dequeue_pos % Slots
    BY <1>4, <2>1, NextLap
  <2> QED BY <1>1, <1>4, <2>3, <2>4 DEF Cells
<1>10. ConsumerInv'
  BY <1>1, <1>3, <1>9 DEF IInv, ConsumerInv
<1> QED BY <1>3, <1>6, <1>8, <1>10 DEF IInv

LEMMA PublishKeeps ==
    ASSUME IInv, TypeOK', Publish
    PROVE  /\ IInv' /\ Oldest' = Oldest /\ Published' = Published + 1
           /\ Published \in Slot /\ fields[SlotAt(Oldest, Published)] \in Payload
<1>1. /\ UNCHANGED <<enqueue_pos, dequeue_pos, consumer, bytes, fields>>
      /\ sequences' = [sequences EXCEPT ![producer.pos % Slots] =
                           Plus(producer.pos, 1)]
      /\ Writing /\ producer.payload \in Payload
      /\ bytes[producer.pos % Slots] = producer.payload
      /\ fields[producer.pos % Slots] = producer.payload
      /\ producer'.pc = "idle" /\ ~Writing'
  BY DEF Publish, StageDone, Writing, IInv, ProducerInv
<1>2. Oldest' = Oldest /\ Count' = Count
  BY <1>1, CountsKept
<1>3. /\ Oldest \in Word /\ Published \in Slot
      /\ producer.pos % Slots = SlotAt(Oldest, Published)
      /\ sequences \in Words /\ bytes \in Cells /\ fields \in Cells
      /\ Ring(Oldest, Published, sequences, bytes, fields)
      /\ Count \in 0 .. Slots /\ Published = Count - 1
  BY <1>1, Parts
<1>4. Published' = Published + 1
  BY <1>1, <1>2, <1>3 DEF Published
<1>5. producer.pos = Plus(Oldest, Published)
  BY <1>1, <1>3 DEF IInv, ProducerInv
<1>6. Ring(Oldest, Published + 1,
           [sequences EXCEPT ![SlotAt(Oldest, Published)] =
                Plus(Plus(Oldest, Published), 1)], bytes, fields)
  BY <1>1, <1>3, RingPublish
<1>7. RingInv'
  BY <1>1, <1>2, <1>3, <1>4, <1>5, <1>6 DEF IInv, RingInv
<1>8. ProducerInv'
  BY <1>1 DEF ProducerInv
<1>9. ConsumerInv'
  BY <1>1, <1>3, <1>4 DEF IInv, ConsumerInv
<1> QED BY <1>1, <1>2, <1>3, <1>4, <1>7, <1>8, <1>9 DEF IInv

\* The drain takes a view of a slot that was published.
LEMMA PeekKeeps ==
    ASSUME IInv, TypeOK', Peek
    PROVE  IInv' /\ Oldest' = Oldest /\ Published' = Published
<1>1. /\ UNCHANGED <<enqueue_pos, dequeue_pos, producer, sequences, bytes, fields>>
      /\ consumer.pc = "idle" /\ consumer'.pc = "holding"
      /\ consumer'.view.sequence = dequeue_pos
      /\ consumer'.view.fields = fields[dequeue_pos % Slots]
      /\ Difference(sequences[dequeue_pos % Slots], Plus(dequeue_pos, 1)) >= 0
  BY DEF Peek
<1>2. Oldest' = Oldest /\ Oldest = dequeue_pos
  BY <1>1 DEF Oldest
<1>3. Count' = Count /\ (Writing' <=> Writing)
  BY <1>1, <1>2 DEF Count, Writing
<1>4. Published' = Published
  BY <1>3 DEF Published
<1>5. /\ Oldest \in Word /\ Published \in 0 .. Slots
      /\ Ring(Oldest, Published, sequences, bytes, fields)
  BY Parts
<1>6. Published >= 1
  <2>1. CASE Published = 0
    <3>1. 0 \in Slot /\ ~(0 < Published)
      BY <2>1, Sizes DEF Slot
    <3>2. sequences[SlotAt(Oldest, 0)] = Plus(Oldest, 0)
      BY <1>5, <3>1 DEF Ring
    <3>3. sequences[dequeue_pos % Slots] = dequeue_pos
      BY <1>2, <1>5, <3>2, NextLap, PlusZero
    <3>4. Difference(dequeue_pos, Plus(dequeue_pos, 1)) < 0
      BY <1>2, <1>5, Readings
    <3>5. Difference(dequeue_pos, Plus(dequeue_pos, 1)) \in Int
      <4>1. dequeue_pos \in Word /\ dequeue_pos \in Int
        BY <1>2, <1>5 DEF Word
      <4>2. Plus(dequeue_pos, 1) \in Word
        BY <4>1, PlusType
      <4> QED BY <4>1, <4>2, DifferenceType
    <3> QED BY <1>1, <3>3, <3>4, <3>5
  <2> QED BY <1>5, <2>1
<1>7. RingInv' /\ ProducerInv'
  BY <1>1, <1>2, <1>3, <1>4 DEF IInv, RingInv, ProducerInv
<1>8. ConsumerInv'
  BY <1>1, <1>4, <1>6 DEF ConsumerInv
<1> QED BY <1>2, <1>4, <1>7, <1>8 DEF IInv

\* A slot that is given back waits for the position one lap later.
LEMMA ReleaseSlotKeeps ==
    ASSUME IInv, TypeOK', ReleaseSlot
    PROVE  /\ IInv' /\ Oldest' = Plus(Oldest, 1) /\ Published' = Published - 1
           /\ Published \in 1 .. Slots
<1>1. /\ UNCHANGED <<enqueue_pos, dequeue_pos, producer, bytes, fields>>
      /\ consumer.pc = "holding" /\ consumer'.pc = "released"
      /\ consumer'.view.sequence = consumer.view.sequence
      /\ consumer.view.sequence = dequeue_pos
      /\ sequences' = [sequences EXCEPT ![dequeue_pos % Slots] =
                           Plus(dequeue_pos, Slots)]
  BY DEF ReleaseSlot, IInv, ConsumerInv, TypeOK
<1>2. Oldest = dequeue_pos /\ Oldest' = Plus(Oldest, 1)
  BY <1>1 DEF Oldest
<1>3. /\ Oldest \in Word /\ Published \in 0 .. Slots /\ enqueue_pos \in Word
      /\ sequences \in Words /\ bytes \in Cells /\ fields \in Cells
      /\ Ring(Oldest, Published, sequences, bytes, fields)
      /\ Count \in 0 .. Slots /\ Count \in Nat
      /\ Published = IF Writing THEN Count - 1 ELSE Count
  BY Parts
<1>4. Published >= 1
  BY <1>1 DEF IInv, ConsumerInv
<1>5. Published \in 1 .. Slots /\ Count >= 1 /\ (Writing' <=> Writing)
  BY <1>1, <1>3, <1>4, Sizes DEF Writing
<1>6. Count' = Count - 1
  <2>1. Count = (enqueue_pos - Oldest) % WordSize
    BY DEF Count
  <2>2. (enqueue_pos - Plus(Oldest, 1)) % WordSize = Count - 1
    BY <1>3, <1>5, <2>1, Distance
  <2> QED BY <1>1, <1>2, <2>2 DEF Count
<1>7. Published' = Published - 1
  BY <1>3, <1>5, <1>6 DEF Published
<1>8. Ring(Plus(Oldest, 1), Published - 1,
           [sequences EXCEPT ![Oldest % Slots] = Plus(Oldest, Slots)], bytes, fields)
  BY <1>3, <1>5, RingRelease
<1>9. RingInv'
  <2>1. Count' <= Slots
    BY <1>3, <1>6, Sizes
  <2> QED BY <1>1, <1>2, <1>7, <1>8, <2>1 DEF RingInv
<1>10. ASSUME Writing PROVE Count' >= 1 /\ producer.pos = Plus(Oldest', Count' - 1)
  <2>1. Count - 1 >= 1 /\ Count' - 1 = Count - 2 /\ Count - 2 \in 0 .. Slots
        /\ 1 + (Count - 2) = Count - 1 /\ 1 + (Count - 2) <= Slots
    BY <1>3, <1>4, <1>6, <1>10, Sizes
  <2>2. Plus(Plus(Oldest, 1), Count - 2) = Plus(Oldest, 1 + (Count - 2))
    BY <1>3, <2>1, PlusPlus, Sizes
  <2>3. producer.pos = Plus(Oldest, Count - 1)
    BY <1>10 DEF IInv, ProducerInv
  <2> QED BY <1>2, <1>6, <2>1, <2>2, <2>3
<1>11. ProducerInv'
  BY <1>1, <1>5, <1>10 DEF IInv, ProducerInv
<1>12. ConsumerInv'
  BY <1>1 DEF ConsumerInv
<1> QED BY <1>2, <1>5, <1>7, <1>9, <1>11, <1>12 DEF IInv

LEMMA ReleasePosKeeps ==
    ASSUME IInv, TypeOK', ReleasePos
    PROVE  IInv' /\ Oldest' = Oldest /\ Published' = Published
<1>1. /\ UNCHANGED <<enqueue_pos, producer, sequences, bytes, fields>>
      /\ consumer.pc = "released" /\ consumer'.pc = "idle"
      /\ consumer.view.sequence = dequeue_pos
      /\ dequeue_pos' = Plus(dequeue_pos, 1)
  BY DEF ReleasePos, IInv, ConsumerInv
<1>2. Oldest' = Oldest
  BY <1>1 DEF Oldest
<1>3. Count' = Count /\ (Writing' <=> Writing)
  BY <1>1, <1>2 DEF Count, Writing
<1>4. Published' = Published
  BY <1>3 DEF Published
<1>5. RingInv' /\ ProducerInv' /\ ConsumerInv'
  BY <1>1, <1>2, <1>3, <1>4 DEF IInv, RingInv, ProducerInv, ConsumerInv
<1> QED BY <1>2, <1>4, <1>5 DEF IInv

LEMMA StutterKeeps ==
    ASSUME IInv, UNCHANGED vars
    PROVE  IInv' /\ Oldest' = Oldest /\ Published' = Published
<1>1. Oldest' = Oldest /\ (Writing' <=> Writing)
  BY DEF vars, Oldest, Writing
<1>2. Count' = Count
  BY <1>1 DEF vars, Count
<1>3. Published' = Published
  BY <1>1, <1>2 DEF Published
<1>4. TypeOK'
  BY TypeStep DEF IInv
<1> QED BY <1>1, <1>2, <1>3, <1>4 DEF vars, IInv, RingInv, ProducerInv, ConsumerInv

LEMMA InvStep == IInv /\ [Next]_vars => IInv'
<1> SUFFICES ASSUME IInv, [Next]_vars PROVE IInv'
  OBVIOUS
<1>1. TypeOK'
  BY TypeStep DEF IInv
<1>2. CASE Next
  BY <1>1, <1>2, LoadKeeps, ClaimKeeps, QueueFullKeeps, CopyBytesKeeps, CopyFieldsKeeps,
     PublishKeeps, PeekKeeps, ReleaseSlotKeeps, ReleasePosKeeps DEF Next, Stage, Drain
<1> QED BY <1>2, StutterKeeps

\* The two ends always agree on which slots are whose.
THEOREM Invariant == Spec => []IInv
<1> QED BY InvInit, InvStep, PTL DEF Spec

-----------------------------------------------------------------------------
(* What the ring promises *)

LEMMA QueueIs == IInv => Queue = QueueOf(Oldest, Published, fields)
<1> SUFFICES ASSUME IInv PROVE Queue = QueueOf(Oldest, Published, fields)
  OBVIOUS
<1>1. /\ Published \in 0 .. Slots /\ Count \in 0 .. Slots
      /\ Published = IF Writing THEN Count - 1 ELSE Count
      /\ Oldest \in Word /\ enqueue_pos \in Word /\ Plus(Oldest, Count) = enqueue_pos
  BY Parts
<1>2. (enqueue_pos - Oldest - (IF Writing THEN 1 ELSE 0)) % WordSize = Published
  <2>1. CASE ~Writing
    BY <1>1, <2>1 DEF Count, Word
  <2>2. CASE Writing
    BY <1>1, <2>2, LessOne DEF Count, Word
  <2> QED BY <2>1, <2>2
<1> QED BY <1>2 DEF Queue, QueueOf, SlotAt

\* The drain's view is the oldest payload, whole, and its bytes stay what they
\* were until it is released (payload.zig:20-22).
THEOREM ViewSafe == Spec => []ViewIsHead
<1>1. ASSUME IInv, consumer.pc = "holding"
      PROVE  /\ Queue # <<>> /\ consumer.view.fields = Head(Queue)
             /\ bytes[consumer.view.sequence % Slots] = consumer.view.fields
  <2>1. /\ Oldest = dequeue_pos /\ Published >= 1
        /\ consumer.view.sequence = dequeue_pos
        /\ consumer.view.fields = fields[dequeue_pos % Slots]
    BY <1>1 DEF IInv, ConsumerInv, Oldest
  <2>2. /\ Published \in 1 .. Slots /\ Oldest \in Word /\ fields \in Cells
        /\ Ring(Oldest, Published, sequences, bytes, fields)
    BY <1>1, <2>1, Parts, Sizes
  <2>3. Queue # <<>> /\ Head(Queue) = fields[Oldest % Slots]
    BY <1>1, <2>2, QueueIs, QueueTail
  <2>4. 0 \in Slot /\ 0 < Published
    BY <2>2, Sizes DEF Slot
  <2>5. bytes[SlotAt(Oldest, 0)] = fields[SlotAt(Oldest, 0)]
    BY <2>2, <2>4 DEF Ring
  <2> QED BY <2>1, <2>2, <2>3, <2>5, NextLap
<1>2. IInv => ViewIsHead
  BY <1>1 DEF ViewIsHead
<1> QED BY <1>2, Invariant, PTL

\* A payload is turned away only when every slot holds one
\* (payload.zig:94-97).
THEOREM RefusalJustified == Spec => RefusedOnlyWhenFull
<1>1. ASSUME IInv, QueueFull PROVE Len(Queue) = Slots
  <2>1. producer.pc = "claim" /\ Ahead < 0 /\ ~Writing
    BY <1>1 DEF QueueFull, Writing
  <2>2. Published = Slots /\ Oldest \in Word /\ fields \in Cells
    BY <1>1, <2>1, ClaimReads, Parts
  <2> QED BY <1>1, <2>2, QueueIs, QueueType, Sizes
<1>2. IInv /\ [Next]_vars => [QueueFull => Len(Queue) = Slots]_vars
  BY <1>1
<1> QED BY <1>2, Invariant, PTL DEF Spec, RefusedOnlyWhenFull

LEMMA InitFifo == Init => Fifo!Init
<1> SUFFICES ASSUME Init PROVE Queue = <<>>
  BY DEF Fifo!Init
<1>1. IInv /\ Oldest = 0 /\ ~Writing
  BY InvInit DEF Init, Oldest, Writing
<1>2. (0 - 0) % WordSize = 0
  BY WordRemainder, Sizes
<1>3. Published = 0
  BY <1>1, <1>2 DEF Init, Published, Count
<1>4. Oldest \in Word /\ fields \in Cells
  BY <1>1, Parts
<1> QED BY <1>1, <1>3, <1>4, QueueIs, QueueType

\* The store that publishes accepts a payload, the store that gives the slot
\* back takes one; no other step moves the queue.
LEMMA StepFifo ==
    IInv /\ [Next]_vars => [Fifo!Accept \/ Fifo!Take]_Queue
<1> SUFFICES ASSUME IInv, [Next]_vars PROVE Fifo!Accept \/ Fifo!Take \/ Queue' = Queue
  OBVIOUS
<1>1. IInv' /\ TypeOK'
  BY InvStep DEF IInv
<1>2. /\ Queue = QueueOf(Oldest, Published, fields)
      /\ Queue' = QueueOf(Oldest', Published', fields')
  <2>1. IInv' => (Queue = QueueOf(Oldest, Published, fields))'
    BY QueueIs, PTL
  <2> QED BY <1>1, <2>1, QueueIs
<1>3. /\ Oldest \in Word /\ Published \in 0 .. Slots /\ Published \in Nat /\ fields \in Cells
  BY Parts
<1>4. CASE Publish
  <2>1. /\ Oldest' = Oldest /\ Published' = Published + 1 /\ fields' = fields
        /\ Published \in Slot /\ fields[SlotAt(Oldest, Published)] \in Payload
    BY <1>1, <1>4, PublishKeeps DEF Publish
  <2>2. Queue' = Append(Queue, fields[SlotAt(Oldest, Published)])
    BY <1>2, <1>3, <2>1, QueueAppend
  <2>3. Len(Queue) < Slots
    BY <1>2, <1>3, <2>1, QueueType, Sizes DEF Slot
  <2> QED BY <2>1, <2>2, <2>3 DEF Fifo!Accept
<1>5. CASE ReleaseSlot
  <2>1. /\ Oldest' = Plus(Oldest, 1) /\ Published' = Published - 1
        /\ fields' = fields /\ Published \in 1 .. Slots
    BY <1>1, <1>5, ReleaseSlotKeeps DEF ReleaseSlot
  <2>2. Queue # <<>> /\ Queue' = Tail(Queue)
    BY <1>2, <1>3, <2>1, QueueTail
  <2> QED BY <2>2 DEF Fifo!Take
<1>6. CASE CopyFields
  <2>1. /\ Oldest' = Oldest /\ Published' = Published /\ Published \in Slot
        /\ fields' = [fields EXCEPT ![SlotAt(Oldest, Published)] = producer.payload]
    BY <1>1, <1>6, CopyFieldsKeeps, Parts DEF CopyFields, Writing
  <2> QED BY <1>2, <1>3, <2>1, QueueCopy
<1>7. ASSUME Oldest' = Oldest, Published' = Published, fields' = fields
      PROVE  Queue' = Queue
  BY <1>2, <1>7
<1>8. ASSUME NEW p \in Payload, Load(p) PROVE Queue' = Queue
  <2>1. /\ UNCHANGED <<enqueue_pos, dequeue_pos, consumer, fields>>
        /\ ~Writing /\ ~Writing'
    BY <1>8 DEF Load, Writing
  <2> QED BY <1>7, <2>1, CountsKept
<1>9. CASE Claim \/ QueueFull \/ CopyBytes
  <2>1. fields' = fields
    BY <1>9 DEF Claim, QueueFull, CopyBytes
  <2> QED BY <1>1, <1>7, <1>9, <2>1, ClaimKeeps, QueueFullKeeps, CopyBytesKeeps
<1>10. CASE Peek \/ ReleasePos
  <2>1. fields' = fields
    BY <1>10 DEF Peek, ReleasePos
  <2> QED BY <1>1, <1>7, <1>10, <2>1, PeekKeeps, ReleasePosKeeps
<1>11. CASE UNCHANGED vars
  <2>1. fields' = fields
    BY <1>11 DEF vars
  <2> QED BY <1>7, <1>11, <2>1, StutterKeeps
<1> QED BY <1>4, <1>5, <1>6, <1>8, <1>9, <1>10, <1>11 DEF Next, Stage, Drain

\* For every number of slots and every width of the positions, wrapping
\* included, the ring is a FIFO of at most that many payloads
\* (payload.zig:31-33, 77-80, 119-123).
THEOREM RingImplemented == Spec => ImplementsFifo
<1> QED BY InitFifo, StepFifo, Invariant, PTL DEF Spec, ImplementsFifo, Fifo!Spec
=============================================================================
