------------------------- MODULE EventEmitterProofs -------------------------
(***************************************************************************)
(* Theorems about EventEmitter, for any handlers, buckets of any length, any *)
(* number of one-shot wrappers and dispatches nested to any depth.           *)
(***************************************************************************)
EXTENDS EventEmitter, TLAPS, WellFoundedInduction

(* Every set of natural numbers that is not empty has a least element.       *)
LEMMA LeastNatural ==
    ASSUME NEW T \in SUBSET Nat, T # {}
    PROVE  \E m \in T : \A k \in T : m <= k
<1>1. PICK m \in T : \A k \in T : <<k, m>> \notin OpToRel(<, Nat)
  <2>1. IsWellFoundedOn(OpToRel(<, Nat), Nat)
    BY NatLessThanWellFounded
  <2> DEFINE R == OpToRel(<, Nat)
  <2>2. IsWellFoundedOn(R, Nat)
    BY <2>1
  <2> HIDE DEF R
  <2> SUFFICES \E m \in T : \A k \in T : <<k, m>> \notin R
    BY DEF R
  <2> QED BY <2>2, WFMin
<1>2. \A k \in T : m <= k
  <2> SUFFICES ASSUME NEW k \in T, k < m PROVE FALSE
    OBVIOUS
  <2>1. <<k, m>> \in OpToRel(<, Nat)
    BY DEF OpToRel
  <2> QED BY <1>1, <2>1
<1> QED BY <1>2

(* The index the scans from either end find.                                 *)
LEMMA FirstFound ==
    ASSUME NEW n \in Nat, NEW I \in SUBSET (1 .. n), I # {}
    PROVE  Min(I) \in I /\ \A k \in I : Min(I) <= k
<1>1. \E m \in I : \A k \in I : m <= k
    BY LeastNatural
<1> QED BY <1>1 DEF Min

LEMMA LastFound ==
    ASSUME NEW n \in Nat, NEW I \in SUBSET (1 .. n), I # {}
    PROVE  Max(I) \in I /\ \A k \in I : Max(I) >= k
<1> DEFINE T == {n - k : k \in I}
<1>0. \A k \in I : n - k \in Nat
    OBVIOUS
<1>1. T \in SUBSET Nat /\ T # {}
    BY <1>0
<1>2. PICK m \in T : \A j \in T : m <= j
    BY <1>1, LeastNatural
<1>3. PICK p \in I : m = n - p
    OBVIOUS
<1>4. ASSUME NEW k \in I PROVE p >= k
    <2>1. m <= n - k
        BY <1>2
    <2> QED BY <1>3, <2>1
<1> QED BY <1>4 DEF Max

(* The parts of a sequence put together, or without one of its elements.     *)
LEMMA Joined ==
    ASSUME NEW S, NEW a \in Seq(S), NEW b \in Seq(S)
    PROVE  /\ a \o b \in Seq(S) /\ Len(a \o b) = Len(a) + Len(b)
           /\ \A k \in 1 .. Len(a) + Len(b) :
                  (a \o b)[k] = IF k <= Len(a) THEN a[k] ELSE b[k - Len(a)]
OBVIOUS

LEMMA WithoutOne ==
    ASSUME NEW S, NEW s \in Seq(S), NEW i \in 1 .. Len(s)
    PROVE  /\ RemoveAt(s, i) \in Seq(S) /\ Len(RemoveAt(s, i)) = Len(s) - 1
           /\ \A k \in 1 .. Len(s) - 1 :
                  RemoveAt(s, i)[k] = s[IF k < i THEN k ELSE k + 1]
<1>1. /\ SubSeq(s, 1, i - 1) \in Seq(S) /\ Len(SubSeq(s, 1, i - 1)) = i - 1
      /\ \A k \in 1 .. i - 1 : SubSeq(s, 1, i - 1)[k] = s[k]
    OBVIOUS
<1>2. /\ SubSeq(s, i + 1, Len(s)) \in Seq(S)
      /\ Len(SubSeq(s, i + 1, Len(s))) = Len(s) - i
      /\ \A k \in 1 .. Len(s) - i : SubSeq(s, i + 1, Len(s))[k] = s[i + k]
    OBVIOUS
<1> PICK a \in Seq(S) : a = SubSeq(s, 1, i - 1)
    BY <1>1
<1> PICK b \in Seq(S) : b = SubSeq(s, i + 1, Len(s))
    BY <1>2
<1> PICK n \in Nat : n = Len(s)
    OBVIOUS
<1>c. RemoveAt(s, i) = a \o b
    BY DEF RemoveAt
<1>4. i \in Nat /\ 1 <= i /\ i <= n
    OBVIOUS
<1>5. Len(a) = i - 1 /\ Len(b) = n - i
    BY <1>1, <1>2
<1>a. Len(a) + Len(b) = n - 1
    <2>1. (i - 1) + (n - i) = n - 1
        BY <1>4
    <2> QED BY <1>5, <2>1
<1>d. a \o b \in Seq(S) /\ Len(a \o b) = Len(a) + Len(b)
    BY Joined, Zenon
<1>6. a \o b \in Seq(S) /\ Len(a \o b) = n - 1
    BY <1>a, <1>d
<1>b. \A k \in 1 .. n - 1 : (a \o b)[k] = IF k <= i - 1 THEN a[k] ELSE b[k - (i - 1)]
    <2>1. \A k \in 1 .. n - 1 : (a \o b)[k] = IF k <= Len(a) THEN a[k] ELSE b[k - Len(a)]
        <3>1. \A k \in 1 .. Len(a) + Len(b) :
                  (a \o b)[k] = IF k <= Len(a) THEN a[k] ELSE b[k - Len(a)]
            BY Joined, Zenon
        <3> QED BY <3>1, <1>a
    <2> QED BY <2>1, <1>5
<1>7. ASSUME NEW k \in 1 .. n - 1
      PROVE  (a \o b)[k] = s[IF k < i THEN k ELSE k + 1]
    <2>1. CASE k < i
        <3>1. k \in 1 .. i - 1 /\ k <= i - 1
            BY <1>4, <2>1
        <3>2. a[k] = s[k]
            BY <1>1, <3>1
        <3> QED BY <1>b, <2>1, <3>1, <3>2
    <2>2. CASE ~(k < i)
        <3>1. k - (i - 1) \in 1 .. n - i /\ ~(k <= i - 1) /\ i + (k - (i - 1)) = k + 1
            BY <1>4, <2>2
        <3>2. (a \o b)[k] = b[k - (i - 1)]
            BY <1>b, <3>1
        <3>3. b[k - (i - 1)] = s[i + (k - (i - 1))]
            BY <1>2, <3>1
        <3>4. s[i + (k - (i - 1))] = s[k + 1]
            BY <3>1
        <3> QED BY <2>2, <3>2, <3>3, <3>4
    <2> QED BY <2>1, <2>2
<1> QED BY <1>c, <1>6, <1>7

-----------------------------------------------------------------------------
(* Buckets                                                                   *)

(* Two entries that may not both be there: two registrations of a handler    *)
(* and, with no foreign attribute wrapper about (x), two attribute wrappers. *)
Clash(e, f, x) ==
    \/ isRegistration(e) /\ isRegistration(f) /\ e.handler = f.handler
    \/ ~x /\ isAttribute(e) /\ isAttribute(f)

Apart(b, x) == \A i, j \in 1 .. Len(b) : Clash(b[i], b[j], x) => i = j

(* What the attribute reads in a bucket.                                     *)
Reads(b, a) ==
    /\ \A i \in 1 .. Len(b) : isAttribute(b[i]) => b[i].handler = a
    /\ a # NoHandler => \E i \in 1 .. Len(b) : isAttribute(b[i])

Bucket(b, a, x) == b \in Seq(Entry) /\ Apart(b, x) /\ (x \/ Reads(b, a))

(* unsubscribeMatching, by the indices that match.                           *)
Spliced(b, I) == IF I = {} THEN b ELSE RemoveAt(b, Max(I))

LEMMA SplicedParts ==
    ASSUME NEW b \in Seq(Entry), NEW I \in SUBSET (1 .. Len(b)), I # {}
    PROVE  /\ Spliced(b, I) \in Seq(Entry) /\ Len(Spliced(b, I)) = Len(b) - 1
           /\ \E p \in I : \A k \in 1 .. Len(b) - 1 :
                  Spliced(b, I)[k] = b[IF k < p THEN k ELSE k + 1]
<1>1. Len(b) \in Nat
    OBVIOUS
<1>2. Max(I) \in I /\ Max(I) \in 1 .. Len(b)
    BY <1>1, LastFound
<1> QED BY <1>2, WithoutOne DEF Spliced

(* A removal leaves the others apart.                                        *)
LEMMA SplicedApart ==
    ASSUME NEW x, NEW b \in Seq(Entry), NEW I \in SUBSET (1 .. Len(b)), Apart(b, x)
    PROVE  Spliced(b, I) \in Seq(Entry) /\ Apart(Spliced(b, I), x)
<1>1. CASE I = {}
    BY <1>1 DEF Spliced
<1>2. CASE I # {}
    <2> PICK c : c = Spliced(b, I)
        OBVIOUS
    <2>1. PICK p \in I : \A k \in 1 .. Len(b) - 1 : c[k] = b[IF k < p THEN k ELSE k + 1]
        BY <1>2, SplicedParts
    <2>2. c \in Seq(Entry) /\ Len(c) = Len(b) - 1
        BY <1>2, SplicedParts
    <2>3. ASSUME NEW i \in 1 .. Len(c), NEW j \in 1 .. Len(c), Clash(c[i], c[j], x)
          PROVE  i = j
        <3> DEFINE at(k) == IF k < p THEN k ELSE k + 1
        <3>1. at(i) \in 1 .. Len(b) /\ at(j) \in 1 .. Len(b)
            BY <2>2
        <3>2. c[i] = b[at(i)] /\ c[j] = b[at(j)]
            BY <2>1, <2>2
        <3>3. at(i) = at(j)
            BY <2>3, <3>1, <3>2 DEF Apart
        <3> QED BY <2>2, <3>3
    <2> QED BY <2>2, <2>3 DEF Apart
<1> QED BY <1>1, <1>2

(* One that removes no attribute wrapper leaves the attribute as it reads.   *)
LEMMA SplicedReads ==
    ASSUME NEW a, NEW x, NEW b, Bucket(b, a, x), NEW I \in SUBSET (1 .. Len(b)),
           \A i \in I : ~isAttribute(b[i])
    PROVE  Bucket(Spliced(b, I), a, x)
<1>0. b \in Seq(Entry) /\ Apart(b, x) /\ (x \/ Reads(b, a))
    BY DEF Bucket
<1>1. CASE I = {}
    BY <1>1 DEF Spliced
<1>2. CASE I # {}
    <2> PICK c : c = Spliced(b, I)
        OBVIOUS
    <2>1. PICK p \in I : \A k \in 1 .. Len(b) - 1 : c[k] = b[IF k < p THEN k ELSE k + 1]
        BY <1>0, <1>2, SplicedParts
    <2>2. c \in Seq(Entry) /\ Len(c) = Len(b) - 1 /\ Apart(c, x)
        BY <1>0, <1>2, SplicedParts, SplicedApart
    <2>3. \A k \in 1 .. Len(c) : \E i \in 1 .. Len(b) : c[k] = b[i]
        BY <1>0, <2>1, <2>2
    <2>4. ASSUME NEW i \in 1 .. Len(b), isAttribute(b[i])
          PROVE  \E k \in 1 .. Len(c) : isAttribute(c[k])
        <3>1. i # p
            BY <2>4
        <3>2. CASE i < p
            <4>1. i \in 1 .. Len(b) - 1 /\ c[i] = b[i]
                BY <1>0, <2>1, <3>2
            <4> QED BY <2>2, <2>4, <4>1
        <3>3. CASE i > p
            <4>1. i - 1 \in 1 .. Len(b) - 1 /\ ~(i - 1 < p) /\ (i - 1) + 1 = i
                BY <1>0, <3>3
            <4>2. c[i - 1] = b[i]
                BY <2>1, <4>1
            <4> QED BY <2>2, <2>4, <4>1, <4>2
        <3> QED BY <1>0, <3>1, <3>2, <3>3
    <2>5. x \/ Reads(c, a)
        BY <1>0, <2>3, <2>4 DEF Reads
    <2> QED BY <2>2, <2>5 DEF Bucket
<1> QED BY <1>1, <1>2

(* With no attribute wrapper left, nothing of foreign ones is left either.   *)
LEMMA NoneLeft ==
    ASSUME NEW x, NEW b \in Seq(Entry), Apart(b, x), \A i \in 1 .. Len(b) : ~isAttribute(b[i])
    PROVE  Bucket(b, NoHandler, FALSE)
BY DEF Bucket, Apart, Clash, Reads

(* Removing an attribute wrapper removes the only one, if none is foreign.   *)
LEMMA SplicedClears ==
    ASSUME NEW b \in Seq(Entry), Apart(b, FALSE), NEW I \in SUBSET (1 .. Len(b)),
           \A i \in I : isAttribute(b[i]),
           I = {} => \A i \in 1 .. Len(b) : ~isAttribute(b[i])
    PROVE  \A k \in 1 .. Len(Spliced(b, I)) : ~isAttribute(Spliced(b, I)[k])
<1> PICK c : c = Spliced(b, I)
    OBVIOUS
<1>1. ASSUME NEW k \in 1 .. Len(c), isAttribute(c[k]) PROVE FALSE
    <2>1. CASE I = {}
        BY <1>1, <2>1 DEF Spliced
    <2>2. CASE I # {}
        <3>1. PICK p \in I : \A j \in 1 .. Len(b) - 1 : c[j] = b[IF j < p THEN j ELSE j + 1]
            BY <2>2, SplicedParts
        <3>2. Len(c) = Len(b) - 1
            BY <2>2, SplicedParts
        <3> DEFINE q == IF k < p THEN k ELSE k + 1
        <3>3. q \in 1 .. Len(b) /\ q # p /\ c[k] = b[q]
            BY <3>1, <3>2
        <3>4. Clash(b[p], b[q], FALSE)
            BY <1>1, <3>3 DEF Clash
        <3> QED BY <3>3, <3>4 DEF Apart
    <2> QED BY <2>1, <2>2
<1> QED BY <1>1

(* A bucket with an entry more, at either end.                               *)
LEMMA AddedParts ==
    ASSUME NEW b \in Seq(Entry), NEW e \in Entry, NEW c \in {Append(b, e), <<e>> \o b}
    PROVE  /\ c \in Seq(Entry) /\ Len(c) = Len(b) + 1
           /\ \E p \in 1 .. Len(b) + 1 :
                  /\ c[p] = e
                  /\ \A k \in 1 .. Len(b) : c[IF k < p THEN k ELSE k + 1] = b[k]
<1>0. Len(b) \in Nat /\ <<e>> \in Seq(Entry) /\ Len(<<e>>) = 1 /\ <<e>>[1] = e
    OBVIOUS
<1>1. CASE c = Append(b, e)
    <2>1. /\ c \in Seq(Entry) /\ Len(c) = Len(b) + 1 /\ c[Len(b) + 1] = e
          /\ \A k \in 1 .. Len(b) : c[k] = b[k]
        BY <1>1
    <2>2. \A k \in 1 .. Len(b) : c[IF k < Len(b) + 1 THEN k ELSE k + 1] = b[k]
        BY <1>0, <2>1
    <2>3. Len(b) + 1 \in 1 .. Len(b) + 1
        BY <1>0
    <2> QED BY <2>1, <2>2, <2>3
<1>2. CASE c = <<e>> \o b
    <2> PICK s \in Seq(Entry) : s = <<e>>
        BY <1>0
    <2>a. c \in Seq(Entry) /\ Len(c) = Len(s) + Len(b)
        BY <1>2, Joined, Zenon
    <2>1. c \in Seq(Entry) /\ Len(c) = Len(b) + 1
        BY <1>0, <2>a
    <2>b. \A k \in 1 .. Len(s) + Len(b) : c[k] = IF k <= Len(s) THEN s[k] ELSE b[k - Len(s)]
        BY <1>2, Joined, Zenon
    <2>c. \A k \in 1 .. 1 + Len(b) : c[k] = IF k <= 1 THEN e ELSE b[k - 1]
        BY <1>0, <2>b
    <2>2. c[1] = e
        BY <1>0, <2>c
    <2>3. ASSUME NEW k \in 1 .. Len(b) PROVE c[IF k < 1 THEN k ELSE k + 1] = b[k]
        <3>1. k + 1 \in 1 .. 1 + Len(b) /\ ~(k + 1 <= 1) /\ (k + 1) - 1 = k /\ ~(k < 1)
            BY <1>0
        <3> QED BY <2>c, <3>1
    <2>4. 1 \in 1 .. Len(b) + 1
        BY <1>0
    <2> QED BY <2>1, <2>2, <2>3, <2>4
<1> QED BY <1>1, <1>2

LEMMA AddedKeeps ==
    ASSUME NEW a, NEW x, NEW b, Bucket(b, a, x), NEW e \in Entry,
           NEW c \in {Append(b, e), <<e>> \o b}, \A i \in 1 .. Len(b) : ~Clash(b[i], e, x)
    PROVE  /\ ~isAttribute(e) \/ x => Bucket(c, a, x)
           /\ isAttribute(e) /\ (\A i \in 1 .. Len(b) : ~isAttribute(b[i]))
                  => Bucket(c, e.handler, x)
<1>0. b \in Seq(Entry) /\ Apart(b, x) /\ (x \/ Reads(b, a))
    BY DEF Bucket
<1>1. c \in Seq(Entry) /\ Len(c) = Len(b) + 1
    BY <1>0, AddedParts
<1>2. PICK p \in 1 .. Len(b) + 1 :
               /\ c[p] = e
               /\ \A k \in 1 .. Len(b) : c[IF k < p THEN k ELSE k + 1] = b[k]
    BY <1>0, AddedParts
<1>3. PICK n \in Nat : n = Len(b)
    BY <1>0
<1>4. ASSUME NEW k \in 1 .. n + 1, k # p
      PROVE  \E i \in 1 .. n : c[k] = b[i] /\ k = IF i < p THEN i ELSE i + 1
    <2>1. CASE k < p
        <3>1. k \in 1 .. n
            BY <1>3, <2>1
        <3> QED BY <1>2, <1>3, <2>1, <3>1
    <2>2. CASE k > p
        <3>1. k - 1 \in 1 .. n /\ ~(k - 1 < p) /\ (k - 1) + 1 = k
            BY <1>3, <2>2
        <3> QED BY <1>2, <1>3, <3>1
    <2> QED BY <1>3, <1>4, <2>1, <2>2
<1>5. ASSUME NEW i \in 1 .. n + 1, NEW j \in 1 .. n + 1, Clash(c[i], c[j], x) PROVE i = j
    <2>1. ASSUME i # p, j # p PROVE i = j
        <3>1. PICK k \in 1 .. n : c[i] = b[k] /\ i = IF k < p THEN k ELSE k + 1
            BY <1>4, <2>1
        <3>2. PICK l \in 1 .. n : c[j] = b[l] /\ j = IF l < p THEN l ELSE l + 1
            BY <1>4, <2>1
        <3>3. k = l
            BY <1>0, <1>3, <1>5, <3>1, <3>2 DEF Apart
        <3> QED BY <3>1, <3>2, <3>3
    <2>2. ASSUME i = p, j # p PROVE FALSE
        <3>1. PICK l \in 1 .. n : c[j] = b[l]
            BY <1>4, <2>2
        <3>2. Clash(b[l], e, x)
            BY <1>2, <1>5, <2>2, <3>1 DEF Clash
        <3> QED BY <1>3, <3>2
    <2>3. ASSUME i # p, j = p PROVE FALSE
        <3>1. PICK l \in 1 .. n : c[i] = b[l]
            BY <1>4, <2>3
        <3>2. Clash(b[l], e, x)
            BY <1>2, <1>5, <2>3, <3>1
        <3> QED BY <1>3, <3>2
    <2> QED BY <2>1, <2>2, <2>3
<1>6. Apart(c, x)
    BY <1>1, <1>3, <1>5 DEF Apart
<1>7. ASSUME ~isAttribute(e), ~x PROVE Reads(c, a)
    <2>1. ASSUME NEW k \in 1 .. n + 1, isAttribute(c[k]) PROVE c[k].handler = a
        <3>1. k # p
            BY <1>2, <1>7, <2>1
        <3>2. PICK i \in 1 .. n : c[k] = b[i]
            BY <1>4, <3>1
        <3> QED BY <1>0, <1>3, <1>7, <2>1, <3>2 DEF Reads
    <2>2. ASSUME a # NoHandler PROVE \E k \in 1 .. n + 1 : isAttribute(c[k])
        <3>1. PICK i \in 1 .. n : isAttribute(b[i])
            BY <1>0, <1>3, <1>7, <2>2 DEF Reads
        <3>2. (IF i < p THEN i ELSE i + 1) \in 1 .. n + 1
            BY <1>3
        <3> QED BY <1>2, <1>3, <3>1, <3>2
    <2> QED BY <1>1, <1>3, <2>1, <2>2 DEF Reads
<1>8. ASSUME isAttribute(e), \A i \in 1 .. n : ~isAttribute(b[i]) PROVE Reads(c, e.handler)
    <2>1. ASSUME NEW k \in 1 .. n + 1, isAttribute(c[k]) PROVE c[k].handler = e.handler
        <3>1. k = p
            BY <1>4, <1>8, <2>1
        <3> QED BY <1>2, <3>1
    <2>2. p \in 1 .. n + 1 /\ isAttribute(c[p])
        BY <1>2, <1>3, <1>8
    <2> QED BY <1>1, <1>3, <2>1, <2>2 DEF Reads
<1> QED BY <1>1, <1>3, <1>6, <1>7, <1>8 DEF Bucket

-----------------------------------------------------------------------------
(* The operations, by the indices that match                                 *)

Matching(b, e) == {i \in 1 .. Len(b) : b[i] = e}
Tagged(b, h)   == {i \in 1 .. Len(b) : ~isDomEntry(b[i]) /\ b[i].handler = h}
DomOf(b, h)    == {i \in 1 .. Len(b) : isDomListenerOf(b[i], h)}
Attributes(b)  == {i \in 1 .. Len(b) : isAttribute(b[i])}

LEMMA NotZero == \A b \in Seq(Entry) : \A I \in SUBSET (1 .. Len(b)) : I # {} => Max(I) # 0
<1> SUFFICES ASSUME NEW b \in Seq(Entry), NEW I \in SUBSET (1 .. Len(b)), I # {}
             PROVE  Max(I) # 0
    OBVIOUS
<1>1. Len(b) \in Nat
    OBVIOUS
<1>2. Max(I) \in 1 .. Len(b)
    BY <1>1, LastFound
<1> QED BY <1>1, <1>2

LEMMA RemovesMatching ==
    ASSUME NEW b \in Seq(Entry), NEW e
    PROVE  unsubscribeMatching(b, LAMBDA f : f = e) = Spliced(b, Matching(b, e))
<1>1. Matching(b, e) # {} => Max(Matching(b, e)) # 0
    BY NotZero DEF Matching
<1> QED BY <1>1 DEF unsubscribeMatching, SelectLastInSeq, Spliced, Matching

LEMMA RemovesTagged ==
    ASSUME NEW b \in Seq(Entry), NEW h
    PROVE  removeTagged(b, h) = Spliced(b, Tagged(b, h))
<1>1. Tagged(b, h) # {} => Max(Tagged(b, h)) # 0
    BY NotZero DEF Tagged
<1> QED BY <1>1 DEF removeTagged, unsubscribeMatching, SelectLastInSeq, Spliced, Tagged

LEMMA RemovesDomOf ==
    ASSUME NEW b \in Seq(Entry), NEW h
    PROVE  unsubscribeMatching(b, LAMBDA e : isDomListenerOf(e, h)) = Spliced(b, DomOf(b, h))
<1>1. DomOf(b, h) # {} => Max(DomOf(b, h)) # 0
    BY NotZero DEF DomOf
<1> QED BY <1>1 DEF unsubscribeMatching, SelectLastInSeq, Spliced, DomOf

LEMMA RemovesAttributes ==
    ASSUME NEW b \in Seq(Entry)
    PROVE  unsubscribeMatching(b, isAttribute) = Spliced(b, Attributes(b))
<1>1. Attributes(b) # {} => Max(Attributes(b)) # 0
    BY NotZero DEF Attributes
<1> QED BY <1>1 DEF unsubscribeMatching, SelectLastInSeq, Spliced, Attributes

-----------------------------------------------------------------------------
(* The invariant                                                             *)

BucketInv == TypeOK /\ Bucket(listeners, assigned, foreign)

Types == /\ runs \in Seq(Nat) /\ assigned \in Handler \cup {NoHandler}
         /\ foreign \in BOOLEAN
         /\ dispatches \in Seq(Seq(Entry))

LEMMA EntryParts ==
    /\ \A k \in {"plain", "dom", "attribute"}, h \in Handler :
           LET e == [kind |-> k, handler |-> h, id |-> 0]
           IN  e \in Entry /\ e.kind = k /\ e.handler = h
    /\ \A k \in {"once", "domOnce", "attributeOnce"}, h \in Handler, n \in 1 .. MaxOnce :
           LET e == [kind |-> k, handler |-> h, id |-> n]
           IN  e \in Entry /\ e.kind = k /\ e.handler = h
    /\ \A e \in Entry : e.handler \in Handler /\ (isOnce(e) => e.id \in 1 .. MaxOnce)
<1>1. ASSUME NEW k \in {"plain", "dom", "attribute"}, NEW h \in Handler
      PROVE  LET e == [kind |-> k, handler |-> h, id |-> 0]
             IN  e \in Entry /\ e.kind = k /\ e.handler = h
    BY DEF Entry
<1>2. ASSUME NEW k \in {"once", "domOnce", "attributeOnce"}, NEW h \in Handler, NEW n \in 1 .. MaxOnce
      PROVE  LET e == [kind |-> k, handler |-> h, id |-> n]
             IN  e \in Entry /\ e.kind = k /\ e.handler = h
    BY DEF Entry
<1>3. ASSUME NEW e \in Entry
      PROVE  e.handler \in Handler /\ (isOnce(e) => e.id \in 1 .. MaxOnce)
    BY DEF Entry, isOnce
<1> QED BY <1>1, <1>2, <1>3

LEMMA ListenerTypes == ASSUME BucketInv PROVE listeners \in Seq(Entry) /\ Types
BY DEF BucketInv, TypeOK, Types

LEMMA Assembled ==
    ASSUME Types', Bucket(listeners, assigned, foreign)' PROVE BucketInv'
BY DEF Types, BucketInv, Bucket, TypeOK

(* What is called is out of the bucket or stays in it, and is no attribute   *)
(* when it goes.                                                             *)
LEMMA CallKeeps ==
    ASSUME BucketInv, NEW e \in Entry, Call(e)
    PROVE  /\ Bucket(listeners, assigned, foreign)'
           /\ runs' \in Seq(Nat) /\ UNCHANGED attributes /\ assigned' \in Handler \cup {NoHandler}
           /\ foreign' \in BOOLEAN
<1>1. listeners \in Seq(Entry) /\ Types /\ Bucket(listeners, assigned, foreign)
    BY ListenerTypes DEF BucketInv
<1>2. Bucket(BucketAtCall(e), assigned, foreign)
    <2>1. CASE isOnce(e)
        <3>1. BucketAtCall(e) = Spliced(listeners, Matching(listeners, e))
            BY <1>1, <2>1, RemovesMatching DEF BucketAtCall
        <3>2. \A i \in Matching(listeners, e) : ~isAttribute(listeners[i])
            BY <2>1 DEF Matching, isOnce, isAttribute
        <3>3. Matching(listeners, e) \in SUBSET (1 .. Len(listeners))
            BY DEF Matching
        <3> QED BY <1>1, <3>1, <3>2, <3>3, SplicedReads
    <2>2. CASE ~isOnce(e)
        BY <1>1, <2>2 DEF BucketAtCall
    <2> QED BY <2>1, <2>2
<1>3. listeners' = BucketAtCall(e) /\ UNCHANGED attributes /\ assigned' = assigned /\ foreign' = foreign
    BY DEF Call, attributes
<1>4. Bucket(listeners', assigned', foreign')
    BY <1>2, <1>3
<1>5. runs' \in Seq(Nat)
    <2>1. CASE isOnce(e)
        <3> PICK n : n = e.id
            OBVIOUS
        <3>1. runs' = [runs EXCEPT ![n] = @ + 1] /\ runs \in Seq(Nat)
            BY <1>1, <2>1 DEF Call, Types
        <3>2. CASE n \in 1 .. Len(runs)
            <4>1. runs[n] + 1 \in Nat
                BY <3>1, <3>2
            <4> QED BY <3>1, <3>2, <4>1
        <3>3. CASE n \notin 1 .. Len(runs)
            <4>1. DOMAIN runs = 1 .. Len(runs) /\ runs = [i \in DOMAIN runs |-> runs[i]]
                BY <3>1
            <4>2. \A i \in DOMAIN runs : i # n
                BY <3>3, <4>1
            <4>3. [runs EXCEPT ![n] = @ + 1] = runs
                BY <4>1, <4>2
            <4> QED BY <3>1, <4>3
        <3> QED BY <3>2, <3>3
    <2>2. CASE ~isOnce(e)
        BY <1>1, <2>2 DEF Call, Types
    <2> QED BY <2>1, <2>2
<1> QED BY <1>1, <1>3, <1>4, <1>5 DEF Types, Bucket, Apart, Reads

LEMMA Lengthened ==
    ASSUME BucketInv, NEW e \in Entry,
           \/ ~isAttribute(e) /\ foreign' = foreign
           \/ isAttribute(e) /\ foreign' = TRUE,
           \A i \in 1 .. Len(listeners) : ~Clash(listeners[i], e, foreign'),
           listeners' \in {Append(listeners, e), <<e>> \o listeners},
           assigned' = assigned, dispatches' = dispatches, runs' \in Seq(Nat)
    PROVE  BucketInv'
<1>1. listeners \in Seq(Entry) /\ Types /\ Bucket(listeners, assigned, foreign)
    BY ListenerTypes DEF BucketInv
<1>2. foreign' \in BOOLEAN /\ Bucket(listeners, assigned, foreign')
    BY <1>1 DEF Types, Bucket, Apart, Clash
<1>3. Bucket(listeners', assigned, foreign')
    BY <1>1, <1>2, AddedKeeps
<1>4. Bucket(listeners', assigned', foreign')
    BY <1>3
<1>5. Types'
    BY <1>1, <1>2 DEF Types
<1> QED BY <1>4, <1>5, Assembled DEF Bucket, Apart, Reads

LEMMA Shortened ==
    ASSUME BucketInv, NEW I \in SUBSET (1 .. Len(listeners)),
           \A i \in I : ~isAttribute(listeners[i]),
           listeners' = Spliced(listeners, I), UNCHANGED <<dispatches, runs, attributes>>
    PROVE  BucketInv'
<1>1. listeners \in Seq(Entry) /\ Types /\ Bucket(listeners, assigned, foreign)
    BY ListenerTypes DEF BucketInv
<1>2. Bucket(listeners', assigned', foreign')
    BY <1>1, SplicedReads DEF attributes
<1>3. Types'
    BY <1>1 DEF Types, attributes
<1> QED BY <1>2, <1>3, Assembled DEF Bucket, Apart, Reads

LEMMA StepBucketInv == BucketInv /\ [Next]_vars => BucketInv'
<1> SUFFICES ASSUME BucketInv, [Next]_vars PROVE BucketInv'
    OBVIOUS
<1>0. listeners \in Seq(Entry) /\ Types /\ Bucket(listeners, assigned, foreign) /\ Len(runs) \in Nat
    BY ListenerTypes DEF BucketInv, Types
<1>a. ASSUME Len(runs) < MaxOnce PROVE Len(runs) + 1 \in 1 .. MaxOnce
    BY <1>0, <1>a, EmitterAssumption DEF EmitterAssumption
<1>b. Append(runs, 0) \in Seq(Nat) /\ runs \in Seq(Nat)
    BY <1>0 DEF Types
<1>1. ASSUME NEW h \in Handler, On(h) PROVE BucketInv'
    <2> PICK e : e = [kind |-> "plain", handler |-> h, id |-> 0]
        OBVIOUS
    <2>1. e \in Entry /\ e.kind = "plain"
        BY EntryParts
    <2>2. ~isAttribute(e) /\ \A f, x : ~Clash(f, e, x)
        BY <2>1 DEF Clash, isAttribute, isRegistration
    <2>3. /\ listeners' \in {Append(listeners, e), <<e>> \o listeners}
          /\ UNCHANGED <<dispatches, runs, attributes>>
        BY <1>1 DEF On
    <2> QED BY <1>b, <2>1, <2>2, <2>3, Lengthened DEF attributes
<1>2. ASSUME NEW h \in Handler, Once(h) PROVE BucketInv'
    <2> PICK e : e = onceWrapper("once", h)
        OBVIOUS
    <2>1. e \in Entry /\ e.kind = "once"
        BY <1>2, <1>a, EntryParts DEF Once, onceWrapper
    <2>2. ~isAttribute(e) /\ \A f, x : ~Clash(f, e, x)
        BY <2>1 DEF Clash, isAttribute, isRegistration
    <2>3. /\ listeners' \in {Append(listeners, e), <<e>> \o listeners}
          /\ runs' = Append(runs, 0) /\ UNCHANGED <<dispatches, attributes>>
        BY <1>2 DEF Once
    <2> QED BY <1>b, <2>1, <2>2, <2>3, Lengthened DEF attributes
<1>3. ASSUME NEW h \in Handler, Off(h) PROVE BucketInv'
    <2>1. listeners' = Spliced(listeners, Tagged(listeners, h))
        BY <1>0, <1>3, RemovesTagged DEF Off
    <2>2. \A i \in Tagged(listeners, h) : ~isAttribute(listeners[i])
        BY DEF Tagged, isAttribute, isDomEntry
    <2>3. Tagged(listeners, h) \in SUBSET (1 .. Len(listeners))
        BY DEF Tagged
    <2>4. UNCHANGED <<dispatches, runs, attributes>>
        BY <1>3 DEF Off
    <2> QED BY <2>1, <2>2, <2>3, <2>4, Shortened
<1>4. ASSUME NEW h \in Handler, RemoveEventListener(h) PROVE BucketInv'
    <2>1. listeners' = Spliced(listeners, DomOf(listeners, h))
        BY <1>0, <1>4, RemovesDomOf DEF RemoveEventListener
    <2>2. \A i \in DomOf(listeners, h) : ~isAttribute(listeners[i])
        BY DEF DomOf, isDomListenerOf
    <2>3. DomOf(listeners, h) \in SUBSET (1 .. Len(listeners))
        BY DEF DomOf
    <2>4. UNCHANGED <<dispatches, runs, attributes>>
        BY <1>4 DEF RemoveEventListener
    <2> QED BY <2>1, <2>2, <2>3, <2>4, Shortened
<1>5. ASSUME NEW h \in Handler, NEW once \in BOOLEAN, NEW attribute \in BOOLEAN,
             AddEventListener(h, once, attribute)
      PROVE  BucketInv'
    <2> PICK e : e = domWrapper(h, once, attribute)
        OBVIOUS
    <2>1. /\ e \in Entry /\ e.handler = h
          /\ isRegistration(e) => ~attribute
          /\ isAttribute(e) <=> attribute /\ ~once
        <3>1. CASE once
            <4>1. e \in Entry /\ e.handler = h
                  /\ e.kind = IF attribute THEN "attributeOnce" ELSE "domOnce"
                BY <1>5, <1>a, <3>1, EntryParts DEF AddEventListener, onceWrapper, domWrapper
            <4> QED BY <3>1, <4>1 DEF isRegistration, isAttribute
        <3>2. CASE ~once
            <4>1. e \in Entry /\ e.handler = h
                  /\ e.kind = IF attribute THEN "attribute" ELSE "dom"
                BY <3>2, EntryParts DEF domWrapper
            <4> QED BY <3>2, <4>1 DEF isRegistration, isAttribute
        <3> QED BY <3>1, <3>2
    <2>2. /\ listeners' = Append(listeners, e) /\ UNCHANGED <<dispatches, assigned>>
          /\ runs' = IF once THEN Append(runs, 0) ELSE runs
          /\ foreign' = (foreign \/ (attribute /\ ~once))
        BY <1>5 DEF AddEventListener
    <2>3. \/ ~isAttribute(e) /\ foreign' = foreign
          \/ isAttribute(e) /\ foreign' = TRUE
        BY <1>0, <2>1, <2>2 DEF Types
    <2>4. ~attribute => \A i \in 1 .. Len(listeners) : ~isDomListenerOf(listeners[i], h)
        BY <1>5 DEF AddEventListener, ToSet
    <2>5. \A f : isRegistration(f) /\ f.handler = h => isDomListenerOf(f, h)
        BY DEF isRegistration, isDomListenerOf, isDomEntry, isAttribute
    <2>6. \A i \in 1 .. Len(listeners) : ~Clash(listeners[i], e, foreign')
        BY <2>1, <2>3, <2>4, <2>5 DEF Clash
    <2> QED BY <1>b, <2>1, <2>2, <2>3, <2>6, Lengthened
<1>6. ASSUME NEW h \in Handler \cup {NoHandler}, SetAttribute(h) PROVE BucketInv'
    <2> PICK c : c = unsubscribeMatching(listeners, isAttribute)
        OBVIOUS
    <2>1. c = Spliced(listeners, Attributes(listeners))
        BY <1>0, RemovesAttributes
    <2>2. /\ Attributes(listeners) \in SUBSET (1 .. Len(listeners))
          /\ \A i \in Attributes(listeners) : isAttribute(listeners[i])
          /\ Attributes(listeners) = {} =>
                 \A i \in 1 .. Len(listeners) : ~isAttribute(listeners[i])
        BY DEF Attributes
    <2>3. c \in Seq(Entry) /\ Apart(c, foreign)
        BY <1>0, <2>1, <2>2, SplicedApart DEF Bucket
    <2> PICK x \in BOOLEAN : x = (foreign /\ HasAttribute(c))
        OBVIOUS
    <2> PICK e : e = domWrapper(h, FALSE, TRUE)
        OBVIOUS
    <2>4. /\ listeners' = IF h = NoHandler THEN c ELSE Append(c, e)
          /\ assigned' = h /\ foreign' = x /\ UNCHANGED <<dispatches, runs>>
        BY <1>6 DEF SetAttribute
    <2>5. ~x => \A k \in 1 .. Len(c) : ~isAttribute(c[k])
        <3>1. CASE foreign
            <4> SUFFICES ASSUME NEW k \in 1 .. Len(c), isAttribute(c[k]) PROVE x
                OBVIOUS
            <4>1. k \in DOMAIN c
                BY <2>3
            <4>2. c[k] \in ToSet(c)
                BY <4>1 DEF ToSet
            <4>3. HasAttribute(c)
                BY <4>2 DEF HasAttribute
            <4> QED BY <3>1, <4>3
        <3>2. CASE ~foreign
            <4>1. Apart(listeners, FALSE)
                BY <1>0, <3>2 DEF Bucket, Types
            <4> QED BY <1>0, <2>1, <2>2, <4>1, SplicedClears
        <3> QED BY <3>1, <3>2
    <2>6. Bucket(c, NoHandler, x)
        <3>1. CASE x
            BY <2>3, <3>1 DEF Bucket, Apart, Clash
        <3>2. CASE ~x
            BY <2>3, <2>5, <3>2, NoneLeft
        <3> QED BY <3>1, <3>2
    <2>7. Bucket(listeners', h, x)
        <3>1. CASE h = NoHandler
            BY <2>4, <2>6, <3>1
        <3>2. CASE h # NoHandler
            <4>1. e \in Entry /\ e.kind = "attribute" /\ e.handler = h
                BY <3>2, EntryParts DEF domWrapper
            <4>2. isAttribute(e) /\ ~isRegistration(e)
                BY <4>1 DEF isAttribute, isRegistration
            <4>3. \A i \in 1 .. Len(c) : ~Clash(c[i], e, x)
                BY <2>5, <4>2 DEF Clash
            <4>4. /\ x => Bucket(Append(c, e), NoHandler, x)
                  /\ ~x => Bucket(Append(c, e), h, x)
                BY <2>5, <2>6, <4>1, <4>2, <4>3, AddedKeeps
            <4>5. Bucket(Append(c, e), h, x)
                BY <4>4 DEF Bucket
            <4> QED BY <2>4, <3>2, <4>5
        <3> QED BY <3>1, <3>2
    <2>8. Bucket(listeners', assigned', foreign') /\ Types'
        BY <1>0, <2>4, <2>7 DEF Types
    <2> QED BY <2>8, Assembled DEF Bucket, Apart, Reads
<1>7. CASE OffListed
    <2>1. PICK i \in 1 .. Len(listeners) : listeners' = RemoveAt(listeners, i)
        BY <1>0, <1>7 DEF OffListed
    <2> PICK c : c = RemoveAt(listeners, i)
        OBVIOUS
    <2>2. Max({i}) = i
        <3>1. PICK n \in Nat : n = Len(listeners)
            BY <1>0
        <3>2. {i} \in SUBSET (1 .. n) /\ {i} # {}
            BY <2>1, <3>1
        <3>3. Max({i}) \in {i}
            BY <3>1, <3>2, LastFound
        <3> QED BY <3>3
    <2>3. c = Spliced(listeners, {i})
        BY <2>2 DEF Spliced
    <2>4. c \in Seq(Entry) /\ Apart(c, foreign)
        BY <1>0, <2>3, SplicedApart DEF Bucket
    <2>5. /\ listeners' = c /\ UNCHANGED <<dispatches, runs>>
          /\ assigned' = IF HasAttribute(c) THEN assigned ELSE NoHandler
          /\ foreign' = (foreign /\ HasAttribute(c))
        BY <1>7, <2>1 DEF OffListed
    <2>6. HasAttribute(c) <=> \E k \in 1 .. Len(c) : isAttribute(c[k])
        BY <2>4 DEF HasAttribute, ToSet
    <2>7. Bucket(c, assigned', foreign')
        <3>1. CASE ~HasAttribute(c)
            BY <2>4, <2>5, <2>6, <3>1, NoneLeft
        <3>2. CASE HasAttribute(c) /\ foreign
            BY <2>4, <2>5, <3>2 DEF Bucket
        <3>3. CASE HasAttribute(c) /\ ~foreign
            <4>1. Apart(listeners, FALSE)
                BY <1>0, <3>3 DEF Bucket, Types
            <4>2. ~isAttribute(listeners[i])
                BY <1>0, <2>3, <2>6, <3>3, <4>1, SplicedClears
            <4>3. Bucket(c, assigned, foreign)
                BY <1>0, <2>3, <4>2, SplicedReads
            <4> QED BY <1>0, <2>5, <3>3, <4>3 DEF Types
        <3> QED BY <3>1, <3>2, <3>3
    <2>8. Bucket(listeners', assigned', foreign') /\ Types'
        BY <1>0, <2>5, <2>7 DEF Types
    <2> QED BY <2>8, Assembled DEF Bucket, Apart, Reads
<1>8. CASE RemoveAll
    <2>1. /\ listeners' = <<>> /\ assigned' = NoHandler /\ foreign' = FALSE
          /\ UNCHANGED <<dispatches, runs>>
        BY <1>8 DEF RemoveAll
    <2>2. Bucket(<<>>, NoHandler, FALSE)
        BY DEF Bucket, Apart, Reads
    <2>3. Bucket(listeners', assigned', foreign') /\ Types'
        BY <1>0, <2>1, <2>2 DEF Types
    <2> QED BY <2>3, Assembled DEF Bucket, Apart, Reads
<1>9. CASE Emit
    <2> PICK e : e = Head(listeners)
        OBVIOUS
    <2>1. /\ dispatches' = Append(dispatches, Tail(listeners)) /\ Call(e)
          /\ listeners # <<>>
        BY <1>9 DEF Emit
    <2>2. e \in Entry /\ Tail(listeners) \in Seq(Entry)
        BY <1>0, <2>1
    <2>3. dispatches' \in Seq(Seq(Entry))
        BY <1>0, <2>1, <2>2 DEF Types
    <2> QED BY <2>1, <2>2, <2>3, CallKeeps, Assembled DEF Types
<1>10. CASE Return
    <2> PICK rest : rest = Last(dispatches)
        OBVIOUS
    <2>1. dispatches # <<>> /\ dispatches \in Seq(Seq(Entry))
        BY <1>0, <1>10 DEF Return, Types
    <2>2. rest \in Seq(Entry) /\ Front(dispatches) \in Seq(Seq(Entry))
        BY <2>1 DEF Last, Front
    <2>3. CASE rest # <<>>
        <3> PICK e : e = Head(rest)
            OBVIOUS
        <3>1. dispatches' = Append(Front(dispatches), Tail(rest)) /\ Call(e)
            BY <1>10, <2>3 DEF Return
        <3>2. e \in Entry /\ Tail(rest) \in Seq(Entry)
            BY <2>2, <2>3
        <3>3. dispatches' \in Seq(Seq(Entry))
            BY <2>2, <3>1, <3>2
        <3> QED BY <3>1, <3>2, <3>3, CallKeeps, Assembled DEF Types
    <2>4. CASE rest = <<>>
        <3>1. dispatches' = Front(dispatches) /\ UNCHANGED <<listeners, runs, attributes>>
            BY <1>10, <2>4 DEF Return
        <3> QED BY <1>0, <2>2, <3>1, Assembled DEF Types, Bucket, Apart, Reads, attributes
    <2> QED BY <2>3, <2>4
<1>11. CASE Throw
    <2>1. dispatches # <<>> /\ dispatches \in Seq(Seq(Entry))
        BY <1>0, <1>11 DEF Throw, Types
    <2>2. Front(dispatches) \in Seq(Seq(Entry))
        BY <2>1 DEF Front
    <2>3. dispatches' = Front(dispatches) /\ UNCHANGED <<listeners, runs, attributes>>
        BY <1>11 DEF Throw
    <2> QED BY <1>0, <2>2, <2>3, Assembled DEF Types, Bucket, Apart, Reads, attributes
<1>12. CASE UNCHANGED vars
    BY <1>12 DEF vars, attributes, BucketInv, TypeOK, Bucket, Apart, Reads
<1> QED BY <1>1, <1>2, <1>3, <1>4, <1>5, <1>6, <1>7, <1>8, <1>9, <1>10, <1>11,
           <1>12 DEF Next

LEMMA InitBucketInv == Init => BucketInv
<1> SUFFICES ASSUME Init PROVE BucketInv
    OBVIOUS
<1>a. <<>> \in Seq(Entry) /\ <<>> \in Seq(Nat) /\ <<>> \in Seq(Seq(Entry))
    OBVIOUS
<1>b. NoHandler \in Handler \cup {NoHandler} /\ FALSE \in BOOLEAN
    OBVIOUS
<1>1. TypeOK
    BY <1>a, <1>b, Zenon DEF Init, TypeOK
<1>2. Bucket(<<>>, NoHandler, FALSE)
    BY DEF Bucket, Apart, Reads
<1> QED BY <1>1, <1>2 DEF Init, BucketInv

(* BucketInv is an invariant of the emitter.                                 *)
THEOREM Invariance == Spec => []BucketInv
BY InitBucketInv, StepBucketInv, PTL DEF Spec

(* Buckets and running dispatches hold entries the operations build.         *)
THEOREM TypeCorrect == Spec => []TypeOK
<1>1. BucketInv => TypeOK
    BY DEF BucketInv
<1> QED BY <1>1, Invariance, PTL

(* However many handlers, registrations and nested dispatches: at most one   *)
(* DOM registration of a handler, but for those the option `attribute`       *)
(* doubles (addEventListener, onceWrapper).                                  *)
THEOREM DomRegistrationsUnique == Spec => []DomListenersUnique
<1>1. BucketInv => DomListenersUnique
    <2> SUFFICES ASSUME BucketInv, NEW i \in 1 .. Len(listeners), NEW j \in 1 .. Len(listeners),
                        isRegistration(listeners[i]), isRegistration(listeners[j]),
                        listeners[i].handler = listeners[j].handler
                 PROVE  i = j
        <3>1. BucketInv => DOMAIN listeners = 1 .. Len(listeners)
            BY DEF BucketInv, TypeOK
        <3> QED BY <3>1 DEF DomListenersUnique
    <2>1. Clash(listeners[i], listeners[j], foreign)
        BY DEF Clash
    <2> QED BY <2>1 DEF BucketInv, Bucket, Apart
<1> QED BY <1>1, Invariance, PTL

(* An attribute reads what was last assigned to it, and calls it once,       *)
(* whatever was registered and removed on the other surfaces since, as long  *)
(* as no attribute wrapper came from elsewhere (findAttributeListener).      *)
THEOREM AttributeKept == Spec => []AttributeReadsBack
<1>1. BucketInv => AttributeReadsBack
    <2> SUFFICES ASSUME BucketInv, ~foreign
                 PROVE  /\ findAttributeListener = assigned
                        /\ \A i, j \in DOMAIN listeners :
                              isAttribute(listeners[i]) /\ isAttribute(listeners[j]) => i = j
        BY DEF AttributeReadsBack
    <2>0. listeners \in Seq(Entry) /\ Reads(listeners, assigned) /\ Len(listeners) \in Nat
        BY ListenerTypes DEF BucketInv, Bucket
    <2>a. \A i, j \in DOMAIN listeners :
              isAttribute(listeners[i]) /\ isAttribute(listeners[j]) => i = j
        <3>1. DOMAIN listeners = 1 .. Len(listeners)
            BY <2>0
        <3> QED BY <3>1 DEF BucketInv, Bucket, Apart, Clash
    <2> PICK I : I = Attributes(listeners)
        OBVIOUS
    <2>1. I \in SUBSET (1 .. Len(listeners))
        BY DEF Attributes
    <2>2. SelectInSeq(listeners, isAttribute) = IF I # {} THEN Min(I) ELSE 0
        BY DEF SelectInSeq, Attributes
    <2>3. ASSUME I = {} PROVE findAttributeListener = assigned
        <3>1. assigned = NoHandler
            BY <2>0, <2>3 DEF Reads, Attributes
        <3> QED BY <2>2, <2>3, <3>1 DEF findAttributeListener
    <2>4. ASSUME I # {} PROVE findAttributeListener = assigned
        <3>0. Min(I) \in I
            BY <2>0, <2>1, <2>4, FirstFound
        <3>1. Min(I) \in I /\ Min(I) # 0
            BY <2>1, <3>0
        <3>2. listeners[Min(I)].handler = assigned
            BY <2>0, <3>1 DEF Reads, Attributes
        <3> QED BY <2>2, <2>4, <3>1, <3>2 DEF findAttributeListener
    <2> QED BY <2>a, <2>3, <2>4
<1> QED BY <1>1, Invariance, PTL
=============================================================================
