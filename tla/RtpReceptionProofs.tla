------------------------- MODULE RtpReceptionProofs -------------------------
(***************************************************************************)
(* Proofs about RtpReception: a connection is cut into the packets that    *)
(* were sent, the ring gives the packets of a device back in the order     *)
(* they were sent, over any number of wraps of the sequence number and for *)
(* rings of any size that divides its range, and the demuxer gets whole    *)
(* access units, raw video from a key frame on.                            *)
(***************************************************************************)
EXTENDS RtpReception, SequenceTheorems, FiniteSetTheorems, WellFoundedInduction, TLAPS

(***************************************************************************)
(* Remainders.                                                             *)
(***************************************************************************)
LEMMA Least ==
  ASSUME NEW S \in SUBSET Nat, S # {}
  PROVE  \E n \in S : \A m \in S : n <= m
<1>1. PICK n \in S : \A m \in S : ~ (<<m, n>> \in OpToRel(<, Nat))
  BY NatLessThanWellFounded, WFMin
<1>2. \A m \in Nat, k \in Nat : m < k => <<m, k>> \in OpToRel(<, Nat)
  BY DEF OpToRel
<1>3. \A m \in S : m \in Nat /\ ~ (m < n) /\ n \in Nat
  BY <1>1, <1>2
<1> QED
  BY <1>3

LEMMA Quotient ==
  ASSUME NEW a \in Nat, NEW b \in Nat \ {0}
  PROVE  a % b \in 0 .. b - 1 /\ \E q \in Nat : a = b * q + (a % b)
<1> DEFINE S == {c \in Nat : ~ \E q \in Nat, r \in 0 .. b - 1 : c = b * q + r}
<1>1. S = {}
  <2>1. SUFFICES ASSUME S # {} PROVE FALSE
    OBVIOUS
  <2>2. PICK c \in S : \A d \in S : c <= d
    BY <2>1, Least
  <2>3. c \in Nat /\ ~ \E q \in Nat, r \in 0 .. b - 1 : c = b * q + r
    OBVIOUS
  <2>4. CASE c < b
    <3>1. c \in 0 .. b - 1 /\ c = b * 0 + c
      BY <2>3, <2>4
    <3> QED
      BY <2>3, <3>1
  <2>5. CASE c >= b
    <3>1. c - b \in Nat /\ ~ (c <= c - b)
      BY <2>3, <2>5
    <3>2. PICK q \in Nat, r \in 0 .. b - 1 : c - b = b * q + r
      BY <2>2, <3>1
    <3>3. c = b * (q + 1) + r
      BY <2>3, <3>2
    <3>4. \E k \in Nat, j \in 0 .. b - 1 : c = b * k + j
      <4>1. q + 1 \in Nat
        OBVIOUS
      <4> WITNESS q + 1 \in Nat, r \in 0 .. b - 1
      <4> QED
        BY <3>3
    <3> QED
      BY <2>3, <3>4
  <2> QED
    BY <2>3, <2>4, <2>5
<1>2. PICK q \in Nat, r \in 0 .. b - 1 : a = b * q + r
  BY <1>1
<1>3. a % b = r
  BY <1>2
<1>4. \E k \in Nat : a = b * k + (a % b)
  <2>1. a = b * q + (a % b)
    BY <1>2, <1>3
  <2> QED
    BY <2>1
<1> QED
  BY <1>3, <1>4

LEMMA Remainder ==
  ASSUME NEW b \in Nat \ {0}, NEW q \in Nat, NEW r \in 0 .. b - 1
  PROVE  (b * q + r) % b = r
OBVIOUS

LEMMA Multiples ==
  ASSUME NEW b \in Nat \ {0}, NEW p \in Nat, NEW q \in Nat, p < q
  PROVE  b * p + b <= b * q
OBVIOUS

\* Numbers less than b apart are told apart by their remainders.
LEMMA SameRemainder ==
  ASSUME NEW a \in Nat, NEW b \in Nat \ {0}, NEW c \in Nat, a % b = c % b,
         a < c + b, c < a + b
  PROVE  a = c
<1> DEFINE r == a % b
<1>1. PICK p \in Nat : a = b * p + r
  BY Quotient
<1>2. PICK q \in Nat : c = b * q + r
  BY Quotient
<1>3. r \in 0 .. b - 1
  BY Quotient
<1> HIDE DEF r
<1>4. b * p \in Nat /\ b * q \in Nat
  OBVIOUS
<1>5. ~ (p < q)
  BY <1>1, <1>2, <1>3, <1>4, Multiples
<1>6. ~ (q < p)
  BY <1>1, <1>2, <1>3, <1>4, Multiples
<1>7. p = q
  BY <1>5, <1>6
<1> QED
  BY <1>1, <1>2, <1>7

\* The remainder of a remainder, when the moduli divide each other.
LEMMA TwoRemainders ==
  ASSUME NEW a \in Nat, NEW b \in Nat \ {0}, NEW c \in Nat \ {0}, c % b = 0
  PROVE  (a % c) % b = a % b
<1> DEFINE r == a % c  t == r % b
<1>1. PICK k \in Nat : c = b * k
  <2>1. PICK k \in Nat : c = b * k + (c % b)
    BY Quotient
  <2>2. c = b * k
    BY <2>1
  <2> QED
    BY <2>2
<1>2. r \in 0 .. c - 1 /\ \E q \in Nat : a = c * q + r
  <2>1. (a % c) \in 0 .. c - 1 /\ \E q \in Nat : a = c * q + (a % c)
    BY Quotient
  <2> QED
    BY <2>1, Zenon DEF r
<1> HIDE DEF r
<1>3. PICK q \in Nat : a = c * q + r
  BY <1>2
<1>4. t \in 0 .. b - 1 /\ \E p \in Nat : r = b * p + t
  <2>1. r \in Nat
    BY <1>2
  <2> QED
    BY <2>1, Quotient
<1> HIDE DEF t
<1>5. PICK p \in Nat : r = b * p + t
  BY <1>4
<1>6. a = b * (k * q + p) + t
  <2>1. c * q = b * (k * q)
    BY <1>1
  <2>2. k * q \in Nat
    OBVIOUS
  <2> DEFINE h == k * q
  <2> HIDE DEF h
  <2>3. b * h + b * p = b * (h + p)
    BY <2>2 DEF h
  <2>4. a = b * h + (b * p + t)
    BY <1>3, <1>5, <2>1 DEF h
  <2>5. b * h \in Nat /\ b * p \in Nat
    BY <2>2 DEF h
  <2> QED
    BY <1>4, <2>3, <2>4, <2>5 DEF h
<1>7. k * q + p \in Nat
  OBVIOUS
<1>8. a % b = t
  BY <1>4, <1>6, <1>7, Remainder
<1> QED
  BY <1>8 DEF r, t

\* Counting on from a remainder.
LEMMA NextRemainder ==
  ASSUME NEW a \in Nat, NEW b \in Nat \ {0}, NEW c \in Nat
  PROVE  ((a % b) + c) % b = (a + c) % b
<1> DEFINE r == a % b  t == (r + c) % b
<1>1. r \in 0 .. b - 1 /\ \E q \in Nat : a = b * q + r
  <2>1. (a % b) \in 0 .. b - 1 /\ \E q \in Nat : a = b * q + (a % b)
    BY Quotient
  <2> QED
    BY <2>1, Zenon DEF r
<1> HIDE DEF r
<1>2. PICK q \in Nat : a = b * q + r
  BY <1>1
<1>3. r + c \in Nat
  BY <1>1
<1>4. t \in 0 .. b - 1 /\ \E p \in Nat : r + c = b * p + t
  BY <1>3, Quotient
<1> HIDE DEF t
<1>5. PICK p \in Nat : r + c = b * p + t
  BY <1>4
<1>6. a + c = b * (q + p) + t
  <2>1. b * q \in Nat /\ b * p \in Nat /\ b * (q + p) = b * q + b * p
    OBVIOUS
  <2> QED
    BY <1>1, <1>2, <1>4, <1>5, <2>1
<1>7. (a + c) % b = t
  <2>1. q + p \in Nat
    OBVIOUS
  <2>2. (b * (q + p) + t) % b = t
    BY <1>4, <2>1, Remainder
  <2> QED
    BY <1>6, <2>2
<1> QED
  BY <1>7 DEF r, t

\* The way from one number to a later one, in remainders: seq_before computes it.
LEMMA WayForward ==
  ASSUME NEW b \in Nat \ {0}, NEW a \in Nat, NEW c \in Nat, a <= c, c < a + b
  PROVE  ((c % b) + b - (a % b)) % b = c - a
<1> DEFINE r == a % b  t == c % b
<1>1. r \in 0 .. b - 1 /\ \E p \in Nat : a = b * p + r
  BY Quotient
<1>2. t \in 0 .. b - 1 /\ \E q \in Nat : c = b * q + t
  BY Quotient
<1> HIDE DEF r, t
<1>3. PICK p \in Nat : a = b * p + r
  BY <1>1
<1>4. PICK q \in Nat : c = b * q + t
  BY <1>2
<1>5. b * p \in Nat /\ b * q \in Nat
  OBVIOUS
<1>6. p = q \/ q = p + 1
  <2>1. ~ (q < p)
    BY <1>1, <1>2, <1>3, <1>4, <1>5, Multiples
  <2>2. ~ (p + 1 < q)
    <3>1. SUFFICES ASSUME p + 1 < q PROVE FALSE
      OBVIOUS
    <3>2. b * (p + 1) + b <= b * q
      BY <3>1, Multiples
    <3>3. b * (p + 1) = b * p + b
      OBVIOUS
    <3> QED
      BY <1>1, <1>2, <1>3, <1>4, <1>5, <3>2, <3>3
  <2> QED
    BY <2>1, <2>2
<1>7. c - a \in 0 .. b - 1
  OBVIOUS
<1>8. CASE p = q
  <2>1. t + b - r = b * 1 + (c - a)
    BY <1>1, <1>2, <1>3, <1>4, <1>5, <1>8
  <2>2. (b * 1 + (c - a)) % b = c - a
    BY <1>7, Remainder
  <2>3. (t + b - r) % b = c - a
    BY <2>1, <2>2
  <2> QED
    BY <2>3 DEF r, t
<1>9. CASE q = p + 1
  <2>0. b * q = b * p + b
    BY <1>9
  <2>1. t + b - r = b * 0 + (c - a)
    BY <1>1, <1>2, <1>3, <1>4, <1>5, <2>0
  <2>2. (b * 0 + (c - a)) % b = c - a
    BY <1>7, Remainder
  <2>3. (t + b - r) % b = c - a
    BY <2>1, <2>2
  <2> QED
    BY <2>3 DEF r, t
<1> QED
  BY <1>6, <1>8, <1>9

\* And back.
LEMMA WayBack ==
  ASSUME NEW b \in Nat \ {0}, NEW a \in Nat, NEW c \in Nat, a < c, c < a + b
  PROVE  ((a % b) + b - (c % b)) % b = b - (c - a)
<1>1. c <= a + b /\ a + b < c + b /\ a + b \in Nat
  OBVIOUS
<1>2. (((a + b) % b) + b - (c % b)) % b = (a + b) - c
  BY <1>1, WayForward
<1>3. (a + b) % b = a % b
  <2>1. a % b \in 0 .. b - 1 /\ \E q \in Nat : a = b * q + (a % b)
    BY Quotient
  <2>2. PICK q \in Nat : a = b * q + (a % b)
    BY <2>1
  <2> DEFINE r == a % b
  <2> HIDE DEF r
  <2>3. a = b * q + r /\ r \in 0 .. b - 1
    BY <2>1, <2>2 DEF r
  <2>4. b * (q + 1) = b * q + b /\ b * q \in Nat /\ q + 1 \in Nat
    OBVIOUS
  <2>5. a + b = b * (q + 1) + r
    BY <2>3, <2>4
  <2>6. (b * (q + 1) + r) % b = r
    BY <2>3, <2>4, Remainder
  <2>7. (a + b) % b = r
    BY <2>5, <2>6
  <2> QED
    BY <2>7 DEF r
<1>4. (a + b) - c = b - (c - a)
  OBVIOUS
<1> QED
  BY <1>2, <1>3, <1>4

(***************************************************************************)
(* Sequence numbers and slots.                                             *)
(***************************************************************************)
Half == SeqRange \div 2

LEMMA Sizes ==
  /\ SeqRange \in Nat \ {0} /\ BufferSize \in Nat \ {0} /\ FirstSeq \in Nat
  /\ Half \in Nat /\ SeqRange = Half + Half /\ BufferSize <= Half
  /\ SeqRange % BufferSize = 0
BY ReceptionAssumption DEF Half

LEMMA SeqNoType ==
  ASSUME NEW n \in Nat
  PROVE  SeqNo(n) \in Nat /\ SeqNo(n) \in 0 .. SeqRange - 1 /\ FirstSeq + n \in Nat
<1>1. FirstSeq + n \in Nat
  BY Sizes
<1>2. ((FirstSeq + n) % SeqRange) \in 0 .. SeqRange - 1
  BY <1>1, Sizes, Quotient
<1>3. SeqNo(n) \in 0 .. SeqRange - 1
  BY <1>2 DEF SeqNo
<1> QED
  BY <1>1, <1>3

LEMMA SlotOf ==
  ASSUME NEW n \in Nat
  PROVE  /\ Slot(SeqNo(n)) = (FirstSeq + n) % BufferSize
         /\ Slot(SeqNo(n)) \in Slots
<1>1. FirstSeq + n \in Nat
  BY Sizes
<1>2. ((FirstSeq + n) % SeqRange) % BufferSize = (FirstSeq + n) % BufferSize
  BY <1>1, Sizes, TwoRemainders
<1>3. ((FirstSeq + n) % BufferSize) \in 0 .. BufferSize - 1
  BY <1>1, Sizes, Quotient
<1>4. Slot(SeqNo(n)) = (FirstSeq + n) % BufferSize
  BY <1>2, Zenon DEF Slot, SeqNo
<1> QED
  BY <1>3, <1>4, Zenon DEF Slots

\* Packets less than a ring apart have slots of their own.
LEMMA SameSlot ==
  ASSUME NEW n \in Nat, NEW m \in Nat, Slot(SeqNo(n)) = Slot(SeqNo(m)),
         n < m + BufferSize, m < n + BufferSize
  PROVE  n = m
<1> DEFINE a == FirstSeq + n  c == FirstSeq + m
<1>1. a \in Nat /\ c \in Nat /\ a < c + BufferSize /\ c < a + BufferSize
  BY Sizes
<1>2. a % BufferSize = c % BufferSize
  BY SlotOf
<1>3. (a = c) => n = m
  BY Sizes
<1> HIDE DEF a, c
<1>4. a = c
  BY <1>1, <1>2, Sizes, SameRemainder
<1> QED
  BY <1>3, <1>4

\* Packets less than the range apart have numbers of their own.
LEMMA SameSeqNo ==
  ASSUME NEW n \in Nat, NEW m \in Nat, SeqNo(n) = SeqNo(m),
         n < m + SeqRange, m < n + SeqRange
  PROVE  n = m
<1> DEFINE a == FirstSeq + n  c == FirstSeq + m
<1>1. a \in Nat /\ c \in Nat /\ a < c + SeqRange /\ c < a + SeqRange
  BY Sizes
<1>2. a % SeqRange = c % SeqRange
  BY Zenon DEF SeqNo
<1>3. (a = c) => n = m
  BY Sizes
<1> HIDE DEF a, c
<1>4. a = c
  BY <1>1, <1>2, Sizes, SameRemainder
<1> QED
  BY <1>3, <1>4

LEMMA NextRead ==
  ASSUME NEW n \in Nat
  PROVE  next_read(n) = SeqNo(n + 1)
<1> DEFINE a == FirstSeq + n
<1>1. a \in Nat /\ FirstSeq + (n + 1) = a + 1
  BY Sizes
<1>2. 1 \in Nat
  OBVIOUS
<1> HIDE DEF a
<1>3. ((a % SeqRange) + 1) % SeqRange = (a + 1) % SeqRange
  BY <1>1, <1>2, Sizes, NextRemainder
<1>4. next_read(n) = ((a % SeqRange) + 1) % SeqRange
  BY Zenon DEF next_read, SeqNo, a
<1>5. SeqNo(n + 1) = (a + 1) % SeqRange
  BY <1>1, Zenon DEF SeqNo
<1> QED
  BY <1>3, <1>4, <1>5, Zenon

\* seq_before tells which of two packets less than half the range apart is
\* the earlier one.
LEMMA Earlier ==
  ASSUME NEW n \in Nat, NEW m \in Nat, n < m, m < n + Half
  PROVE  seq_before(SeqNo(n), SeqNo(m))
<1> DEFINE a == FirstSeq + n  c == FirstSeq + m
<1>1. a \in Nat /\ c \in Nat /\ a <= c /\ c < a + SeqRange /\ c - a < Half
  BY Sizes
<1>2. SeqNo(n) = a % SeqRange /\ SeqNo(m) = c % SeqRange
  BY Zenon DEF SeqNo
<1>3. SeqNo(n) # SeqNo(m)
  <2>1. n < m + SeqRange /\ m < n + SeqRange /\ n # m
    BY Sizes
  <2> QED
    BY <2>1, SameSeqNo
<1> HIDE DEF a, c
<1>4. ((c % SeqRange) + SeqRange - (a % SeqRange)) % SeqRange = c - a
  BY <1>1, Sizes, WayForward
<1>5. (SeqNo(m) + SeqRange - SeqNo(n)) % SeqRange = c - a
  BY <1>2, <1>4, Zenon
<1>6. (SeqNo(m) + SeqRange - SeqNo(n)) % SeqRange < Half
  BY <1>1, <1>5
<1> QED
  BY <1>3, <1>6, Zenon DEF seq_before, Half

LEMMA NotEarlier ==
  ASSUME NEW n \in Nat, NEW m \in Nat, m <= n, n <= m + Half
  PROVE  ~ seq_before(SeqNo(n), SeqNo(m))
<1>1. CASE n = m
  BY <1>1, Zenon DEF seq_before
<1>2. CASE m < n
  <2> DEFINE a == FirstSeq + m  c == FirstSeq + n
  <2>1. a \in Nat /\ c \in Nat /\ a < c /\ c < a + SeqRange /\ c - a <= Half
    BY <1>2, Sizes
  <2>2. SeqNo(n) = c % SeqRange /\ SeqNo(m) = a % SeqRange
    BY Zenon DEF SeqNo
  <2> HIDE DEF a, c
  <2>3. ((a % SeqRange) + SeqRange - (c % SeqRange)) % SeqRange = SeqRange - (c - a)
    BY <2>1, Sizes, WayBack
  <2>4. (SeqNo(m) + SeqRange - SeqNo(n)) % SeqRange = SeqRange - (c - a)
    BY <2>2, <2>3, Zenon
  <2>5. ~ ((SeqNo(m) + SeqRange - SeqNo(n)) % SeqRange < Half)
    BY <2>1, <2>4, Sizes
  <2> QED
    BY <2>5, Zenon DEF seq_before, Half
<1> QED
  BY <1>1, <1>2

\* How far a packet's slot is from the slot of the expected one.
Offset(i) == (i + BufferSize - Slot(first)) % BufferSize

LEMMA OffsetOf ==
  ASSUME NEW n \in Nat, NEW m \in Nat, m <= n, n < m + BufferSize,
         first = SeqNo(m)
  PROVE  Offset(Slot(SeqNo(n))) = n - m
<1> DEFINE a == FirstSeq + m  c == FirstSeq + n
<1>1. a \in Nat /\ c \in Nat /\ a <= c /\ c < a + BufferSize /\ c - a = n - m
  BY Sizes
<1>2. Slot(SeqNo(n)) = c % BufferSize /\ Slot(SeqNo(m)) = a % BufferSize
  BY SlotOf, Zenon
<1> HIDE DEF a, c
<1>3. ((c % BufferSize) + BufferSize - (a % BufferSize)) % BufferSize = c - a
  BY <1>1, Sizes, WayForward
<1>4. Offset(Slot(SeqNo(n))) = c - a
  BY <1>2, <1>3, Zenon DEF Offset
<1> QED
  BY <1>1, <1>4

(***************************************************************************)
(* The slots that are taken, and their number.                             *)
(***************************************************************************)
Used(q) == {i \in Slots : q[i] # 0}

LEMMA UsedFinite ==
  ASSUME NEW q
  PROVE  IsFiniteSet(Used(q)) /\ Cardinality(Used(q)) \in Nat
<1>1. 0 \in Int /\ BufferSize - 1 \in Int
  BY Sizes
<1>2. IsFiniteSet(Slots)
  BY <1>1, FS_Interval DEF Slots
<1>3. Used(q) \subseteq Slots
  BY DEF Used
<1>4. IsFiniteSet(Used(q))
  BY <1>2, <1>3, FS_Subset
<1> QED
  BY <1>4, FS_CardinalityType

LEMMA UsedEmpty ==
  ASSUME NEW q
  PROVE  Cardinality(Used(q)) = 0 <=> \A i \in Slots : q[i] = 0
<1>1. Cardinality(Used(q)) = 0 <=> Used(q) = {}
  BY UsedFinite, FS_EmptySet
<1> QED
  BY <1>1 DEF Used

\* r is q with the value n in slot s.
With(q, r, s, n) == \A i \in Slots : r[i] = IF i = s THEN n ELSE q[i]

LEMMA UsedPut ==
  ASSUME NEW q, NEW r, NEW i \in Slots, NEW n, n # 0, With(q, r, i, n)
  PROVE  /\ q[i] = 0 => Cardinality(Used(r)) = Cardinality(Used(q)) + 1
         /\ q[i] # 0 => Cardinality(Used(r)) = Cardinality(Used(q))
<1>1. Used(r) = Used(q) \cup {i}
  BY DEF Used, With
<1>2. i \in Used(q) <=> q[i] # 0
  BY DEF Used
<1> QED
  BY <1>1, <1>2, UsedFinite, FS_AddElement

LEMMA UsedTake ==
  ASSUME NEW q, NEW r, NEW i \in Slots, q[i] # 0, With(q, r, i, 0)
  PROVE  Cardinality(Used(r)) = Cardinality(Used(q)) - 1
<1>1. Used(r) = Used(q) \ {i}
  BY DEF Used, With
<1>2. i \in Used(q)
  BY DEF Used
<1> QED
  BY <1>1, <1>2, UsedFinite, FS_RemoveElement

(***************************************************************************)
(* The order of the ring.  A packet is in the slot of its sequence number; *)
(* the packets of the ring are less than a ring apart; and they are behind *)
(* the last one that was taken, the expected number being the next after   *)
(* it -- or, before the first is taken, the number of the earliest.        *)
(***************************************************************************)
PlacedIn(q) == \A i \in Slots : q[i] # 0 => Slot(SeqNo(q[i])) = i

NearIn(q) == \A i, j \in Slots : q[i] # 0 /\ q[j] # 0 => q[i] < q[j] + BufferSize

AfterLast(q, l, f) ==
    /\ f = SeqNo(l + 1)
    /\ \A i \in Slots : q[i] # 0 => l < q[i] /\ q[i] <= l + BufferSize

Earliest(q, i) == q[i] # 0 /\ \A k \in Slots : q[k] # 0 => q[i] <= q[k]

FromEarliest(q, f) ==
    \A i \in Slots : q[i] # 0 => \E j \in Slots : Earliest(q, j) /\ SeqNo(q[j]) = f

Expects(q, t, f) ==
    /\ NearIn(q)
    /\ t # <<>> => AfterLast(q, Last(t), f)
    /\ t = <<>> => FromEarliest(q, f)

Increasing(t) == \A i, j \in DOMAIN t : i < j => t[i] < t[j]

\* n is less than a ring apart from what is in the ring.
Apart(q, n) == \A i \in Slots : q[i] # 0 => n < q[i] + BufferSize /\ q[i] < n + BufferSize

LEMMA WithPlaced ==
  ASSUME NEW q, NEW r, NEW n \in Nat, PlacedIn(q), With(q, r, Slot(SeqNo(n)), n)
  PROVE  PlacedIn(r)
BY DEF PlacedIn, With

LEMMA WithoutPlaced ==
  ASSUME NEW q, NEW r, NEW i \in Slots, PlacedIn(q), With(q, r, i, 0)
  PROVE  PlacedIn(r)
BY DEF PlacedIn, With

\* A packet that is not there finds its slot free.
LEMMA FreeSlot ==
  ASSUME NEW q \in [Slots -> Nat], NEW n \in Nat, PlacedIn(q), Apart(q, n),
         ~ (q[Slot(SeqNo(n))] # 0 /\ SeqNo(q[Slot(SeqNo(n))]) = SeqNo(n))
  PROVE  q[Slot(SeqNo(n))] = 0
<1> DEFINE s == Slot(SeqNo(n))
<1>1. s \in Slots
  BY SlotOf
<1>2. SUFFICES ASSUME q[s] # 0 PROVE FALSE
  OBVIOUS
<1>3. q[s] \in Nat /\ Slot(SeqNo(q[s])) = Slot(SeqNo(n))
  BY <1>1, <1>2 DEF PlacedIn
<1>4. n < q[s] + BufferSize /\ q[s] < n + BufferSize
  BY <1>1, <1>2 DEF Apart
<1>5. q[s] = n
  BY <1>3, <1>4, SameSlot
<1> QED
  BY <1>2, <1>5

LEMMA WithNear ==
  ASSUME NEW q \in [Slots -> Nat], NEW r, NEW n \in Nat, NearIn(q), Apart(q, n),
         With(q, r, Slot(SeqNo(n)), n)
  PROVE  NearIn(r)
<1>1. SUFFICES ASSUME NEW i \in Slots, NEW j \in Slots, r[i] # 0, r[j] # 0
               PROVE  r[i] < r[j] + BufferSize
  BY DEF NearIn
<1> DEFINE s == Slot(SeqNo(n))
<1>2. r[i] = (IF i = s THEN n ELSE q[i]) /\ r[j] = (IF j = s THEN n ELSE q[j])
  BY DEF With
<1>3. CASE i = s /\ j = s
  BY <1>2, <1>3, Sizes
<1>4. CASE i = s /\ j # s
  BY <1>1, <1>2, <1>4 DEF Apart
<1>5. CASE i # s /\ j = s
  BY <1>1, <1>2, <1>5 DEF Apart
<1>6. CASE i # s /\ j # s
  BY <1>1, <1>2, <1>6 DEF NearIn
<1> QED
  BY <1>3, <1>4, <1>5, <1>6

\* enqueue keeps the order: what it puts into the ring is behind the last
\* packet, because seq_before tells.
LEMMA WithAfter ==
  ASSUME NEW q \in [Slots -> Nat], NEW r, NEW n \in Nat, NEW l \in Nat, NEW f,
         AfterLast(q, l, f), With(q, r, Slot(SeqNo(n)), n),
         n <= l + BufferSize, l + 1 < n + Half, ~ seq_before(SeqNo(n), f)
  PROVE  AfterLast(r, l, f)
<1>1. f = SeqNo(l + 1) /\ l + 1 \in Nat
  BY DEF AfterLast
<1>2. ~ (n < l + 1)
  BY <1>1, Earlier
<1>3. l < n
  BY <1>2
<1> QED
  BY <1>1, <1>3 DEF AfterLast, With

\* enqueue_initial keeps track of the earliest packet.
LEMMA WithEarliest ==
  ASSUME NEW q \in [Slots -> Nat], NEW r, NEW n \in Nat \ {0}, NEW f, NEW g,
         FromEarliest(q, f), Apart(q, n), q[Slot(SeqNo(n))] = 0,
         With(q, r, Slot(SeqNo(n)), n),
         g = IF (\A i \in Slots : q[i] = 0) \/ seq_before(SeqNo(n), f)
             THEN SeqNo(n) ELSE f
  PROVE  FromEarliest(r, g)
<1> DEFINE s == Slot(SeqNo(n))
<1>1. s \in Slots /\ r[s] = n /\ \A i \in Slots : i # s => r[i] = q[i]
  BY SlotOf DEF With
<1>2. CASE \A i \in Slots : q[i] = 0
  <2>1. Earliest(r, s) /\ SeqNo(r[s]) = g
    BY <1>1, <1>2 DEF Earliest
  <2> QED
    BY <1>1, <2>1 DEF FromEarliest
<1>3. CASE \E i \in Slots : q[i] # 0
  <2>1. PICK j \in Slots : Earliest(q, j) /\ SeqNo(q[j]) = f
    BY <1>3 DEF FromEarliest
  <2>2. /\ q[j] \in Nat /\ q[j] # 0 /\ j # s
        /\ n < q[j] + BufferSize /\ q[j] < n + BufferSize
        /\ \A k \in Slots : q[k] # 0 => q[j] <= q[k]
    BY <2>1 DEF Earliest, Apart
  <2>3. CASE n < q[j]
    <3>1. seq_before(SeqNo(n), f)
      BY <2>1, <2>2, <2>3, Earlier, Sizes
    <3>2. Earliest(r, s) /\ SeqNo(r[s]) = g
      <4>1. \A k \in Slots : r[k] # 0 => r[s] <= r[k]
        BY <1>1, <2>2, <2>3
      <4> QED
        BY <1>1, <3>1, <4>1 DEF Earliest
    <3> QED
      BY <1>1, <3>2 DEF FromEarliest
  <2>4. CASE q[j] <= n
    <3>1. ~ seq_before(SeqNo(n), f)
      BY <2>1, <2>2, <2>4, NotEarlier, Sizes
    <3>2. Earliest(r, j) /\ SeqNo(r[j]) = g
      <4>1. r[j] = q[j] /\ g = f
        BY <1>1, <1>3, <2>2, <3>1
      <4>2. \A k \in Slots : r[k] # 0 => r[j] <= r[k]
        BY <1>1, <2>2, <2>4, <4>1
      <4> QED
        BY <2>1, <2>2, <4>1, <4>2 DEF Earliest
    <3> QED
      BY <3>2 DEF FromEarliest
  <2> QED
    BY <2>2, <2>3, <2>4
<1> QED
  BY <1>2, <1>3

\* The rest of the ring is behind the earliest packet.
LEMMA WithoutEarliest ==
  ASSUME NEW q \in [Slots -> Nat], NEW r, NEW i \in Slots, PlacedIn(q), NearIn(q),
         Earliest(q, i), With(q, r, i, 0)
  PROVE  NearIn(r) /\ AfterLast(r, q[i], SeqNo(q[i] + 1))
<1>1. NearIn(r)
  BY DEF NearIn, With
<1>2. ASSUME NEW k \in Slots, r[k] # 0
      PROVE  q[i] < r[k] /\ r[k] <= q[i] + BufferSize
  <2>1. k # i /\ r[k] = q[k] /\ q[k] # 0 /\ q[i] # 0
    BY <1>2 DEF With, Earliest
  <2>2. q[i] <= q[k] /\ q[k] < q[i] + BufferSize
    BY <2>1 DEF Earliest, NearIn
  <2>3. q[i] # q[k]
    BY <2>1 DEF PlacedIn
  <2> QED
    BY <2>1, <2>2, <2>3, Sizes
<1> QED
  BY <1>1, <1>2 DEF AfterLast

\* The packet that is expected is the earliest.
LEMMA ExpectedEarliest ==
  ASSUME NEW q \in [Slots -> Nat], NEW t \in Seq(Nat), NEW f, PlacedIn(q), Expects(q, t, f),
         NEW i \in Slots, q[i] # 0, SeqNo(q[i]) = f
  PROVE  Earliest(q, i)
<1>1. CASE t = <<>>
  <2>1. PICK j \in Slots : Earliest(q, j) /\ SeqNo(q[j]) = f
    BY <1>1 DEF Expects, FromEarliest
  <2>2. q[i] < q[j] + BufferSize /\ q[j] < q[i] + BufferSize
    BY <2>1 DEF Expects, NearIn, Earliest
  <2>3. q[i] = q[j]
    BY <2>1, <2>2, SameSeqNo, Sizes
  <2> QED
    BY <2>1, <2>3 DEF Earliest
<1>2. CASE t # <<>>
  <2> DEFINE l == Last(t)
  <2>1. l \in Nat
    BY <1>2 DEF Last
  <2>2. AfterLast(q, l, f)
    BY <1>2 DEF Expects
  <2> HIDE DEF l
  <2>3. f = SeqNo(l + 1) /\ l < q[i] /\ q[i] <= l + BufferSize
    BY <2>2 DEF AfterLast
  <2>4. q[i] = l + 1
    BY <2>1, <2>3, SameSeqNo, Sizes
  <2> QED
    BY <2>1, <2>2, <2>4 DEF Earliest, AfterLast
<1> QED
  BY <1>1, <1>2

(***************************************************************************)
(* take_first_available_packet takes the earliest packet.                  *)
(***************************************************************************)
Available(j) ==
    queue[j] # 0 /\ \A k \in Slots : queue[k] # 0 => Offset(j) <= Offset(k)

FirstAvailable == CHOOSE j \in Slots : Available(j)

LEMMA OffsetType ==
  ASSUME NEW i \in Slots, first \in Nat
  PROVE  Offset(i) \in Nat
<1> DEFINE t == Slot(first)
<1>1. t \in 0 .. BufferSize - 1
  BY Sizes, Quotient DEF Slot
<1>2. Offset(i) = (i + BufferSize - t) % BufferSize
  BY Zenon DEF Offset
<1> HIDE DEF t
<1>3. i + BufferSize - t \in Nat
  BY <1>1, Sizes DEF Slots
<1>4. ((i + BufferSize - t) % BufferSize) \in 0 .. BufferSize - 1
  BY <1>3, Sizes, Quotient
<1>5. Offset(i) \in 0 .. BufferSize - 1
  BY <1>2, <1>4, Zenon
<1> QED
  BY <1>5

LEMMA FirstAvailableExists ==
  ASSUME NEW u \in Slots, queue[u] # 0, first \in Nat
  PROVE  FirstAvailable \in Slots /\ Available(FirstAvailable)
<1> DEFINE S == {Offset(i) : i \in Used(queue)}
<1>1. S \subseteq Nat /\ S # {}
  BY OffsetType DEF Used
<1>2. PICK o \in S : \A m \in S : o <= m
  BY <1>1, Least
<1>3. PICK i \in Used(queue) : o = Offset(i)
  OBVIOUS
<1>4. i \in Slots /\ Available(i)
  BY <1>2, <1>3 DEF Used, Available
<1> QED
  BY <1>4 DEF FirstAvailable

LEMMA FirstAvailableEarliest ==
  ASSUME queue \in [Slots -> Nat], PlacedIn(queue), NEW l \in Nat,
         AfterLast(queue, l, first), NEW i \in Slots, Available(i)
  PROVE  Earliest(queue, i)
<1>1. first = SeqNo(l + 1) /\ l + 1 \in Nat
  BY DEF AfterLast
<1>2. ASSUME NEW k \in Slots, queue[k] # 0
      PROVE  Offset(k) = queue[k] - (l + 1) /\ queue[k] \in Nat
  <2>1. queue[k] \in Nat /\ l + 1 <= queue[k] /\ queue[k] < (l + 1) + BufferSize
    BY <1>2, Sizes DEF AfterLast
  <2>2. Slot(SeqNo(queue[k])) = k
    BY <1>2 DEF PlacedIn
  <2>3. Offset(Slot(SeqNo(queue[k]))) = queue[k] - (l + 1)
    BY <1>1, <2>1, OffsetOf
  <2> QED
    BY <2>1, <2>2, <2>3
<1>3. queue[i] # 0
  BY DEF Available
<1>4. ASSUME NEW k \in Slots, queue[k] # 0
      PROVE  queue[i] <= queue[k]
  <2>1. Offset(i) <= Offset(k)
    BY <1>4 DEF Available
  <2>2. Offset(i) = queue[i] - (l + 1) /\ queue[i] \in Nat
    BY <1>2, <1>3
  <2>3. Offset(k) = queue[k] - (l + 1) /\ queue[k] \in Nat
    BY <1>2, <1>4
  <2> QED
    BY <2>1, <2>2, <2>3
<1> QED
  BY <1>3, <1>4 DEF Earliest

LEMMA TakeFirst ==
  ASSUME TakeFirstAvailable
  PROVE  Take(FirstAvailable, Offset(FirstAvailable) > 0)
BY Zenon DEF TakeFirstAvailable, FirstAvailable, Available, Offset

(***************************************************************************)
(* The inductive invariant of the ring.                                    *)
(***************************************************************************)
\* Only packets come out of the channel.
PacketsOnly == channel \in Seq(Number)

RingTyped(q, c, f) ==
    /\ q \in [Slots -> Number \cup {0}]
    /\ c = Cardinality(Used(q))
    /\ f \in 0 .. SeqRange - 1

ReaderType ==
    /\ kind \in Kinds /\ at \in {"init", "call", "gap", "ended", "failed"}
    /\ closed \in BOOLEAN /\ collided \in BOOLEAN
    /\ RingTyped(queue, count, first)
    /\ taken \in Seq(Number)

Started ==
    /\ at = "init" => taken = <<>>
    /\ at = "call" /\ taken = <<>> => count >= Window
    /\ at = "gap" => count > 0

RingOrder ==
    /\ PlacedIn(queue)
    /\ Started
    /\ ~collided => /\ at = "gap" => taken # <<>>
                    /\ Expects(queue, taken, first)
                    /\ Increasing(taken)

RingInv == ReaderType /\ RingOrder

LEMMA NumberType == Number \subseteq Nat \ {0}
BY DEF Number

LEMMA RingNat ==
  ASSUME RingInv
  PROVE  /\ queue \in [Slots -> Nat] /\ first \in Nat /\ count \in Nat
         /\ taken \in Seq(Nat) /\ \A i \in Slots : queue[i] # 0 => queue[i] \in Number
<1>1. queue \in [Slots -> Number \cup {0}] /\ first \in 0 .. SeqRange - 1
      /\ count = Cardinality(Used(queue)) /\ taken \in Seq(Number)
  BY DEF RingInv, ReaderType, RingTyped
<1>2. count \in Nat
  BY <1>1, UsedFinite
<1>3. first \in Nat
  BY <1>1
<1>4. taken \in Seq(Nat)
  BY <1>1, NumberType, SeqMonotonic
<1>5. \A i \in Slots : queue[i] # 0 => queue[i] \in Number
  BY <1>1
<1>6. ASSUME NEW i \in Slots PROVE queue[i] \in Nat
  <2>1. queue[i] \in Number \/ queue[i] = 0
    BY <1>1
  <2>2. \A m \in Number : m \in Nat
    BY NumberType
  <2> QED
    BY <2>1, <2>2
<1>7. queue \in [Slots -> Nat]
  BY <1>1, <1>6
<1> QED
  BY <1>2, <1>3, <1>4, <1>5, <1>7

LEMMA NotCollides ==
  ASSUME RingInv, NEW n \in Number, ~ Collides(n)
  PROVE  /\ Apart(queue, n)
         /\ taken # <<>> => /\ Last(taken) \in Nat
                            /\ n <= Last(taken) + BufferSize
                            /\ Last(taken) + 1 < n + Half
<1>1. queue \in [Slots -> Nat] /\ n \in Nat /\ taken \in Seq(Nat)
  BY RingNat, NumberType
<1>2. Apart(queue, n)
  <2>1. SUFFICES ASSUME NEW i \in Slots, queue[i] # 0
                 PROVE  n < queue[i] + BufferSize /\ queue[i] < n + BufferSize
    BY DEF Apart
  <2>2. queue[i] \in Range(queue) \ {0} /\ queue[i] \in Nat
    BY <1>1, <2>1 DEF Range
  <2>3. ~ (queue[i] + BufferSize <= n) /\ ~ (n + BufferSize <= queue[i])
    BY <2>2 DEF Collides
  <2> QED
    BY <1>1, <2>2, <2>3, Sizes
<1>3. ASSUME taken # <<>>
      PROVE  /\ Last(taken) \in Nat
             /\ n <= Last(taken) + BufferSize
             /\ Last(taken) + 1 < n + Half
  <2> DEFINE l == Last(taken)
  <2>1. l \in Nat
    BY <1>1, <1>3 DEF Last
  <2>2. ~ (l + BufferSize < n) /\ ~ (n + Half <= l + 1)
    BY <1>3 DEF Collides, Half
  <2> HIDE DEF l
  <2>3. n <= l + BufferSize /\ l + 1 < n + Half
    BY <1>1, <2>1, <2>2, Sizes
  <2> QED
    BY <2>1, <2>3 DEF l
<1> QED
  BY <1>2, <1>3

LEMMA PutWith ==
  ASSUME RingInv, NEW n \in Number, Put(n)
  PROVE  /\ With(queue, queue', Slot(SeqNo(n)), n)
         /\ queue' \in [Slots -> Number \cup {0}]
         /\ count' = Cardinality(Used(queue')) /\ count' >= count
<1> DEFINE s == Slot(SeqNo(n))
<1>1. n \in Nat \ {0} /\ s \in Slots
  BY NumberType, SlotOf
<1>2. queue \in [Slots -> Number \cup {0}] /\ count = Cardinality(Used(queue)) /\ count \in Nat
  BY RingNat DEF RingInv, ReaderType, RingTyped
<1> HIDE DEF s
<1>3. queue' = [queue EXCEPT ![s] = n]
      /\ count' = IF queue[s] = 0 THEN count + 1 ELSE count
  BY DEF Put, s
<1>4. With(queue, queue', s, n) /\ queue' \in [Slots -> Number \cup {0}]
  BY <1>1, <1>2, <1>3 DEF With
<1>5. /\ queue[s] = 0 => Cardinality(Used(queue')) = Cardinality(Used(queue)) + 1
      /\ queue[s] # 0 => Cardinality(Used(queue')) = Cardinality(Used(queue))
  BY <1>1, <1>4, UsedPut
<1>6. count' = Cardinality(Used(queue')) /\ count' >= count
  BY <1>2, <1>3, <1>5
<1> QED
  BY <1>4, <1>6 DEF s

LEMMA EnqueueInitialStep ==
  ASSUME RingInv, NEW n \in Number, at = "init", enqueue_initial(n)
  PROVE  /\ RingTyped(queue', count', first') /\ collided' \in BOOLEAN
         /\ PlacedIn(queue')
         /\ ~collided' => Expects(queue', taken, first') /\ Increasing(taken)
<1>0. /\ RingTyped(queue, count, first) /\ collided \in BOOLEAN /\ PlacedIn(queue)
      /\ ~collided => Expects(queue, taken, first) /\ Increasing(taken)
      /\ taken = <<>>
  BY DEF RingInv, ReaderType, RingOrder, Started
<1>1. CASE Holds(SeqNo(n))
  <2>1. queue' = queue /\ count' = count /\ first' = first /\ collided' = collided
    BY <1>1 DEF enqueue_initial, ringVars
  <2> QED
    BY <1>0, <2>1
<1>2. CASE ~ Holds(SeqNo(n))
  <2>1. /\ first' = IF count = 0 \/ seq_before(SeqNo(n), first) THEN SeqNo(n) ELSE first
        /\ Put(n)
        /\ collided' = (collided \/ Collides(n))
    BY <1>2 DEF enqueue_initial
  <2>2. n \in Nat \ {0} /\ queue \in [Slots -> Nat]
    BY NumberType, RingNat
  <2>3. /\ With(queue, queue', Slot(SeqNo(n)), n)
        /\ queue' \in [Slots -> Number \cup {0}] /\ count' = Cardinality(Used(queue'))
    BY <2>1, PutWith
  <2>4. first' \in 0 .. SeqRange - 1
    BY <1>0, <2>1, <2>2, SeqNoType DEF RingTyped
  <2>5. PlacedIn(queue')
    BY <1>0, <2>2, <2>3, WithPlaced
  <2>6. ASSUME ~collided'
        PROVE  Expects(queue', taken, first') /\ Increasing(taken)
    <3>1. ~collided /\ ~Collides(n)
      BY <2>1, <2>6
    <3>2. Apart(queue, n)
      BY <3>1, NotCollides
    <3>3. queue[Slot(SeqNo(n))] = 0
      BY <1>0, <1>2, <2>2, <3>2, FreeSlot DEF Holds
    <3>4. NearIn(queue')
      BY <1>0, <2>2, <2>3, <3>1, <3>2, WithNear DEF Expects
    <3>5. (count = 0) <=> \A i \in Slots : queue[i] = 0
      BY <1>0, UsedEmpty DEF RingTyped
    <3>6. FromEarliest(queue, first)
      BY <1>0, <3>1 DEF Expects
    <3>7. first' = IF (\A i \in Slots : queue[i] = 0) \/ seq_before(SeqNo(n), first)
                   THEN SeqNo(n) ELSE first
      BY <2>1, <3>5
    <3>8. FromEarliest(queue', first')
      BY <2>2, <2>3, <3>2, <3>3, <3>6, <3>7, WithEarliest
    <3> QED
      BY <1>0, <3>1, <3>4, <3>8 DEF Expects
  <2>7. collided' \in BOOLEAN
    BY <2>1
  <2> QED
    BY <2>3, <2>4, <2>5, <2>6, <2>7 DEF RingTyped
<1> QED
  BY <1>1, <1>2

LEMMA EnqueueStep ==
  ASSUME RingInv, NEW n \in Number, ~collided => taken # <<>>, enqueue(n)
  PROVE  /\ RingTyped(queue', count', first') /\ collided' \in BOOLEAN
         /\ count' >= count /\ PlacedIn(queue')
         /\ ~collided' => ~collided /\ Expects(queue', taken, first') /\ Increasing(taken)
<1>0. /\ RingTyped(queue, count, first) /\ collided \in BOOLEAN /\ PlacedIn(queue)
      /\ ~collided => Expects(queue, taken, first) /\ Increasing(taken)
      /\ count \in Nat
  BY RingNat DEF RingInv, ReaderType, RingOrder
<1>1. CASE seq_before(SeqNo(n), first) \/ Holds(SeqNo(n))
  <2>1. queue' = queue /\ count' = count /\ first' = first /\ collided' = collided
    BY <1>1 DEF enqueue, ringVars
  <2> QED
    BY <1>0, <2>1
<1>2. CASE ~ (seq_before(SeqNo(n), first) \/ Holds(SeqNo(n)))
  <2>1. first' = first /\ Put(n) /\ collided' = (collided \/ Collides(n))
    BY <1>2 DEF enqueue
  <2>2. n \in Nat \ {0} /\ queue \in [Slots -> Nat]
    BY NumberType, RingNat
  <2>3. /\ With(queue, queue', Slot(SeqNo(n)), n)
        /\ queue' \in [Slots -> Number \cup {0}] /\ count' = Cardinality(Used(queue'))
        /\ count' >= count
    BY <2>1, PutWith
  <2>5. PlacedIn(queue')
    BY <1>0, <2>2, <2>3, WithPlaced
  <2>6. ASSUME ~collided'
        PROVE  ~collided /\ Expects(queue', taken, first') /\ Increasing(taken)
    <3>1. ~collided /\ ~Collides(n) /\ taken # <<>>
      BY <2>1, <2>6
    <3> DEFINE l == Last(taken)
    <3>2. Apart(queue, n) /\ l \in Nat /\ n <= l + BufferSize /\ l + 1 < n + Half
      BY <3>1, NotCollides
    <3>3. NearIn(queue')
      BY <1>0, <2>2, <2>3, <3>1, <3>2, WithNear DEF Expects
    <3>4. AfterLast(queue, l, first)
      BY <1>0, <3>1 DEF Expects
    <3> HIDE DEF l
    <3>5. AfterLast(queue', l, first)
      BY <1>2, <2>2, <2>3, <3>2, <3>4, WithAfter
    <3> QED
      BY <1>0, <2>1, <3>1, <3>3, <3>5 DEF Expects, l
  <2>7. collided' \in BOOLEAN
    BY <2>1
  <2> QED
    BY <1>0, <2>1, <2>3, <2>5, <2>6, <2>7 DEF RingTyped
<1> QED
  BY <1>1, <1>2

LEMMA AppendIncreasing ==
  ASSUME NEW t \in Seq(Nat), NEW n \in Nat, Increasing(t), t # <<>> => Last(t) < n
  PROVE  Increasing(Append(t, n))
<1>1. SUFFICES ASSUME NEW i \in DOMAIN Append(t, n), NEW j \in DOMAIN Append(t, n), i < j
               PROVE  Append(t, n)[i] < Append(t, n)[j]
  BY DEF Increasing
<1>2. i \in 1 .. Len(t) /\ j \in 1 .. Len(t) + 1
  BY <1>1
<1>3. CASE j \in 1 .. Len(t)
  BY <1>1, <1>2, <1>3 DEF Increasing
<1>4. CASE j = Len(t) + 1
  <2>1. t # <<>> /\ Len(t) \in 1 .. Len(t) /\ t[Len(t)] < n
    BY <1>2 DEF Last
  <2>2. t[i] <= t[Len(t)]
    BY <1>2, <2>1 DEF Increasing
  <2>3. Append(t, n)[i] = t[i] /\ Append(t, n)[j] = n
    BY <1>2, <1>4
  <2> QED
    BY <1>2, <2>1, <2>2, <2>3
<1> QED
  BY <1>2, <1>3, <1>4

LEMMA AppendLast ==
  ASSUME NEW S, NEW t \in Seq(S), NEW n \in S
  PROVE  Append(t, n) \in Seq(S) /\ Append(t, n) # <<>> /\ Last(Append(t, n)) = n
<1>1. Len(Append(t, n)) = Len(t) + 1 /\ Append(t, n)[Len(t) + 1] = n
  OBVIOUS
<1> QED
  BY <1>1 DEF Last

LEMMA TakeStep ==
  ASSUME RingInv, NEW i \in Slots, queue[i] # 0, NEW lost, Take(i, lost),
         ~collided => Earliest(queue, i)
  PROVE  /\ RingTyped(queue', count', first') /\ collided' = collided
         /\ PlacedIn(queue') /\ at' = "call"
         /\ taken' \in Seq(Number) /\ taken' # <<>>
         /\ ~collided => Expects(queue', taken', first') /\ Increasing(taken')
<1> DEFINE n == queue[i]
<1>0. /\ RingTyped(queue, count, first) /\ PlacedIn(queue) /\ taken \in Seq(Number)
      /\ ~collided => Expects(queue, taken, first) /\ Increasing(taken)
  BY DEF RingInv, ReaderType, RingOrder
<1>1. n \in Number /\ n \in Nat \ {0} /\ queue \in [Slots -> Nat] /\ taken \in Seq(Nat)
  BY RingNat, NumberType
<1>2. /\ queue' = [queue EXCEPT ![i] = 0] /\ count' = count - 1 /\ first' = next_read(n)
      /\ taken' = Append(taken, n) /\ at' = "call" /\ collided' = collided
  BY DEF Take, Process
<1>3. /\ queue \in [Slots -> Number \cup {0}] /\ count = Cardinality(Used(queue))
  BY <1>0 DEF RingTyped
<1>4. queue' \in [Slots -> Number \cup {0}] /\ With(queue, queue', i, 0)
  BY <1>2, <1>3 DEF With
<1>5. Cardinality(Used(queue')) = Cardinality(Used(queue)) - 1
  BY <1>4, UsedTake
<1>6. count' = Cardinality(Used(queue'))
  BY <1>2, <1>3, <1>5
<1>7. first' = SeqNo(n + 1) /\ first' \in 0 .. SeqRange - 1
  <2>1. n + 1 \in Nat
    BY <1>1
  <2> QED
    BY <1>1, <1>2, <2>1, NextRead, SeqNoType
<1>8. PlacedIn(queue')
  BY <1>0, <1>4, WithoutPlaced
<1>9. taken' \in Seq(Number) /\ taken' # <<>> /\ Last(taken') = n
  BY <1>0, <1>1, <1>2, AppendLast
<1>10. ASSUME ~collided
       PROVE  Expects(queue', taken', first') /\ Increasing(taken')
  <2>1. Earliest(queue, i) /\ Expects(queue, taken, first) /\ Increasing(taken)
    BY <1>0, <1>10
  <2>2. NearIn(queue)
    BY <2>1 DEF Expects
  <2>3. NearIn(queue') /\ AfterLast(queue', n, SeqNo(n + 1))
    BY <1>0, <1>1, <1>4, <2>1, <2>2, WithoutEarliest
  <2>4. Expects(queue', taken', first')
    BY <1>7, <1>9, <2>3 DEF Expects
  <2>5. taken # <<>> => Last(taken) < n
    BY <2>1 DEF Expects, AfterLast
  <2>6. Increasing(Append(taken, n))
    BY <1>1, <2>1, <2>5, AppendIncreasing
  <2> QED
    BY <1>2, <2>4, <2>6
<1> QED
  BY <1>2, <1>4, <1>6, <1>7, <1>8, <1>9, <1>10 DEF RingTyped

LEMMA RingInvInit ==
  ASSUME Init
  PROVE  RingInv
<1>1. /\ kind \in Kinds /\ at = "init" /\ closed = FALSE /\ collided = FALSE
      /\ queue = [i \in Slots |-> 0] /\ count = 0 /\ first = SeqRange - 1 /\ taken = <<>>
  BY DEF Init
<1>2. \A i \in Slots : queue[i] = 0
  BY <1>1
<1>3. count = Cardinality(Used(queue))
  BY <1>1, <1>2, UsedEmpty
<1>4. RingTyped(queue, count, first)
  BY <1>1, <1>3, Sizes DEF RingTyped
<1>5. ReaderType
  <2>1. taken \in Seq(Number)
    BY <1>1, EmptySeq
  <2>2. closed \in BOOLEAN /\ collided \in BOOLEAN
    BY <1>1
  <2> QED
    BY <1>1, <1>4, <2>1, <2>2 DEF ReaderType
<1>6. PlacedIn(queue) /\ Expects(queue, taken, first)
  BY <1>1, <1>2 DEF PlacedIn, Expects, NearIn, FromEarliest
<1>7. Started /\ Increasing(taken)
  BY <1>1 DEF Started, Increasing
<1> QED
  BY <1>1, <1>5, <1>6, <1>7 DEF RingInv, RingOrder

LEMMA RingInvNext ==
  ASSUME kind \in Kinds, kind' = kind,
         at' \in {"init", "call", "gap", "ended", "failed"},
         closed' \in BOOLEAN, collided' \in BOOLEAN,
         RingTyped(queue', count', first'), taken' \in Seq(Number),
         PlacedIn(queue'), Started',
         ~collided' => /\ at' = "gap" => taken' # <<>>
                       /\ Expects(queue', taken', first')
                       /\ Increasing(taken')
  PROVE  RingInv'
<1>1. Number' = Number
  BY DEF Number
<1>2. ReaderType'
  BY <1>1 DEF ReaderType, RingTyped
<1>3. RingOrder'
  BY DEF RingOrder
<1> QED
  BY <1>2, <1>3 DEF RingInv

LEMMA Received ==
  ASSUME PacketsOnly, channel # <<>>
  PROVE  Head(channel) \in Number /\ Tail(channel) \in Seq(Number)
BY HeadTailProperties DEF PacketsOnly

\* What an enqueue leaves of the reader's state.
LEMMA EnqueueInv ==
  ASSUME RingInv, PacketsOnly, channel # <<>>, enqueue(Head(channel)),
         at \in {"call", "gap"}, at = "call" => count < Window,
         kind' = kind, at' = at, closed' = closed, taken' = taken
  PROVE  RingInv'
<1>1. Head(channel) \in Number
  BY Received
<1>2. count \in Nat /\ Window \in Nat
  BY RingNat, ReceptionAssumption
<1>3. /\ kind \in Kinds /\ closed \in BOOLEAN /\ taken \in Seq(Number)
      /\ Started /\ (~collided => (at = "gap" => taken # <<>>))
  BY DEF RingInv, ReaderType, RingOrder
<1>4. ~collided => taken # <<>>
  BY <1>2, <1>3 DEF Started
<1>5. /\ RingTyped(queue', count', first') /\ collided' \in BOOLEAN
      /\ count' >= count /\ PlacedIn(queue')
      /\ ~collided' => ~collided /\ Expects(queue', taken, first') /\ Increasing(taken)
  BY <1>1, <1>4, EnqueueStep
<1>6. Started'
  <2>1. count' \in Nat
    BY <1>5, UsedFinite DEF RingTyped
  <2>2. at = "call" => taken # <<>>
    BY <1>2, <1>3 DEF Started
  <2> QED
    BY <1>2, <1>3, <1>5, <2>1, <2>2 DEF Started
<1> QED
  BY <1>3, <1>4, <1>5, <1>6, RingInvNext

\* The packet in slot i is the earliest, and it is the next unless there is a
\* loss.
Takes(i, lost) ==
    /\ i \in Slots /\ queue[i] # 0
    /\ ~collided => Earliest(queue, i)
    /\ ~collided /\ taken # <<>> => (lost <=> queue[i] # Last(taken) + 1)

LEMMA TakesExpected ==
  ASSUME RingInv, Holds(first)
  PROVE  Takes(Slot(first), FALSE)
<1> DEFINE i == Slot(first)
<1>1. first \in Nat /\ queue \in [Slots -> Nat] /\ taken \in Seq(Nat)
  BY RingNat
<1>2. i \in Slots
  BY <1>1, Sizes, Quotient DEF Slot, Slots
<1>3. queue[i] # 0 /\ SeqNo(queue[i]) = first
  BY DEF Holds
<1>4. PlacedIn(queue) /\ (~collided => Expects(queue, taken, first))
  BY DEF RingInv, RingOrder
<1> HIDE DEF i
<1>5. ~collided => Earliest(queue, i)
  BY <1>1, <1>2, <1>3, <1>4, ExpectedEarliest
<1>6. ASSUME ~collided, taken # <<>> PROVE queue[i] = Last(taken) + 1
  <2> DEFINE l == Last(taken)
  <2>1. l \in Nat /\ AfterLast(queue, l, first)
    BY <1>1, <1>4, <1>6 DEF Last, Expects
  <2> HIDE DEF l
  <2>2. first = SeqNo(l + 1) /\ l < queue[i] /\ queue[i] <= l + BufferSize /\ queue[i] \in Nat
    BY <1>1, <1>2, <1>3, <2>1 DEF AfterLast
  <2>3. queue[i] = l + 1
    BY <1>3, <2>1, <2>2, SameSeqNo, Sizes
  <2> QED
    BY <2>3 DEF l
<1> QED
  BY <1>2, <1>3, <1>5, <1>6 DEF Takes, i

LEMMA TakesFirst ==
  ASSUME RingInv, count > 0, ~collided => taken # <<>>
  PROVE  Takes(FirstAvailable, Offset(FirstAvailable) > 0)
<1> DEFINE i == FirstAvailable
<1>1. first \in Nat /\ queue \in [Slots -> Nat] /\ taken \in Seq(Nat) /\ count \in Nat
  BY RingNat
<1>2. count = Cardinality(Used(queue))
  BY DEF RingInv, ReaderType, RingTyped
<1>3. PICK u \in Slots : queue[u] # 0
  BY <1>1, <1>2, UsedEmpty
<1>4. i \in Slots /\ Available(i)
  BY <1>1, <1>3, FirstAvailableExists
<1> HIDE DEF i
<1>5. queue[i] # 0
  BY <1>4 DEF Available
<1>6. ASSUME ~collided
      PROVE  Earliest(queue, i) /\ (Offset(i) > 0 <=> queue[i] # Last(taken) + 1)
  <2> DEFINE l == Last(taken)
  <2>1. l \in Nat
    BY <1>1, <1>6 DEF Last
  <2>2. PlacedIn(queue) /\ AfterLast(queue, l, first)
    BY <1>6 DEF RingInv, RingOrder, Expects
  <2> HIDE DEF l
  <2>3. Earliest(queue, i)
    BY <1>1, <1>4, <2>1, <2>2, FirstAvailableEarliest
  <2>4. /\ first = SeqNo(l + 1) /\ l + 1 \in Nat /\ queue[i] \in Nat
        /\ l + 1 <= queue[i] /\ queue[i] < (l + 1) + BufferSize
    BY <1>1, <1>4, <1>5, <2>1, <2>2, Sizes DEF AfterLast
  <2>5. Slot(SeqNo(queue[i])) = i
    BY <1>4, <1>5, <2>2 DEF PlacedIn
  <2>6. Offset(i) = queue[i] - (l + 1)
    BY <2>4, <2>5, OffsetOf
  <2>7. Offset(i) > 0 <=> queue[i] # l + 1
    BY <2>4, <2>6
  <2> QED
    BY <2>3, <2>7 DEF l
<1> QED
  BY <1>4, <1>5, <1>6 DEF Takes, i

\* What the taking of the earliest packet leaves of the reader's state.
LEMMA TakeInv ==
  ASSUME RingInv, NEW i, NEW lost, Takes(i, lost), Take(i, lost)
  PROVE  RingInv'
<1>1. /\ kind \in Kinds /\ closed \in BOOLEAN /\ collided \in BOOLEAN
  BY DEF RingInv, ReaderType
<1>2. /\ RingTyped(queue', count', first') /\ collided' = collided
      /\ PlacedIn(queue') /\ at' = "call"
      /\ taken' \in Seq(Number) /\ taken' # <<>>
      /\ ~collided => Expects(queue', taken', first') /\ Increasing(taken')
  BY TakeStep DEF Takes
<1>3. kind' = kind /\ closed' = closed
  BY DEF Take, Process, wireVars
<1>4. Started'
  BY <1>2 DEF Started
<1> QED
  BY <1>1, <1>2, <1>3, <1>4, RingInvNext

\* A step that leaves the ring and the packets taken as they are.
LEMMA RingUntouched ==
  ASSUME RingInv, kind' = kind, closed' \in BOOLEAN,
         queue' = queue, count' = count, first' = first, collided' = collided, taken' = taken,
         at' = at \/ at' \in {"ended", "failed"} \/ (at' \in {"call", "gap"} /\ Started'
                         /\ (~collided => (at' = "gap" => taken # <<>>)))
  PROVE  RingInv'
<1>1. /\ kind \in Kinds /\ at \in {"init", "call", "gap", "ended", "failed"}
      /\ collided \in BOOLEAN /\ RingTyped(queue, count, first) /\ taken \in Seq(Number)
      /\ PlacedIn(queue) /\ Started
      /\ ~collided => /\ at = "gap" => taken # <<>>
                      /\ Expects(queue, taken, first)
                      /\ Increasing(taken)
  BY DEF RingInv, ReaderType, RingOrder
<1>2. Started'
  BY <1>1 DEF Started
<1>3. at' \in {"init", "call", "gap", "ended", "failed"}
  BY <1>1
<1>4. ~collided' => (at' = "gap" => taken' # <<>>)
  BY <1>1
<1> QED
  BY <1>1, <1>2, <1>3, <1>4, RingInvNext

LEMMA CalculateIndexInv ==
  ASSUME RingInv, PacketsOnly, CalculateIndex
  PROVE  RingInv'
<1>1. at = "init" /\ kind' = kind /\ closed' = closed /\ taken' = taken
  BY DEF CalculateIndex
<1>2. /\ kind \in Kinds /\ closed \in BOOLEAN /\ taken \in Seq(Number) /\ taken = <<>>
  BY <1>1 DEF RingInv, ReaderType, RingOrder, Started
<1>3. CASE channel # <<>>
  <2>1. enqueue_initial(Head(channel)) /\ at' = at
    BY <1>3 DEF CalculateIndex
  <2>2. Head(channel) \in Number
    BY <1>3, Received
  <2>3. /\ RingTyped(queue', count', first') /\ collided' \in BOOLEAN
        /\ PlacedIn(queue')
        /\ ~collided' => Expects(queue', taken, first') /\ Increasing(taken)
    BY <1>1, <2>1, <2>2, EnqueueInitialStep
  <2>4. Started'
    BY <1>1, <1>2, <2>1 DEF Started
  <2> QED
    BY <1>1, <1>2, <2>1, <2>3, <2>4, RingInvNext
<1>4. CASE channel = <<>>
  <2>1. /\ at' = "failed" /\ queue' = queue /\ count' = count /\ first' = first
        /\ collided' = collided
    BY <1>4 DEF CalculateIndex, ringVars
  <2> QED
    BY <1>1, <1>2, <2>1, RingUntouched
<1> QED
  BY <1>3, <1>4

LEMMA IndexCalculatedInv ==
  ASSUME RingInv, IndexCalculated
  PROVE  RingInv'
<1>1. /\ at = "init" /\ count >= Window /\ at' = "call" /\ kind' = kind /\ closed' = closed
      /\ queue' = queue /\ count' = count /\ first' = first /\ collided' = collided
      /\ taken' = taken
  BY DEF IndexCalculated, wireVars, ringVars
<1>2. closed \in BOOLEAN
  BY DEF RingInv, ReaderType
<1>3. Started'
  BY <1>1 DEF Started
<1> QED
  BY <1>1, <1>2, <1>3, RingUntouched

LEMMA GapBeginsInv ==
  ASSUME RingInv, GapBegins
  PROVE  RingInv'
<1>1. /\ at = "call" /\ count >= Window /\ ~Holds(first) /\ at' = "gap" /\ kind' = kind
      /\ queue' = queue /\ count' = count /\ first' = first /\ collided' = collided
      /\ closed' = closed /\ taken' = taken
  BY DEF GapBegins, wireVars, ringVars
<1>2. count \in Nat /\ Window \in Nat /\ Window >= 1 /\ closed \in BOOLEAN
      /\ count = Cardinality(Used(queue))
  BY RingNat, ReceptionAssumption DEF RingInv, ReaderType, RingTyped
<1>3. Started'
  BY <1>1, <1>2 DEF Started
<1>4. ASSUME ~collided, taken = <<>> PROVE FALSE
  <2>1. PICK u \in Slots : queue[u] # 0
    BY <1>1, <1>2, UsedEmpty
  <2>2. FromEarliest(queue, first) /\ PlacedIn(queue)
    BY <1>4 DEF RingInv, RingOrder, Expects
  <2>3. PICK j \in Slots : Earliest(queue, j) /\ SeqNo(queue[j]) = first
    BY <2>1, <2>2 DEF FromEarliest
  <2>4. queue[j] # 0 /\ Slot(SeqNo(queue[j])) = j
    BY <2>2, <2>3 DEF Earliest, PlacedIn
  <2> QED
    BY <1>1, <2>3, <2>4 DEF Holds
<1> QED
  BY <1>1, <1>2, <1>3, <1>4, RingUntouched

\* Every action that takes a packet takes the earliest.
LEMMA Taking ==
  ASSUME RingInv, TakeExpected \/ GapFilled \/ GapEnds \/ TakeLater
  PROVE  \E i \in Slots, lost \in BOOLEAN : Takes(i, lost) /\ Take(i, lost)
<1>1. ASSUME Holds(first), Take(Slot(first), FALSE)
      PROVE  \E i \in Slots, lost \in BOOLEAN : Takes(i, lost) /\ Take(i, lost)
  <2>1. Takes(Slot(first), FALSE) /\ Slot(first) \in Slots
    BY <1>1, TakesExpected DEF Takes
  <2> QED
    BY <1>1, <2>1
<1>2. ASSUME count > 0, ~collided => taken # <<>>, TakeFirstAvailable
      PROVE  \E i \in Slots, lost \in BOOLEAN : Takes(i, lost) /\ Take(i, lost)
  <2> DEFINE j == FirstAvailable
             o == Offset(FirstAvailable) > 0
  <2>1. Takes(j, o) /\ Take(j, o)
    BY <1>2, TakesFirst, TakeFirst
  <2>2. j \in Slots /\ o \in BOOLEAN
    BY <2>1 DEF Takes
  <2> HIDE DEF j, o
  <2> QED
    BY <2>1, <2>2
<1>3. CASE TakeExpected
  BY <1>1, <1>3 DEF TakeExpected
<1>4. CASE GapFilled
  BY <1>1, <1>4 DEF GapFilled
<1>5. CASE GapEnds
  <2>1. count > 0 /\ (~collided => taken # <<>>) /\ TakeFirstAvailable
    BY <1>5 DEF GapEnds, RingInv, RingOrder, Started
  <2> QED
    BY <1>2, <2>1
<1>6. CASE TakeLater
  <2>1. at = "call" /\ count > 0 /\ count < Window /\ TakeFirstAvailable
    BY <1>6 DEF TakeLater
  <2>2. count \in Nat /\ Window \in Nat
    BY RingNat, ReceptionAssumption
  <2>3. taken # <<>>
    BY <2>1, <2>2 DEF RingInv, RingOrder, Started
  <2> QED
    BY <1>2, <2>1, <2>3
<1> QED
  BY <1>3, <1>4, <1>5, <1>6

LEMMA RingInvStep ==
  ASSUME RingInv, PacketsOnly, [Next]_vars
  PROVE  RingInv'
<1>0. closed \in BOOLEAN
  BY DEF RingInv, ReaderType
<1>1. ASSUME NEW n \in Number, Datagram(n) PROVE RingInv'
  BY <1>0, <1>1, RingUntouched DEF Datagram, ringVars
<1>2. ASSUME NEW k \in 1 .. MaxChunk, FeedTcp(k) PROVE RingInv'
  <2>1. /\ kind' = kind /\ closed' = closed /\ at' = at /\ taken' = taken
        /\ queue' = queue /\ count' = count /\ first' = first /\ collided' = collided
    BY <1>2 DEF FeedTcp, ringVars
  <2> QED
    BY <1>0, <2>1, RingUntouched
<1>3. CASE Close
  BY <1>3, RingUntouched DEF Close, ringVars
<1>4. CASE CalculateIndex
  BY <1>4, CalculateIndexInv
<1>5. CASE IndexCalculated
  BY <1>5, IndexCalculatedInv
<1>6. CASE ConsumeReady
  BY <1>0, <1>6, RingUntouched DEF ConsumeReady, wireVars, ringVars
<1>7. CASE ReducePacket
  BY <1>7, EnqueueInv DEF ReducePacket
<1>8. CASE TakeExpected \/ GapFilled \/ GapEnds \/ TakeLater
  <2>1. PICK i \in Slots, lost \in BOOLEAN : Takes(i, lost) /\ Take(i, lost)
    BY <1>8, Taking
  <2> QED
    BY <2>1, TakeInv
<1>9. CASE GapBegins
  BY <1>9, GapBeginsInv
<1>10. CASE GapReceives
  BY <1>10, EnqueueInv DEF GapReceives
<1>11. CASE EndOfInput
  <2>1. /\ kind' = kind /\ closed' = closed /\ taken' = taken
        /\ queue' = queue /\ count' = count /\ first' = first /\ collided' = collided
        /\ (at' = at \/ at' \in {"ended", "failed"})
    BY <1>11 DEF EndOfInput, wireVars, ringVars
  <2> QED
    BY <1>0, <2>1, RingUntouched
<1>12. CASE UNCHANGED vars
  BY <1>0, <1>12, RingUntouched DEF vars, wireVars, ringVars
<1> QED
  BY <1>1, <1>2, <1>3, <1>4, <1>5, <1>6, <1>7, <1>8, <1>9, <1>10, <1>11, <1>12
     DEF Next, Reader

LEMMA RingInvOrdered == RingInv => InOrder
BY DEF RingInv, RingOrder, Increasing, InOrder

(***************************************************************************)
(* The bytes of a connection: End is where a packet ends.                  *)
(***************************************************************************)
LEMMA Lengths ==
  ASSUME kind \in Kinds
  PROVE  /\ Len(Streams[kind]) \in Nat
         /\ \A n \in Number : Packet(n).size \in Nat \ {0} /\ Packet(n).size + 1 >= BaseLen
         /\ BaseLen \in Nat \ {0} /\ MaxLen \in Nat
<1>1. Streams[kind] \in Seq(PacketType)
  BY ReceptionAssumption
<1>2. \A n \in Number : Packet(n) \in PacketType /\ n \in DOMAIN Streams[kind]
  BY <1>1 DEF Packet, Number
<1>3. \A n \in Number : Packet(n).size \in Nat \ {0}
  BY <1>2 DEF PacketType
<1>4. \A n \in Number : Packet(n).size + 1 >= BaseLen
  BY <1>2, LengthAssumption DEF Packet
<1> QED
  BY <1>1, <1>3, <1>4, ReceptionAssumption

\* The recursion of End has a solution.
LEMMA EndExists ==
  ASSUME kind \in Kinds
  PROVE  \E f \in [0 .. Len(Streams[kind]) -> Nat] :
            f = [n \in 0 .. Len(Streams[kind]) |->
                    IF n = 0 THEN 0 ELSE f[n - 1] + Packet(n).size + 1]
<1> DEFINE N == Len(Streams[kind])
           Sums(f, m) == \A n \in 0 .. m :
                            f[n] = IF n = 0 THEN 0 ELSE f[n - 1] + Packet(n).size + 1
           S == {m \in 0 .. N : ~ \E f \in [0 .. m -> Nat] : Sums(f, m)}
<1>1. N \in Nat /\ \A n \in 1 .. N : Packet(n).size \in Nat
  BY Lengths DEF Number
<1>2. S = {}
  <2>1. SUFFICES ASSUME S # {} PROVE FALSE
    OBVIOUS
  <2>2. PICK m \in S : \A k \in S : m <= k
    <3>1. S \in SUBSET Nat
      BY <1>1
    <3> HIDE DEF S
    <3> QED
      BY <2>1, <3>1, Least
  <2>3. m \in 0 .. N /\ ~ \E f \in [0 .. m -> Nat] : Sums(f, m)
    OBVIOUS
  <2>4. m # 0
    <3>1. SUFFICES ASSUME m = 0 PROVE FALSE
      OBVIOUS
    <3>2. [n \in 0 .. m |-> 0] \in [0 .. m -> Nat] /\ Sums([n \in 0 .. m |-> 0], m)
      BY <3>1
    <3> QED
      BY <2>3, <3>2
  <2>5. m - 1 \in 0 .. N /\ m - 1 \notin S
    <3>1. m \in Nat /\ m - 1 \in 0 .. N /\ ~ (m <= m - 1)
      BY <1>1, <2>3, <2>4
    <3> HIDE DEF S
    <3> QED
      BY <2>2, <3>1
  <2>6. PICK f \in [0 .. m - 1 -> Nat] : Sums(f, m - 1)
    BY <2>5
  <2> DEFINE g == [n \in 0 .. m |-> IF n = m THEN f[m - 1] + Packet(m).size + 1 ELSE f[n]]
  <2>7. g \in [0 .. m -> Nat]
    <3>1. Packet(m).size \in Nat /\ f[m - 1] \in Nat
      BY <1>1, <2>3, <2>4
    <3>2. \A n \in 0 .. m : n # m => f[n] \in Nat
      BY <2>3
    <3> QED
      BY <3>1, <3>2
  <2>8. Sums(g, m)
    <3>1. SUFFICES ASSUME NEW n \in 0 .. m
                   PROVE  g[n] = IF n = 0 THEN 0 ELSE g[n - 1] + Packet(n).size + 1
      OBVIOUS
    <3>2. CASE n = m
      <4>1. g[m] = f[m - 1] + Packet(m).size + 1 /\ g[m - 1] = f[m - 1]
        BY <2>3, <2>4
      <4> QED
        BY <2>4, <3>2, <4>1
    <3>3. CASE n # m
      <4>1. n \in 0 .. m - 1 /\ g[n] = f[n] /\ (n # 0 => g[n - 1] = f[n - 1])
        BY <2>3, <3>3
      <4> QED
        BY <2>6, <4>1
    <3> QED
      BY <3>2, <3>3
  <2> QED
    BY <2>3, <2>7, <2>8
<1>3. PICK f \in [0 .. N -> Nat] : Sums(f, N)
  <2>1. N \in 0 .. N /\ N \notin S
    <3>1. N \in 0 .. N
      BY <1>1
    <3> HIDE DEF S
    <3> QED
      BY <1>2, <3>1
  <2> QED
    BY <2>1
<1>4. f = [n \in 0 .. N |-> IF n = 0 THEN 0 ELSE f[n - 1] + Packet(n).size + 1]
  BY <1>3
<1> QED
  BY <1>4

LEMMA EndStep ==
  ASSUME kind \in Kinds
  PROVE  /\ End \in [0 .. Len(Streams[kind]) -> Nat]
         /\ End[0] = 0
         /\ \A n \in Number : End[n] = End[n - 1] + Packet(n).size + 1
<1> DEFINE N == Len(Streams[kind])
           F(f) == [n \in 0 .. N |-> IF n = 0 THEN 0 ELSE f[n - 1] + Packet(n).size + 1]
<1>1. N \in Nat /\ \A n \in 1 .. N : Packet(n).size \in Nat \ {0}
  BY Lengths DEF Number
<1>2. \E f : f = F(f)
  BY EndExists
<1>3. End = F(End)
  <2>1. End = CHOOSE f : f = F(f)
    BY DEF End
  <2> HIDE DEF F
  <2> QED
    BY <1>2, <2>1
<1>4. DOMAIN End = 0 .. N /\ \A n \in 0 .. N : End[n] = IF n = 0 THEN 0 ELSE End[n - 1] + Packet(n).size + 1
  <2>1. DOMAIN F(End) = 0 .. N
    OBVIOUS
  <2>2. \A n \in 0 .. N : F(End)[n] = IF n = 0 THEN 0 ELSE End[n - 1] + Packet(n).size + 1
    OBVIOUS
  <2> HIDE DEF F
  <2> QED
    BY <1>3, <2>1, <2>2
<1>5. End[0] = 0 /\ \A n \in 1 .. N : End[n] = End[n - 1] + Packet(n).size + 1
  BY <1>1, <1>4
<1> DEFINE S == {m \in 0 .. N : End[m] \notin Nat}
<1>6. S = {}
  <2>1. SUFFICES ASSUME S # {} PROVE FALSE
    OBVIOUS
  <2>2. PICK m \in S : \A k \in S : m <= k
    <3>1. S \in SUBSET Nat
      BY <1>1
    <3> HIDE DEF S
    <3> QED
      BY <2>1, <3>1, Least
  <2>3. m \in 0 .. N /\ End[m] \notin Nat
    OBVIOUS
  <2>4. m # 0 /\ m \in 1 .. N
    BY <1>1, <1>5, <2>3
  <2>5. m - 1 \in 0 .. N /\ m - 1 \notin S
    BY <1>1, <2>2, <2>4
  <2>6. End[m - 1] \in Nat /\ Packet(m).size \in Nat
    BY <1>1, <2>4, <2>5
  <2> QED
    BY <1>5, <2>3, <2>4, <2>6
<1>7. End = [n \in 0 .. N |-> End[n]]
  BY <1>3, <1>4
<1>8. End \in [0 .. N -> Nat]
  BY <1>6, <1>7
<1> QED
  BY <1>5, <1>8 DEF Number

\* Every packet adds at least its length field and one unit.
LEMMA EndGrows ==
  ASSUME kind \in Kinds, NEW m \in 0 .. Len(Streams[kind]),
         NEW n \in 0 .. Len(Streams[kind]), m <= n
  PROVE  End[m] + (n - m) <= End[n]
<1> DEFINE N == Len(Streams[kind])
           S == {k \in 0 .. N : m <= k /\ ~ (End[m] + (k - m) <= End[k])}
<1>1. N \in Nat /\ (\A k \in 1 .. N : Packet(k).size \in Nat) /\ (\A k \in 0 .. N : End[k] \in Nat)
      /\ \A k \in 1 .. N : End[k] = End[k - 1] + Packet(k).size + 1
  BY Lengths, EndStep DEF Number
<1>2. S = {}
  <2>1. SUFFICES ASSUME S # {} PROVE FALSE
    OBVIOUS
  <2>2. PICK k \in S : \A l \in S : k <= l
    <3>1. S \in SUBSET Nat
      BY <1>1
    <3> HIDE DEF S
    <3> QED
      BY <2>1, <3>1, Least
  <2>3. k \in 0 .. N /\ m <= k /\ ~ (End[m] + (k - m) <= End[k]) /\ k # m
    BY <1>1
  <2>4. k \in 1 .. N /\ k - 1 \in 0 .. N /\ m <= k - 1
    BY <1>1, <2>3
  <2>5. k - 1 \notin S
    BY <1>1, <2>2, <2>4
  <2>6. End[m] + (k - 1 - m) <= End[k - 1]
    BY <2>4, <2>5
  <2>7. /\ End[m] \in Nat /\ End[k] \in Nat /\ End[k - 1] \in Nat /\ Packet(k).size \in Nat
        /\ End[k] = End[k - 1] + Packet(k).size + 1
    BY <1>1, <2>4
  <2>8. m \in Nat /\ k \in Nat
    BY <1>1, <2>4
  <2> HIDE DEF S, N
  <2> QED
    BY <2>3, <2>6, <2>7, <2>8
<1> QED
  BY <1>2

\* A unit of packet n is where End says.
LEMMA ByteOf ==
  ASSUME kind \in Kinds, NEW n \in Number, NEW i \in 1 .. Packet(n).size + 1
  PROVE  /\ End[n - 1] + i \in 1 .. Len(Bytes)
         /\ Bytes[End[n - 1] + i] = <<n, i - 1>>
<1> DEFINE N == Len(Streams[kind])
           x == End[n - 1] + i
<1>1. N \in Nat /\ n \in 1 .. N /\ Packet(n).size \in Nat /\ \A k \in 0 .. N : End[k] \in Nat
  BY Lengths, EndStep DEF Number
<1>2. End[n] = End[n - 1] + Packet(n).size + 1
  BY EndStep
<1>3. End[n] <= End[N]
  <2>1. n \in 0 .. N /\ N \in 0 .. N /\ n <= N
    BY <1>1
  <2>2. End[n] + (N - n) <= End[N]
    BY <2>1, EndGrows
  <2>3. End[n] \in Nat /\ End[N] \in Nat
    BY <1>1, <2>1
  <2> HIDE DEF N
  <2> QED
    BY <1>1, <2>1, <2>2, <2>3
<1>4. Len(Bytes) = End[N] /\ DOMAIN Bytes = 1 .. End[N]
  BY <1>1 DEF Bytes
<1>5. x \in Nat /\ End[n - 1] < x /\ x <= End[n] /\ x \in 1 .. End[N]
  <2>1. End[n - 1] \in Nat /\ End[n] \in Nat /\ End[N] \in Nat
    BY <1>1
  <2>2. Packet(n).size \in Nat /\ i \in Nat /\ 1 <= i /\ i <= Packet(n).size + 1
    BY <1>1
  <2> HIDE DEF N
  <2> QED
    BY <1>2, <1>3, <2>1, <2>2
<1>6. ASSUME NEW k \in Number, End[k - 1] < x, x <= End[k]
      PROVE  k = n
  <2>1. k \in 1 .. N /\ n \in 1 .. N
    BY <1>1 DEF Number
  <2>2. ~ (k < n)
    <3>1. SUFFICES ASSUME k <= n - 1 PROVE FALSE
      BY <2>1, <1>1
    <3>2. n - 1 \in 0 .. N /\ k \in 0 .. N
      BY <1>1, <2>1
    <3>3. End[k] + (n - 1 - k) <= End[n - 1]
      BY <3>1, <3>2, EndGrows
    <3>4. n \in Nat /\ k \in Nat /\ End[k] \in Nat /\ End[n - 1] \in Nat
      BY <1>1, <3>2
    <3>5. x <= End[k] /\ End[n - 1] < x /\ x \in Nat
      BY <1>5, <1>6
    <3> HIDE DEF x, N
    <3> QED
      BY <2>1, <3>1, <3>3, <3>4, <3>5
  <2>3. ~ (n < k)
    <3>1. SUFFICES ASSUME n <= k - 1 PROVE FALSE
      BY <2>1, <1>1
    <3>2. k - 1 \in 0 .. N /\ n \in 0 .. N
      BY <1>1, <2>1
    <3>3. End[n] + (k - 1 - n) <= End[k - 1]
      BY <3>1, <3>2, EndGrows
    <3>4. n \in Nat /\ k \in Nat /\ End[n] \in Nat /\ End[k - 1] \in Nat
      BY <1>1, <3>2
    <3>5. x <= End[n] /\ End[k - 1] < x /\ x \in Nat
      BY <1>5, <1>6
    <3> HIDE DEF x, N
    <3> QED
      BY <2>1, <3>1, <3>3, <3>4, <3>5
  <2> QED
    BY <1>1, <2>1, <2>2, <2>3
<1>7. (CHOOSE k \in DOMAIN End \ {0} : End[k - 1] < x /\ x <= End[k]) = n
  <2>1. DOMAIN End \ {0} = Number
    BY <1>1, EndStep DEF Number
  <2> QED
    BY <1>5, <1>6, <2>1
<1>8. ByteAt(End, x) = <<n, x - End[n - 1] - 1>>
  BY <1>7 DEF ByteAt
<1>9. x - End[n - 1] - 1 = i - 1
  BY <1>1
<1>10. Bytes[x] = ByteAt(End, x)
  BY <1>5 DEF Bytes
<1> QED
  BY <1>4, <1>5, <1>8, <1>9, <1>10

(***************************************************************************)
(* feed_tcp_packets: the cuts of a buffer that begins with packet j + 1.   *)
(***************************************************************************)
\* The recursion of Cuts has a solution.
CutStep(buf, p) ==
    IF Complete(buf, p) THEN Min({p + Announced(buf[p + 1]) + 1, Len(buf)}) ELSE p

LEMMA CutsExist ==
  ASSUME NEW buf, Len(buf) \in Nat
  PROVE  \E f : f = [k \in 0 .. Len(buf) |-> IF k = 0 THEN 0 ELSE CutStep(buf, f[k - 1])]
<1> DEFINE N == Len(buf)
           Cut(f, m) == \A k \in 0 .. m : f[k] = IF k = 0 THEN 0 ELSE CutStep(buf, f[k - 1])
           S == {m \in 0 .. N : ~ \E f : f = [k \in 0 .. m |-> f[k]] /\ Cut(f, m)}
<1>1. N \in Nat
  OBVIOUS
<1>2. S = {}
  <2>1. SUFFICES ASSUME S # {} PROVE FALSE
    OBVIOUS
  <2>2. PICK m \in S : \A k \in S : m <= k
    <3>1. S \in SUBSET Nat
      BY <1>1
    <3> HIDE DEF S
    <3> QED
      BY <2>1, <3>1, Least
  <2>3. m \in 0 .. N /\ ~ \E f : f = [k \in 0 .. m |-> f[k]] /\ Cut(f, m)
    OBVIOUS
  <2>4. m # 0
    <3>1. SUFFICES ASSUME m = 0 PROVE FALSE
      OBVIOUS
    <3> DEFINE g == [k \in 0 .. m |-> 0]
    <3>2. g = [k \in 0 .. m |-> g[k]] /\ Cut(g, m)
      BY <3>1
    <3> QED
      BY <2>3, <3>2
  <2>5. m - 1 \in 0 .. N /\ m - 1 \notin S
    <3>1. m \in Nat /\ m - 1 \in 0 .. N /\ ~ (m <= m - 1)
      BY <1>1, <2>3, <2>4
    <3> HIDE DEF S
    <3> QED
      BY <2>2, <3>1
  <2>6. PICK f : f = [k \in 0 .. m - 1 |-> f[k]] /\ Cut(f, m - 1)
    BY <2>5
  <2> DEFINE g == [k \in 0 .. m |-> IF k = m THEN CutStep(buf, f[m - 1]) ELSE f[k]]
  <2>7. g = [k \in 0 .. m |-> g[k]]
    OBVIOUS
  <2>8. Cut(g, m)
    <3>1. SUFFICES ASSUME NEW k \in 0 .. m
                   PROVE  g[k] = IF k = 0 THEN 0 ELSE CutStep(buf, g[k - 1])
      OBVIOUS
    <3>2. CASE k = m
      <4>1. g[m] = CutStep(buf, f[m - 1]) /\ g[m - 1] = f[m - 1]
        BY <2>3, <2>4
      <4> QED
        BY <2>4, <3>2, <4>1
    <3>3. CASE k # m
      <4>1. k \in 0 .. m - 1 /\ g[k] = f[k] /\ (k # 0 => g[k - 1] = f[k - 1])
        BY <2>3, <3>3
      <4> QED
        BY <2>6, <4>1
    <3> QED
      BY <3>2, <3>3
  <2> QED
    BY <2>3, <2>7, <2>8
<1>3. PICK f : f = [k \in 0 .. N |-> f[k]] /\ Cut(f, N)
  <2>1. N \in 0 .. N /\ N \notin S
    <3>1. N \in 0 .. N
      BY <1>1
    <3> HIDE DEF S
    <3> QED
      BY <1>2, <3>1
  <2> QED
    BY <2>1
<1>4. f = [k \in 0 .. N |-> IF k = 0 THEN 0 ELSE CutStep(buf, f[k - 1])]
  BY <1>3
<1> QED
  BY <1>4

LEMMA CutsStep ==
  ASSUME NEW buf, Len(buf) \in Nat
  PROVE  /\ Cuts(buf)[0] = 0
         /\ \A k \in 1 .. Len(buf) : Cuts(buf)[k] = CutStep(buf, Cuts(buf)[k - 1])
<1> DEFINE N == Len(buf)
           F(f) == [k \in 0 .. N |-> IF k = 0 THEN 0 ELSE CutStep(buf, f[k - 1])]
           c == CHOOSE f : f = F(f)
<1>1. \E f : f = F(f)
  BY CutsExist
<1>2. c = F(c)
  <2> HIDE DEF F
  <2> QED
    BY <1>1
<1>3. \A k \in 0 .. N : F(c)[k] = IF k = 0 THEN 0 ELSE CutStep(buf, c[k - 1])
  OBVIOUS
<1>4. \A k \in 0 .. N : c[k] = IF k = 0 THEN 0 ELSE CutStep(buf, c[k - 1])
  <2> HIDE DEF F, c
  <2> QED
    BY <1>2, <1>3
<1>5. Cuts(buf) = [k \in 0 .. N |-> c[k]]
  BY DEF Cuts, CutStep
<1> HIDE DEF c, F
<1>6. \A k \in 0 .. N : Cuts(buf)[k] = c[k]
  BY <1>5
<1>7. 0 \in 0 .. N /\ \A k \in 1 .. N : k \in 0 .. N /\ k - 1 \in 0 .. N /\ k # 0
  OBVIOUS
<1> QED
  BY <1>4, <1>6, <1>7

LEMMA MinOfTwo ==
  ASSUME NEW u \in Nat, NEW v \in Nat, u <= v
  PROVE  Min({u, v}) = u
<1>1. u \in {u, v} /\ \A y \in {u, v} : u <= y
  OBVIOUS
<1>2. \A x \in {u, v} : (\A y \in {u, v} : x <= y) => x = u
  OBVIOUS
<1>3. Min({u, v}) = CHOOSE x \in {u, v} : \A y \in {u, v} : x <= y
  BY DEF Min
<1> QED
  BY <1>1, <1>2, <1>3

\* The buffer holds the bytes from the end of packet j to position e.
Carries(buf, j, e) ==
    /\ j \in 0 .. Len(Streams[kind]) /\ e \in Nat
    /\ End[j] <= e /\ e <= End[Len(Streams[kind])]
    /\ buf = [i \in 1 .. e - End[j] |-> Bytes[End[j] + i]]

\* The loop stops after packet m.
Stops(m, e) ==
    \/ m = Len(Streams[kind])
    \/ Packet(m + 1).size > MaxLen
    \/ End[m + 1] > e

LEMMA CarriesType ==
  ASSUME kind \in Kinds, NEW buf, NEW j, NEW e, Carries(buf, j, e)
  PROVE  /\ Len(Streams[kind]) \in Nat /\ j \in Nat /\ End[j] \in Nat
         /\ Len(buf) = e - End[j] /\ Len(buf) \in Nat
         /\ \A i \in 1 .. Len(buf) : buf[i] = Bytes[End[j] + i]
<1>1. Len(Streams[kind]) \in Nat /\ End \in [0 .. Len(Streams[kind]) -> Nat]
  BY Lengths, EndStep
<1>2. j \in Nat /\ End[j] \in Nat /\ e \in Nat /\ End[j] <= e
  BY <1>1 DEF Carries
<1>3. e - End[j] \in Nat
  BY <1>2
<1>4. buf = [i \in 1 .. e - End[j] |-> Bytes[End[j] + i]]
  BY DEF Carries
<1>5. Len(buf) = e - End[j]
  BY <1>3, <1>4
<1> QED
  BY <1>1, <1>2, <1>3, <1>4, <1>5

LEMMA CarriesAt ==
  ASSUME kind \in Kinds, NEW buf, NEW j, NEW e, Carries(buf, j, e),
         NEW m \in Nat, j <= m, m < Len(Streams[kind]), End[m] < e
  PROVE  /\ End[m] - End[j] + 1 \in 1 .. Len(buf)
         /\ Announced(buf[End[m] - End[j] + 1]) = Packet(m + 1).size
<1>1. /\ Len(Streams[kind]) \in Nat /\ j \in Nat /\ End[j] \in Nat
      /\ Len(buf) = e - End[j] /\ Len(buf) \in Nat /\ e \in Nat
      /\ \A i \in 1 .. Len(buf) : buf[i] = Bytes[End[j] + i]
  BY CarriesType DEF Carries
<1>2. m \in 0 .. Len(Streams[kind]) /\ j \in 0 .. Len(Streams[kind]) /\ m + 1 \in Number
  BY <1>1 DEF Number
<1>3. End[j] + (m - j) <= End[m] /\ End[m] \in Nat
  BY <1>2, EndGrows, EndStep
<1>4. End[m] - End[j] + 1 \in 1 .. Len(buf)
  BY <1>1, <1>3
<1>5. buf[End[m] - End[j] + 1] = Bytes[End[j] + (End[m] - End[j] + 1)]
  BY <1>1, <1>4
<1>6. End[j] + (End[m] - End[j] + 1) = End[(m + 1) - 1] + 1
  <2>1. (m + 1) - 1 = m
    OBVIOUS
  <2>2. End[j] + (End[m] - End[j] + 1) = End[m] + 1
    BY <1>1, <1>3
  <2> QED
    BY <2>1, <2>2
<1>7. 1 \in 1 .. Packet(m + 1).size + 1
  BY <1>2, Lengths
<1>8. Bytes[End[(m + 1) - 1] + 1] = <<m + 1, 1 - 1>>
  BY <1>2, <1>7, ByteOf
<1>9. buf[End[m] - End[j] + 1] = <<m + 1, 0>>
  BY <1>5, <1>6, <1>8
<1> QED
  BY <1>4, <1>9 DEF Announced

\* The loop goes on exactly where the next packet is complete, and fails
\* exactly where its length is too large.
LEMMA CompleteAt ==
  ASSUME kind \in Kinds, NEW buf, NEW j, NEW e, Carries(buf, j, e),
         NEW m \in j .. Len(Streams[kind]), End[m] <= e
  PROVE  /\ Complete(buf, End[m] - End[j]) <=> ~ Stops(m, e)
         /\ ~ Stops(m, e) => CutStep(buf, End[m] - End[j]) = End[m + 1] - End[j]
         /\ Stops(m, e) /\ ~ TooLong(buf, End[m] - End[j]) /\ m # Len(Streams[kind])
              => e < End[m + 1]
<1> DEFINE N == Len(Streams[kind])
           p == End[m] - End[j]
<1>1. /\ N \in Nat /\ j \in Nat /\ End[j] \in Nat
      /\ Len(buf) = e - End[j] /\ Len(buf) \in Nat /\ e \in Nat /\ e <= End[N]
  <2>1. e \in Nat /\ e <= End[N]
    BY DEF Carries
  <2> QED
    BY <2>1, CarriesType
<1>2. m \in Nat /\ j <= m /\ m <= N /\ m \in 0 .. N /\ j \in 0 .. N /\ N \in 0 .. N
  BY <1>1
<1>3. End[j] + (m - j) <= End[m] /\ End[m] \in Nat
  BY <1>2, EndGrows, EndStep
<1>4. Len(buf) - p = e - End[m] /\ p \in Nat
  BY <1>1, <1>2, <1>3
<1>5. BaseLen \in Nat \ {0} /\ MaxLen \in Nat
  BY Lengths
<1>6. CASE End[m] = e
  <2>1. ~ Complete(buf, p) /\ ~ TooLong(buf, p)
    BY <1>1, <1>4, <1>5, <1>6 DEF Complete, TooLong
  <2>2. m # N => End[m + 1] > e
    <3>1. SUFFICES ASSUME m # N PROVE End[m + 1] > e
      OBVIOUS
    <3>2. m + 1 \in Number /\ (m + 1) - 1 = m
      BY <1>1, <1>2, <3>1 DEF Number
    <3>3. End[m + 1] = End[m] + Packet(m + 1).size + 1 /\ Packet(m + 1).size \in Nat
      BY <3>2, EndStep, Lengths
    <3> QED
      BY <1>3, <1>6, <3>3
  <2> QED
    BY <1>1, <1>3, <2>1, <2>2, <1>6 DEF Stops
<1>7. CASE End[m] < e
  <2>1. m # N
    BY <1>1, <1>3, <1>7
  <2>2. m < N /\ m + 1 \in Number /\ (m + 1) - 1 = m
    BY <1>1, <1>2, <2>1 DEF Number
  <2>3. End[m + 1] = End[m] + Packet(m + 1).size + 1
        /\ Packet(m + 1).size \in Nat /\ Packet(m + 1).size + 1 >= BaseLen
    BY <2>2, EndStep, Lengths
  <2>4. Announced(buf[p + 1]) = Packet(m + 1).size
    BY <1>2, <1>7, <2>2, CarriesAt
  <2>5. /\ Complete(buf, p) <=> Len(buf) - p >= BaseLen /\ Packet(m + 1).size <= MaxLen
                                 /\ Len(buf) - p >= Packet(m + 1).size + 1
        /\ TooLong(buf, p) <=> Len(buf) - p >= BaseLen /\ Packet(m + 1).size > MaxLen
    BY <2>4 DEF Complete, TooLong
  <2> DEFINE z == Packet(m + 1).size
             q == End[m + 1]
             b == End[m]
  <2>6. z \in Nat /\ q = b + z + 1 /\ z + 1 >= BaseLen /\ b \in Nat /\ q \in Nat
    BY <1>3, <2>3
  <2>7. /\ Complete(buf, p) <=> e - b >= BaseLen /\ z <= MaxLen /\ e - b >= z + 1
        /\ TooLong(buf, p) <=> e - b >= BaseLen /\ z > MaxLen
    BY <1>4, <2>5
  <2>8. Stops(m, e) <=> z > MaxLen \/ q > e
    BY <2>1 DEF Stops
  <2> HIDE DEF z, q, b
  <2>9. Complete(buf, p) <=> ~ Stops(m, e)
    BY <1>1, <1>5, <2>6, <2>7, <2>8
  <2>10. Stops(m, e) /\ ~ TooLong(buf, p) => e < q
    BY <1>1, <1>5, <2>6, <2>7, <2>8
  <2>11. ASSUME ~ Stops(m, e) PROVE CutStep(buf, p) = q - End[j]
    <3>1. CutStep(buf, p) = Min({p + z + 1, Len(buf)})
      BY <2>4, <2>9, <2>11 DEF CutStep, z
    <3>2. p + z + 1 = q - End[j] /\ p + z + 1 <= Len(buf) /\ p + z + 1 \in Nat
      <4>1. q <= e
        BY <1>1, <2>6, <2>8, <2>11
      <4>2. /\ End[j] \in Nat /\ End[m] \in Nat /\ Packet(m + 1).size \in Nat /\ e \in Nat
            /\ Len(buf) \in Nat /\ p \in Nat /\ Len(buf) - p = e - End[m]
            /\ End[m] + Packet(m + 1).size + 1 <= e
        BY <1>1, <1>3, <1>4, <2>3, <4>1 DEF q
      <4>3. p + Packet(m + 1).size + 1 = (End[m] + Packet(m + 1).size + 1) - End[j]
        BY <4>2
      <4>4. p + Packet(m + 1).size + 1 <= Len(buf)
        BY <4>2
      <4>5. p + Packet(m + 1).size + 1 \in Nat
        BY <4>2
      <4> QED
        BY <2>3, <4>3, <4>4, <4>5 DEF z, q
    <3>3. Min({p + z + 1, Len(buf)}) = p + z + 1
      BY <1>1, <3>2, MinOfTwo
    <3> QED
      BY <3>1, <3>2, <3>3
  <2> QED
    BY <2>9, <2>10, <2>11 DEF q
<1> QED
  BY <1>1, <1>3, <1>6, <1>7

\* Where the loop stops.
LEMMA StopsSomewhere ==
  ASSUME kind \in Kinds, NEW buf, NEW j, NEW e, Carries(buf, j, e)
  PROVE  \E l \in j .. Len(Streams[kind]) :
            /\ Stops(l, e) /\ End[l] <= e
            /\ \A m \in j .. Len(Streams[kind]) : m < l => ~ Stops(m, e) /\ End[m] <= e
<1> DEFINE N == Len(Streams[kind])
           S == {m \in j .. N : Stops(m, e)}
<1>1. N \in Nat /\ j \in 0 .. N /\ e \in Nat /\ End[j] <= e
  BY Lengths DEF Carries
<1>2. S \in SUBSET Nat /\ N \in S
  BY <1>1 DEF Stops
<1>3. PICK l \in S : \A k \in S : l <= k
  <2> HIDE DEF S
  <2> QED
    BY <1>2, Least
<1>4. l \in j .. N /\ Stops(l, e) /\ l \in Nat
  BY <1>1
<1>5. ASSUME NEW m \in j .. N, m < l PROVE ~ Stops(m, e)
  <2>1. ~ (l <= m)
    BY <1>1, <1>4, <1>5
  <2>2. m \notin S
    <3> HIDE DEF S
    <3> QED
      BY <1>3, <2>1
  <2> QED
    BY <2>2
<1>6. ASSUME NEW m \in j .. N, m <= l PROVE End[m] <= e
  <2>1. CASE m = j
    BY <1>1, <2>1
  <2>2. CASE m # j
    <3>1. m - 1 \in j .. N /\ m - 1 < l /\ (m - 1) + 1 = m /\ m \in 0 .. N
      BY <1>1, <1>4, <1>6, <2>2
    <3>2. ~ Stops(m - 1, e)
      BY <1>5, <3>1
    <3>3. ~ (End[m] > e)
      BY <3>1, <3>2 DEF Stops
    <3>4. End[m] \in Nat
      BY <3>1, EndStep
    <3> QED
      BY <1>1, <3>3, <3>4
  <2> QED
    BY <2>1, <2>2
<1>7. \A m \in j .. N : m < l => m <= l
  BY <1>1, <1>4
<1>8. l <= l
  BY <1>4
<1> QED
  BY <1>4, <1>5, <1>6, <1>7, <1>8

\* Up to there every cut is the end of a packet.
AtEnds(buf, j, l) ==
    \A c \in 0 .. Len(buf) :
        Cuts(buf)[c] = End[IF j + c <= l THEN j + c ELSE l] - End[j]

LEMMA CutsAt ==
  ASSUME kind \in Kinds, NEW buf, NEW j, NEW e, Carries(buf, j, e),
         NEW l \in j .. Len(Streams[kind]), Stops(l, e), End[l] <= e,
         \A m \in j .. Len(Streams[kind]) : m < l => ~ Stops(m, e) /\ End[m] <= e
  PROVE  AtEnds(buf, j, l)
<1> DEFINE N == Len(Streams[kind])
           upTo(c) == IF j + c <= l THEN j + c ELSE l
           S == {c \in 0 .. Len(buf) : Cuts(buf)[c] # End[upTo(c)] - End[j]}
<1>1. /\ N \in Nat /\ j \in Nat /\ j <= N /\ e \in Nat /\ End[j] \in Nat
      /\ Len(buf) = e - End[j] /\ Len(buf) \in Nat /\ l \in Nat /\ j <= l /\ l <= N
  <2>1. j \in 0 .. N /\ e \in Nat
    BY DEF Carries
  <2>2. N \in Nat /\ j \in Nat /\ End[j] \in Nat /\ Len(buf) = e - End[j] /\ Len(buf) \in Nat
    BY CarriesType
  <2> QED
    BY <2>1, <2>2
<1>2. S = {}
  <2>1. SUFFICES ASSUME S # {} PROVE FALSE
    OBVIOUS
  <2>2. PICK c \in S : \A k \in S : c <= k
    <3>1. S \in SUBSET Nat
      BY <1>1
    <3> HIDE DEF S
    <3> QED
      BY <2>1, <3>1, Least
  <2>3. c \in 0 .. Len(buf) /\ Cuts(buf)[c] # End[upTo(c)] - End[j]
    OBVIOUS
  <2>4. c # 0
    <3>1. SUFFICES ASSUME c = 0 PROVE FALSE
      OBVIOUS
    <3>2. upTo(0) = j
      BY <1>1
    <3>3. Cuts(buf)[0] = 0
      BY <1>1, CutsStep
    <3> QED
      BY <1>1, <2>3, <3>1, <3>2, <3>3
  <2>5. c \in Nat /\ c \in 1 .. Len(buf) /\ c - 1 \in 0 .. Len(buf) /\ ~ (c <= c - 1)
    BY <1>1, <2>3, <2>4
  <2>6. c - 1 \notin S
    <3> HIDE DEF S
    <3> QED
      BY <2>2, <2>5
  <2> DEFINE m == upTo(c - 1)
  <2>7. Cuts(buf)[c - 1] = End[m] - End[j]
    BY <2>5, <2>6
  <2>8. Cuts(buf)[c] = CutStep(buf, End[m] - End[j])
    BY <1>1, <2>5, <2>7, CutsStep
  <2>9. m \in j .. N /\ (m < l => upTo(c) = m + 1) /\ (m = l => upTo(c) = l) /\ m <= l /\ m \in Nat
    BY <1>1, <2>5
  <2> HIDE DEF m, upTo, S
  <2>10. CASE m < l
    <3>1. ~ Stops(m, e) /\ End[m] <= e
      BY <2>9, <2>10
    <3>2. CutStep(buf, End[m] - End[j]) = End[m + 1] - End[j]
      BY <2>9, <3>1, CompleteAt
    <3> QED
      BY <2>3, <2>8, <2>9, <2>10, <3>2
  <2>11. CASE m = l
    <3>1. ~ Complete(buf, End[l] - End[j])
      BY CompleteAt
    <3>2. CutStep(buf, End[l] - End[j]) = End[l] - End[j]
      BY <3>1 DEF CutStep
    <3> QED
      BY <2>3, <2>8, <2>9, <2>11, <3>2
  <2> QED
    BY <1>1, <2>9, <2>10, <2>11
<1> QED
  BY <1>2 DEF AtEnds

CutInto(buf, j, l) ==
    /\ l - j \in 0 .. Len(buf)
    /\ Cuts(buf)[Len(buf)] = End[l] - End[j]
    /\ \A c \in 0 .. l - j : Cuts(buf)[c] = End[j + c] - End[j]
    /\ Cardinality({c \in 1 .. Len(buf) : Cuts(buf)[c] # Cuts(buf)[c - 1]}) = l - j

LEMMA PiecesOf ==
  ASSUME kind \in Kinds, NEW buf, NEW j, NEW e, Carries(buf, j, e),
         NEW l \in j .. Len(Streams[kind]), End[l] <= e, AtEnds(buf, j, l)
  PROVE  CutInto(buf, j, l)
<1> DEFINE N == Len(Streams[kind])
           upTo(c) == IF j + c <= l THEN j + c ELSE l
<1>1. /\ N \in Nat /\ j \in Nat /\ j <= N /\ e \in Nat /\ End[j] \in Nat
      /\ Len(buf) = e - End[j] /\ Len(buf) \in Nat /\ l \in Nat /\ j <= l /\ l <= N
  <2>1. j \in 0 .. N /\ e \in Nat
    BY DEF Carries
  <2>2. N \in Nat /\ j \in Nat /\ End[j] \in Nat /\ Len(buf) = e - End[j] /\ Len(buf) \in Nat
    BY CarriesType
  <2> QED
    BY <2>1, <2>2
<1>2. l \in 0 .. N /\ j \in 0 .. N
  BY <1>1
<1>3. End[j] + (l - j) <= End[l] /\ End[l] \in Nat
  BY <1>1, <1>2, EndGrows, EndStep
<1>4. l - j \in 0 .. Len(buf)
  BY <1>1, <1>3
<1>5. upTo(Len(buf)) = l
  BY <1>1, <1>4
<1>6. \A c \in 0 .. l - j : c \in 0 .. Len(buf) /\ upTo(c) = j + c
  BY <1>1, <1>4
<1>7. \A c \in 0 .. Len(buf) : Cuts(buf)[c] = End[upTo(c)] - End[j]
  BY DEF AtEnds
<1>8. Cuts(buf)[Len(buf)] = End[l] - End[j]
  <2>1. Len(buf) \in 0 .. Len(buf)
    BY <1>1
  <2> HIDE DEF upTo
  <2> QED
    BY <1>5, <1>7, <2>1
<1>9. \A c \in 0 .. l - j : Cuts(buf)[c] = End[j + c] - End[j]
  <2> HIDE DEF upTo
  <2> QED
    BY <1>6, <1>7
<1>10. ASSUME NEW c \in 1 .. Len(buf)
       PROVE  Cuts(buf)[c] # Cuts(buf)[c - 1] <=> c \in 1 .. l - j
  <2>1. c \in Nat /\ c \in 0 .. Len(buf) /\ c - 1 \in 0 .. Len(buf)
    BY <1>1
  <2>2. CASE c <= l - j
    <3>1. c \in 0 .. l - j /\ c - 1 \in 0 .. l - j /\ c \in 1 .. l - j
      BY <1>1, <1>4, <2>1, <2>2
    <3>2. j + c \in 0 .. N /\ j + (c - 1) \in 0 .. N /\ j + (c - 1) <= j + c
      BY <1>1, <2>1, <2>2
    <3>3. End[j + (c - 1)] + ((j + c) - (j + (c - 1))) <= End[j + c]
      BY <3>2, EndGrows
    <3>4. End[j + (c - 1)] \in Nat /\ End[j + c] \in Nat
      BY <3>2, EndStep
    <3>5. (j + c) - (j + (c - 1)) = 1
      BY <1>1, <2>1
    <3>6. End[j + (c - 1)] < End[j + c]
      BY <3>3, <3>4, <3>5
    <3>7. Cuts(buf)[c] = End[j + c] - End[j] /\ Cuts(buf)[c - 1] = End[j + (c - 1)] - End[j]
      BY <1>9, <3>1
    <3> QED
      BY <1>1, <3>1, <3>4, <3>6, <3>7
  <2>3. CASE ~ (c <= l - j)
    <3>1. upTo(c) = l /\ upTo(c - 1) = l /\ c \notin 1 .. l - j
      BY <1>1, <2>1, <2>3
    <3> HIDE DEF upTo
    <3> QED
      BY <1>7, <2>1, <3>1
  <2> QED
    BY <2>2, <2>3
<1>11. {c \in 1 .. Len(buf) : Cuts(buf)[c] # Cuts(buf)[c - 1]} = 1 .. l - j
  <2>1. 1 .. l - j \subseteq 1 .. Len(buf)
    BY <1>1, <1>4
  <2> QED
    BY <1>10, <2>1
<1>12. Cardinality(1 .. l - j) = l - j
  BY <1>1, <1>4, FS_Interval
<1> QED
  BY <1>4, <1>8, <1>9, <1>11, <1>12 DEF CutInto

\* A piece between two ends is a packet.
LEMMA SubSeqIs ==
  ASSUME NEW s, NEW a \in Nat, NEW b \in Nat
  PROVE  SubSeq(s, a, b) = [i \in 1 .. (b - a) + 1 |-> s[a + i - 1]]
<1>1. SubSeq(s, a, b) = [i \in 1 .. 1 + b - a |-> s[i + a - 1]]
  OBVIOUS
<1>2. 1 + b - a = (b - a) + 1
  OBVIOUS
<1>3. \A i \in 1 .. (b - a) + 1 : i + a - 1 = a + i - 1
  OBVIOUS
<1> QED
  BY <1>1, <1>2, <1>3

LEMMA PieceIs ==
  ASSUME kind \in Kinds, NEW buf, NEW j, NEW e, Carries(buf, j, e),
         NEW n \in Number, j < n, End[n] <= e
  PROVE  PacketIn(SubSeq(buf, (End[n - 1] - End[j]) + 2, End[n] - End[j])) = n
<1> DEFINE N == Len(Streams[kind])
           z == Packet(n).size
           a == (End[n - 1] - End[j]) + 2
           b == End[n] - End[j]
           piece == SubSeq(buf, a, b)
<1>1. /\ N \in Nat /\ j \in Nat /\ End[j] \in Nat /\ Len(buf) = e - End[j] /\ Len(buf) \in Nat
      /\ \A i \in 1 .. Len(buf) : buf[i] = Bytes[End[j] + i]
  BY CarriesType
<1>2. e \in Nat /\ j \in 0 .. N
  BY DEF Carries
<1>3. n \in 1 .. N /\ n - 1 \in 0 .. N /\ j <= n - 1
  BY <1>1 DEF Number
<1>4. End[j] + (n - 1 - j) <= End[n - 1] /\ End[n - 1] \in Nat /\ End[n] \in Nat
  <2>1. End[j] + ((n - 1) - j) <= End[n - 1]
    BY <1>2, <1>3, EndGrows
  <2>2. \A k \in 0 .. N : End[k] \in Nat
    BY EndStep
  <2>3. n \in 0 .. N
    BY <1>1, <1>3
  <2> QED
    BY <1>3, <2>1, <2>2, <2>3
<1>5. End[n] = End[n - 1] + z + 1 /\ z \in Nat \ {0}
  BY EndStep, Lengths
<1>6. End[j] <= End[n - 1]
  BY <1>1, <1>3, <1>4
<1>7. a \in Nat /\ b \in Nat
  BY <1>1, <1>4, <1>5, <1>6
<1>8. (b - a) + 1 = z
  BY <1>1, <1>4, <1>5
<1>9. piece = [i \in 1 .. z |-> buf[a + i - 1]]
  <2> HIDE DEF a, b, z
  <2> QED
    BY <1>7, <1>8, SubSeqIs
<1>10. ASSUME NEW i \in 1 .. z PROVE buf[a + i - 1] = <<n, i>>
  <2> DEFINE x == a + i - 1
             d == End[n - 1]
             o == End[j]
  <2>1. i \in Nat /\ 1 <= i /\ i <= z /\ z \in Nat
    BY <1>5
  <2>2. i + 1 \in 1 .. z + 1 /\ (i + 1) - 1 = i
    BY <2>1
  <2>3. d \in Nat /\ o \in Nat /\ o <= d /\ d + z + 1 <= e /\ Len(buf) = e - o
    BY <1>1, <1>4, <1>5, <1>6
  <2>4. x = (d - o) + 2 + i - 1
    OBVIOUS
  <2> HIDE DEF x, d, o, z
  <2>5. x \in 1 .. Len(buf)
    BY <1>2, <2>1, <2>3, <2>4
  <2>6. o + x = d + (i + 1)
    BY <2>1, <2>3, <2>4
  <2>7. buf[x] = Bytes[o + x]
    BY <1>1, <2>5 DEF o
  <2>8. Bytes[d + (i + 1)] = <<n, (i + 1) - 1>>
    BY <2>2, ByteOf DEF d, z
  <2>9. buf[x] = <<n, i>>
    BY <2>2, <2>6, <2>7, <2>8
  <2> QED
    BY <2>9 DEF x
<1>11. piece = [i \in 1 .. z |-> <<n, i>>]
  <2> HIDE DEF piece, a, b, z
  <2> QED
    BY <1>9, <1>10
<1>12. piece[1][1] = n
  <2>1. 1 \in 1 .. z
    BY <1>5
  <2> HIDE DEF piece, z
  <2>2. piece[1] = <<n, 1>>
    BY <1>11, <2>1
  <2> QED
    BY <2>2
<1> HIDE DEF piece
<1>13. PacketIn(piece) = n
  BY <1>11, <1>12 DEF PacketIn
<1> QED
  BY <1>13 DEF piece

(***************************************************************************)
(* The inductive invariant of the transport: the connection has handed on  *)
(* the packets 1 to j, and the buffer holds what came of the next.         *)
(***************************************************************************)
Sent(j) ==
    /\ Carries(wire.buffer, j, wire.pos)
    /\ arrived = 1 .. j
    /\ j < Len(Streams[kind]) => wire.pos < End[j + 1]

WireShape == wire = [mode |-> wire.mode, pos |-> wire.pos, buffer |-> wire.buffer]

WireInv ==
    /\ kind \in Kinds /\ PacketsOnly /\ WireShape
    /\ wire.mode = "tcp" => \E j \in 0 .. Len(Streams[kind]) : Sent(j)

LEMMA ConcatIs ==
  ASSUME NEW T, NEW a \in Nat, NEW b \in Nat, NEW s \in [1 .. a -> T], NEW t \in [1 .. b -> T]
  PROVE  /\ s \o t \in Seq(T) /\ Len(s \o t) = a + b
         /\ \A i \in 1 .. a + b : (s \o t)[i] = IF i <= a THEN s[i] ELSE t[i - a]
<1>1. s \in Seq(T) /\ t \in Seq(T) /\ Len(s) = a /\ Len(t) = b
  OBVIOUS
<1>2. /\ s \o t \in Seq(T) /\ Len(s \o t) = a + b
      /\ \A i \in 1 .. a + b : (s \o t)[i] = IF i <= a THEN s[i] ELSE t[i - a]
  BY <1>1, ConcatProperties
<1> QED
  BY <1>2

LEMMA SeqIs ==
  ASSUME NEW T, NEW s \in Seq(T), NEW n \in Nat, Len(s) = n
  PROVE  s = [i \in 1 .. n |-> s[i]]
OBVIOUS

LEMMA CarriesMore ==
  ASSUME kind \in Kinds, NEW buf, NEW j, NEW e, Carries(buf, j, e),
         NEW k \in Nat, e + k <= Len(Bytes)
  PROVE  Carries(buf \o SubSeq(Bytes, e + 1, e + k), j, e + k)
<1> DEFINE N == Len(Streams[kind])
           more == SubSeq(Bytes, e + 1, e + k)
           all == buf \o more
           o == End[j]
<1>1. /\ N \in Nat /\ j \in Nat /\ o \in Nat /\ Len(buf) = e - o /\ Len(buf) \in Nat
      /\ \A i \in 1 .. Len(buf) : buf[i] = Bytes[o + i]
  BY CarriesType
<1>2. e \in Nat /\ j \in 0 .. N /\ o <= e /\ buf = [i \in 1 .. e - o |-> Bytes[o + i]]
  BY DEF Carries
<1>3. N \in 0 .. N /\ End[N] \in Nat
  <2>1. N \in 0 .. N
    BY <1>1
  <2> QED
    BY <2>1, EndStep
<1>4. Bytes = [x \in 1 .. End[N] |-> ByteAt(End, x)]
  BY DEF Bytes
<1> HIDE DEF N, o
<1>5. Len(Bytes) = End[N]
  BY <1>3, <1>4
<1>6. e + k <= End[N] /\ o <= e + k
  BY <1>1, <1>2, <1>5
<1>7. (((e + k) - (e + 1)) + 1) = k /\ e + 1 \in Nat /\ e + k \in Nat
  BY <1>2
<1>8. more = [i \in 1 .. k |-> Bytes[(e + 1) + i - 1]]
  <2>1. SubSeq(Bytes, e + 1, e + k) = [i \in 1 .. ((e + k) - (e + 1)) + 1 |-> Bytes[(e + 1) + i - 1]]
    BY <1>7, SubSeqIs
  <2> QED
    BY <1>7, <2>1
<1>9. Len(more) = k /\ \A i \in 1 .. k : more[i] = Bytes[(e + 1) + i - 1]
  <2> HIDE DEF more
  <2> QED
    BY <1>8
<1>10. /\ all = [i \in 1 .. (e - o) + k |-> all[i]]
       /\ \A i \in 1 .. (e - o) + k : all[i] = IF i <= e - o THEN buf[i] ELSE more[i - (e - o)]
  <2> DEFINE T == {Bytes[x] : x \in 1 .. End[N]}
  <2>1. e - o \in Nat
    BY <1>1
  <2>2. buf \in [1 .. e - o -> T]
    <3>1. \A i \in 1 .. e - o : o + i \in 1 .. End[N]
      BY <1>1, <1>2, <1>3, <1>6
    <3>2. \A i \in 1 .. e - o : Bytes[o + i] \in T
      BY <3>1
    <3> HIDE DEF T
    <3> QED
      BY <1>2, <3>2
  <2>3. more \in [1 .. k -> T]
    <3>1. \A i \in 1 .. k : (e + 1) + i - 1 \in 1 .. End[N]
      BY <1>2, <1>3, <1>6
    <3>2. \A i \in 1 .. k : Bytes[(e + 1) + i - 1] \in T
      BY <3>1
    <3> HIDE DEF T, more
    <3> QED
      BY <1>8, <3>2
  <2> HIDE DEF T, more
  <2> DEFINE w == e - o
  <2>4. w \in Nat /\ buf \in [1 .. w -> T]
    BY <2>1, <2>2
  <2> HIDE DEF w
  <2>5. buf \o more = [i \in 1 .. w + k |-> (buf \o more)[i]]
    <3>1. buf \o more \in Seq(T)
      BY <2>3, <2>4, ConcatIs
    <3>2. Len(buf \o more) = w + k /\ w + k \in Nat
      BY <2>3, <2>4, ConcatIs
    <3> HIDE DEF all
    <3>3. all \in Seq(T) /\ Len(all) = w + k
      BY <3>1, <3>2 DEF all
    <3>4. all = [i \in 1 .. w + k |-> all[i]]
      BY <3>2, <3>3, SeqIs
    <3> QED
      BY <3>4 DEF all
  <2>6. \A i \in 1 .. w + k : (buf \o more)[i] = IF i <= w THEN buf[i] ELSE more[i - w]
    BY <2>3, <2>4, ConcatIs
  <2> QED
    BY <2>5, <2>6 DEF w
<1>11. (e + k) - o = (e - o) + k
  BY <1>1, <1>2
<1>12. ASSUME NEW i \in 1 .. (e + k) - o
       PROVE  (IF i <= e - o THEN buf[i] ELSE more[i - (e - o)]) = Bytes[o + i]
  <2>1. i \in Nat /\ 1 <= i /\ i <= (e + k) - o
    BY <1>1, <1>2
  <2>2. CASE i <= e - o
    BY <1>1, <2>1, <2>2
  <2>3. CASE ~ (i <= e - o)
    <3>1. i - (e - o) \in 1 .. k /\ (e + 1) + (i - (e - o)) - 1 = o + i
      BY <1>1, <1>2, <2>1, <2>3
    <3> HIDE DEF more
    <3> QED
      BY <1>9, <2>3, <3>1
  <2> QED
    BY <2>2, <2>3
<1>13. all = [i \in 1 .. (e + k) - o |-> Bytes[o + i]]
  <2> HIDE DEF all, more
  <2> QED
    BY <1>10, <1>11, <1>12
<1> QED
  BY <1>2, <1>6, <1>7, <1>13 DEF Carries, N, o

LEMMA CarriesRest ==
  ASSUME kind \in Kinds, NEW buf, NEW j, NEW e, Carries(buf, j, e),
         NEW l \in j .. Len(Streams[kind]), End[l] <= e
  PROVE  Carries(SubSeq(buf, (End[l] - End[j]) + 1, Len(buf)), l, e)
<1> DEFINE N == Len(Streams[kind])
           o == End[j]
           d == End[l]
           rest == SubSeq(buf, (d - o) + 1, Len(buf))
<1>1. /\ N \in Nat /\ j \in Nat /\ o \in Nat /\ Len(buf) = e - o /\ Len(buf) \in Nat
      /\ \A i \in 1 .. Len(buf) : buf[i] = Bytes[o + i]
  BY CarriesType
<1>2. e \in Nat /\ j \in 0 .. N /\ o <= e /\ e <= End[N]
  BY DEF Carries
<1>3. l \in 0 .. N /\ j <= l
  BY <1>1
<1>4. End[j] + (l - j) <= End[l] /\ End[l] \in Nat
  BY <1>2, <1>3, EndGrows, EndStep
<1>5. d \in Nat /\ o <= d /\ d <= e
  BY <1>1, <1>3, <1>4
<1> HIDE DEF N, o, d
<1>6. (d - o) + 1 \in Nat /\ (Len(buf) - ((d - o) + 1)) + 1 = e - d
  BY <1>1, <1>2, <1>5
<1>7. rest = [i \in 1 .. e - d |-> buf[((d - o) + 1) + i - 1]]
  <2>1. rest = [i \in 1 .. (Len(buf) - ((d - o) + 1)) + 1 |-> buf[((d - o) + 1) + i - 1]]
    BY <1>1, <1>6, SubSeqIs
  <2> QED
    BY <1>6, <2>1
<1>8. ASSUME NEW i \in 1 .. e - d PROVE buf[((d - o) + 1) + i - 1] = Bytes[d + i]
  <2>1. ((d - o) + 1) + i - 1 \in 1 .. Len(buf) /\ o + (((d - o) + 1) + i - 1) = d + i
    BY <1>1, <1>2, <1>5
  <2> QED
    BY <1>1, <2>1
<1>9. rest = [i \in 1 .. e - d |-> Bytes[d + i]]
  <2> HIDE DEF rest
  <2> QED
    BY <1>7, <1>8
<1> QED
  BY <1>2, <1>3, <1>5, <1>9 DEF Carries, N, o, d

LEMMA SameBytes ==
  ASSUME kind' = kind
  PROVE  End' = End /\ Bytes' = Bytes /\ Number' = Number
<1>1. End' = End
  BY Zenon DEF End, Packet
<1>2. Number' = Number
  BY DEF Number
<1>3. Bytes' = Bytes
  BY <1>1, Zenon DEF Bytes
<1> QED
  BY <1>1, <1>2, <1>3

LEMMA SameCarries ==
  ASSUME kind' = kind, NEW buf, NEW j, NEW e
  PROVE  Carries(buf, j, e)' <=> Carries(buf, j, e)
BY SameBytes, Zenon DEF Carries

LEMMA WireKeeps ==
  ASSUME WireInv, kind' = kind, wire' = wire, arrived' = arrived, PacketsOnly'
  PROVE  WireInv'
<1>1. kind \in Kinds /\ WireShape /\ (wire.mode = "tcp" => \E j \in 0 .. Len(Streams[kind]) : Sent(j))
  BY DEF WireInv
<1>2. ASSUME NEW j, Sent(j) PROVE Sent(j)'
  <2>1. Carries(wire.buffer, j, wire.pos)' <=> Carries(wire.buffer, j, wire.pos)
    BY SameBytes DEF Carries
  <2> QED
    BY <1>2, <2>1, SameBytes DEF Sent
<1>3. WireShape'
  BY <1>1 DEF WireShape
<1> QED
  BY <1>1, <1>2, <1>3 DEF WireInv

\* What one call of feed_tcp_packets cuts off are packets j + 1 to l.
FedUpTo(buf, j, e, l) ==
    /\ Cardinality({c \in 1 .. Len(buf) : Cuts(buf)[c] # Cuts(buf)[c - 1]}) = l - j
    /\ Cuts(buf)[Len(buf)] = End[l] - End[j] /\ End[l] <= e
    /\ \A i \in 1 .. l - j : PacketIn(SubSeq(buf, Cuts(buf)[i - 1] + 2, Cuts(buf)[i])) = j + i
    /\ ~ TooLong(buf, Cuts(buf)[Len(buf)]) /\ l < Len(Streams[kind]) => e < End[l + 1]

LEMMA FeedGives ==
  ASSUME kind \in Kinds, NEW buf, NEW j, NEW e, Carries(buf, j, e)
  PROVE  \E l \in j .. Len(Streams[kind]) : FedUpTo(buf, j, e, l)
<1> DEFINE N == Len(Streams[kind])
           cut == Cuts(buf)
<1>1. PICK l \in j .. N :
            /\ Stops(l, e) /\ End[l] <= e
            /\ \A m \in j .. N : m < l => ~ Stops(m, e) /\ End[m] <= e
  BY StopsSomewhere
<1>2. AtEnds(buf, j, l)
  BY <1>1, CutsAt
<1>3. /\ l - j \in 0 .. Len(buf)
      /\ cut[Len(buf)] = End[l] - End[j]
      /\ \A c \in 0 .. l - j : cut[c] = End[j + c] - End[j]
      /\ Cardinality({c \in 1 .. Len(buf) : cut[c] # cut[c - 1]}) = l - j
  <2>1. CutInto(buf, j, l)
    BY <1>1, <1>2, PiecesOf
  <2> QED
    BY <2>1 DEF CutInto
<1>4. N \in Nat /\ j \in Nat /\ l \in Nat /\ j <= l /\ l <= N
  BY <1>1, CarriesType
<1>5. ASSUME NEW i \in 1 .. l - j
      PROVE  PacketIn(SubSeq(buf, cut[i - 1] + 2, cut[i])) = j + i
  <2>1. i \in Nat /\ i \in 0 .. l - j /\ i - 1 \in 0 .. l - j /\ j + (i - 1) = (j + i) - 1
    BY <1>4
  <2>2. j + i \in Number /\ j < j + i /\ j + i \in j .. N /\ j + i <= l
    BY <1>4 DEF Number
  <2>3. End[j + i] <= e
    BY <1>1, <1>4, <2>2
  <2>4. cut[i] = End[j + i] - End[j] /\ cut[i - 1] = End[(j + i) - 1] - End[j]
    BY <1>3, <2>1
  <2>5. PacketIn(SubSeq(buf, (End[(j + i) - 1] - End[j]) + 2, End[j + i] - End[j])) = j + i
    BY <2>2, <2>3, PieceIs
  <2> QED
    BY <2>4, <2>5
<1>6. ~ TooLong(buf, cut[Len(buf)]) /\ l < N => e < End[l + 1]
  <2>1. Stops(l, e) /\ ~ TooLong(buf, End[l] - End[j]) /\ l # N => e < End[l + 1]
    BY <1>1, CompleteAt
  <2> QED
    BY <1>1, <1>3, <1>4, <2>1
<1> QED
  BY <1>1, <1>3, <1>5, <1>6 DEF FedUpTo

LEMMA FeedTcpInv ==
  ASSUME WireInv, NEW k \in 1 .. MaxChunk, FeedTcp(k)
  PROVE  WireInv'
<1> DEFINE N == Len(Streams[kind])
           buf == wire.buffer \o SubSeq(Bytes, wire.pos + 1, wire.pos + k)
           e == wire.pos + k
           cut == Cuts(buf)
           pieces == Cardinality({c \in 1 .. Len(buf) : cut[c] # cut[c - 1]})
           over == cut[Len(buf)]
           got == [i \in 1 .. pieces |-> PacketIn(SubSeq(buf, cut[i - 1] + 2, cut[i]))]
<1>1. /\ wire.mode = "tcp" /\ e <= Len(Bytes) /\ kind' = kind
      /\ channel' = got /\ arrived' = arrived \cup Range(got)
  BY DEF FeedTcp
<1>2. IF TooLong(buf, over)
      THEN wire' = [mode |-> "error", pos |-> e, buffer |-> <<>>]
      ELSE wire' = [wire EXCEPT !.pos = e, !.buffer = SubSeq(buf, over + 1, Len(buf))]
  BY DEF FeedTcp
<1>3. kind \in Kinds /\ k \in Nat
  BY ReceptionAssumption DEF WireInv
<1>4. PICK j \in 0 .. N : Sent(j)
  BY <1>1 DEF WireInv
<1>5. Carries(buf, j, e)
  BY <1>1, <1>3, <1>4, CarriesMore DEF Sent
<1>6. PICK l \in j .. N :
            /\ pieces = l - j /\ over = End[l] - End[j] /\ End[l] <= e
            /\ \A i \in 1 .. l - j : PacketIn(SubSeq(buf, cut[i - 1] + 2, cut[i])) = j + i
            /\ ~ TooLong(buf, over) /\ l < N => e < End[l + 1]
  <2> HIDE DEF buf, e
  <2>1. PICK l \in j .. N : FedUpTo(buf, j, e, l)
    BY <1>3, <1>5, FeedGives
  <2> QED
    BY <2>1 DEF FedUpTo
<1>7. N \in Nat /\ j \in Nat /\ l \in Nat /\ j <= l /\ l <= N
  BY <1>3, <1>4, <1>6, Lengths
<1>8. got = [i \in 1 .. l - j |-> j + i]
  <2> HIDE DEF buf, e, cut, pieces
  <2> QED
    BY <1>6
<1>9. got \in Seq(Number)
  <2>1. \A i \in 1 .. l - j : j + i \in Number
    BY <1>7 DEF Number
  <2>2. l - j \in Nat
    BY <1>7
  <2> HIDE DEF got
  <2> QED
    BY <1>8, <2>1, <2>2
<1>10. Range(got) = j + 1 .. l
  <2> HIDE DEF got
  <2>1. DOMAIN got = 1 .. l - j /\ \A i \in 1 .. l - j : got[i] = j + i
    BY <1>8
  <2>2. Range(got) = {got[i] : i \in 1 .. l - j}
    BY <2>1 DEF Range
  <2>3. \A n \in j + 1 .. l : n - j \in 1 .. l - j /\ j + (n - j) = n
    BY <1>7
  <2>4. \A i \in 1 .. l - j : j + i \in j + 1 .. l
    BY <1>7
  <2> QED
    BY <2>1, <2>2, <2>3, <2>4
<1>11. arrived' = 1 .. l
  <2>1. arrived = 1 .. j
    BY <1>4 DEF Sent
  <2>2. (1 .. j) \cup (j + 1 .. l) = 1 .. l
    BY <1>7
  <2> HIDE DEF got
  <2> QED
    BY <1>1, <1>10, <2>1, <2>2
<1>12. PacketsOnly'
  <2> HIDE DEF got
  <2> QED
    BY <1>1, <1>9, SameBytes DEF PacketsOnly
<1>13. wire'.mode = "tcp" => Sent(l)'
  <2>1. SUFFICES ASSUME wire'.mode = "tcp" PROVE Sent(l)'
    OBVIOUS
  <2>2. ~ TooLong(buf, over)
    <3> HIDE DEF buf, over, e
    <3> QED
      BY <1>2, <2>1
  <2>3. wire' = [wire EXCEPT !.pos = e, !.buffer = SubSeq(buf, over + 1, Len(buf))]
    BY <1>2, <2>2
  <2>4. Carries(SubSeq(buf, over + 1, Len(buf)), l, e)
    <3> HIDE DEF buf, over, e
    <3> QED
      BY <1>3, <1>5, <1>6, CarriesRest
  <2>5. l < N => e < End[l + 1]
    BY <1>6, <2>2
  <2> DEFINE rest == SubSeq(buf, over + 1, Len(buf))
  <2>6. wire'.pos = e /\ wire'.buffer = rest
    <3>1. wire = [mode |-> wire.mode, pos |-> wire.pos, buffer |-> wire.buffer]
      BY DEF WireInv, WireShape
    <3> HIDE DEF buf, over, e
    <3> QED
      BY <2>3, <3>1
  <2> HIDE DEF buf, over, e, rest
  <2> QED
    BY <1>1, <1>11, <2>4, <2>5, <2>6, SameBytes DEF Sent, Carries, rest
<1>14. WireShape'
  <2>1. wire = [mode |-> wire.mode, pos |-> wire.pos, buffer |-> wire.buffer]
    BY DEF WireInv, WireShape
  <2> DEFINE rest == SubSeq(buf, over + 1, Len(buf))
  <2>2. \/ wire' = [mode |-> "error", pos |-> e, buffer |-> <<>>]
        \/ wire' = [wire EXCEPT !.pos = e, !.buffer = rest]
    BY <1>2
  <2> HIDE DEF e, rest
  <2>3. \/ wire' = [mode |-> "error", pos |-> e, buffer |-> <<>>]
        \/ wire' = [mode |-> wire.mode, pos |-> e, buffer |-> rest]
    BY <2>1, <2>2
  <2> QED
    BY <2>3 DEF WireShape
<1> QED
  BY <1>1, <1>3, <1>7, <1>12, <1>13, <1>14 DEF WireInv

LEMMA WireInvStep ==
  ASSUME WireInv, [Next]_vars
  PROVE  WireInv'
<1>0. channel \in Seq(Number) /\ kind \in Kinds
  BY DEF WireInv, PacketsOnly
<1>1. ASSUME NEW n \in Number, Datagram(n) PROVE WireInv'
  <2>1. kind' = kind /\ wire' = wire /\ wire.mode = "udp" /\ channel' = <<n>>
    BY <1>1 DEF Datagram
  <2>2. <<n>> \in Seq(Number)
    OBVIOUS
  <2>3. PacketsOnly'
    BY <2>1, <2>2, SameBytes DEF PacketsOnly
  <2> QED
    BY <1>0, <2>1, <2>3 DEF WireInv, WireShape
<1>2. ASSUME NEW k \in 1 .. MaxChunk, FeedTcp(k) PROVE WireInv'
  BY <1>2, FeedTcpInv
<1>3. CASE Close
  BY <1>0, <1>3, WireKeeps, SameBytes DEF Close, PacketsOnly
<1>4. CASE Reader
  <2>1. kind' = kind /\ wire' = wire /\ arrived' = arrived
    BY <1>4 DEF Reader, CalculateIndex, IndexCalculated, ConsumeReady, ReducePacket,
       TakeExpected, GapBegins, GapReceives, GapFilled, GapEnds, TakeLater, EndOfInput,
       TakeFirstAvailable, Take, Process, wireVars
  <2>2. channel' = channel \/ (channel # <<>> /\ channel' = Tail(channel))
    BY <1>4 DEF Reader, CalculateIndex, IndexCalculated, ConsumeReady, ReducePacket,
       TakeExpected, GapBegins, GapReceives, GapFilled, GapEnds, TakeLater, EndOfInput,
       TakeFirstAvailable, Take, Process, wireVars
  <2>3. channel # <<>> => Tail(channel) \in Seq(Number)
    BY <1>0, HeadTailProperties
  <2>4. PacketsOnly'
    BY <1>0, <2>1, <2>2, <2>3, SameBytes DEF PacketsOnly
  <2> QED
    BY <2>1, <2>4, WireKeeps
<1>5. CASE UNCHANGED vars
  BY <1>0, <1>5, WireKeeps, SameBytes DEF vars, wireVars, PacketsOnly
<1> QED
  BY <1>1, <1>2, <1>3, <1>4, <1>5 DEF Next

LEMMA WireInvInit ==
  ASSUME Init
  PROVE  WireInv
<1>1. kind \in Kinds /\ wire.pos = 0 /\ wire.buffer = <<>> /\ channel = <<>> /\ arrived = {}
      /\ WireShape
  BY DEF Init, WireShape
<1>2. PacketsOnly
  BY <1>1, EmptySeq DEF PacketsOnly
<1>3. /\ Len(Streams[kind]) \in Nat /\ 0 \in 0 .. Len(Streams[kind]) /\ End[0] = 0
      /\ Len(Streams[kind]) \in 0 .. Len(Streams[kind]) /\ End[Len(Streams[kind])] \in Nat
  BY <1>1, Lengths, EndStep
<1>4. Carries(<<>>, 0, 0)
  <2>1. <<>> = [i \in 1 .. 0 - End[0] |-> Bytes[End[0] + i]]
    BY <1>3
  <2> QED
    BY <1>3, <2>1 DEF Carries
<1>5. 0 < Len(Streams[kind]) => 0 < End[0 + 1]
  <2>1. SUFFICES ASSUME 0 < Len(Streams[kind]) PROVE 0 < End[1]
    OBVIOUS
  <2>2. 1 \in Number /\ 1 - 1 = 0
    BY <1>3, <2>1 DEF Number
  <2>3. End[1] = End[0] + Packet(1).size + 1 /\ Packet(1).size \in Nat
    BY <1>1, <2>2, EndStep, Lengths
  <2> QED
    BY <1>3, <2>3
<1>6. Sent(0)
  BY <1>1, <1>4, <1>5 DEF Sent
<1> QED
  BY <1>1, <1>2, <1>3, <1>6 DEF WireInv

LEMMA WireWhole ==
  ASSUME WireInv
  PROVE  TcpPacketsWhole
<1>1. SUFFICES ASSUME wire.mode = "tcp"
               PROVE  /\ 0 \notin Range(channel)
                      /\ arrived = {n \in Number : wire.pos >= End[n]}
  BY DEF TcpPacketsWhole
<1>2. kind \in Kinds /\ channel \in Seq(Number)
  BY DEF WireInv, PacketsOnly
<1>3. 0 \notin Range(channel)
  BY <1>2 DEF Range, Number
<1>4. PICK j \in 0 .. Len(Streams[kind]) : Sent(j)
  BY <1>1 DEF WireInv
<1> DEFINE N == Len(Streams[kind])
<1>5. N \in Nat /\ j \in Nat /\ j \in 0 .. N /\ \A k \in 0 .. N : End[k] \in Nat
  BY <1>2, <1>4, Lengths, EndStep
<1>6. wire.pos \in Nat /\ End[j] <= wire.pos /\ arrived = 1 .. j
      /\ (j < N => wire.pos < End[j + 1])
  BY <1>4 DEF Sent, Carries
<1>7. ASSUME NEW n \in Number PROVE n <= j <=> wire.pos >= End[n]
  <2>1. n \in Nat /\ n \in 0 .. N /\ End[n] \in Nat /\ End[j] \in Nat
    BY <1>5 DEF Number
  <2>2. CASE n <= j
    <3>1. End[n] + (j - n) <= End[j]
      BY <1>2, <1>5, <2>1, <2>2, EndGrows
    <3> QED
      BY <1>5, <1>6, <2>1, <2>2, <3>1
  <2>3. CASE ~ (n <= j)
    <3>1. j < N /\ j + 1 <= n /\ j + 1 \in 0 .. N
      BY <1>5, <2>1, <2>3
    <3>2. End[j + 1] + (n - (j + 1)) <= End[n]
      BY <1>2, <2>1, <3>1, EndGrows
    <3>3. End[j + 1] \in Nat /\ wire.pos < End[j + 1]
      BY <1>5, <1>6, <3>1
    <3> QED
      BY <1>5, <1>6, <2>1, <2>3, <3>1, <3>2, <3>3
  <2> QED
    BY <2>2, <2>3
<1>8. \A n : n \in 1 .. j <=> n \in Number /\ n <= j
  BY <1>5 DEF Number
<1>9. arrived = {n \in Number : wire.pos >= End[n]}
  BY <1>6, <1>7, <1>8
<1> QED
  BY <1>3, <1>9

(***************************************************************************)
(* However the chunks of a connection are cut, feed_tcp_packets hands on   *)
(* each packet that came in full, whole and once, for packets of any       *)
(* length and any number of them: what is in the buffer is the beginning   *)
(* of the next packet.                                                     *)
(***************************************************************************)
THEOREM TcpCorrect == Spec => []TcpPacketsWhole
<1>1. Init => WireInv
  BY WireInvInit
<1>2. WireInv /\ [Next]_vars => WireInv'
  BY WireInvStep
<1>3. WireInv => TcpPacketsWhole
  BY WireWhole
<1> QED
  BY <1>1, <1>2, <1>3, PTL DEF Spec

\* Only packets come out of the channel, from datagrams and from a connection.
LEMMA ChannelPackets == Spec => []PacketsOnly
<1>1. Init => WireInv
  BY WireInvInit
<1>2. WireInv /\ [Next]_vars => WireInv'
  BY WireInvStep
<1>3. WireInv => PacketsOnly
  BY DEF WireInv
<1> QED
  BY <1>1, <1>2, <1>3, PTL DEF Spec

(***************************************************************************)
(* The packets reach the demuxer in the order they were sent and none      *)
(* twice, on whatever transport, over any number of wraps of the sequence  *)
(* number and for rings of any size that divides its range, as long as     *)
(* none came a ring ahead or half the range late.                          *)
(***************************************************************************)
THEOREM RingInOrder == Spec => []InOrder
<1>1. Init => RingInv
  BY RingInvInit
<1>2. RingInv /\ PacketsOnly /\ [Next]_vars => RingInv'
  BY RingInvStep
<1> QED
  BY <1>1, <1>2, RingInvOrdered, ChannelPackets, PTL DEF Spec

(***************************************************************************)
(* What is sent.                                                           *)
(***************************************************************************)
LEMMA PacketTyped ==
  ASSUME kind \in Kinds, NEW n \in Number
  PROVE  Packet(n) \in PacketType
<1>1. Streams[kind] \in Seq(PacketType)
  BY ReceptionAssumption
<1>2. n \in 1 .. Len(Streams[kind])
  BY DEF Number
<1>3. Streams[kind][n] \in PacketType
  BY <1>1, <1>2, ElementOfSeq
<1> QED
  BY <1>3 DEF Packet

LEMMA FrameType ==
  ASSUME kind \in Kinds, NEW n \in Number
  PROVE  Packet(n).frame \in Nat \ {0} /\ Packet(n).marker \in BOOLEAN
BY PacketTyped DEF PacketType

LEMMA SentInOrder ==
  ASSUME kind \in Kinds, kind # "Audio", NEW m \in Number, NEW n \in Number, m < n
  PROVE  /\ Packet(m).frame <= Packet(n).frame
         /\ Packet(m).marker => Packet(m).frame # Packet(n).frame
<1>1. m \in DOMAIN Streams[kind] /\ n \in DOMAIN Streams[kind]
  BY ReceptionAssumption DEF Number
<1> QED
  BY <1>1, SenderAssumption DEF Packet

LEMMA SentFragment ==
  ASSUME kind \in Kinds, kind # "Audio", NEW n \in Number, Packet(n).part \in {"mid", "end"}
  PROVE  /\ n - 1 \in Number
         /\ Packet(n - 1).part \in {"start", "mid"} /\ Packet(n - 1).frame = Packet(n).frame
<1>1. n \in DOMAIN Streams[kind] /\ n \in 1 .. Len(Streams[kind])
  BY ReceptionAssumption DEF Number
<1>2. /\ n > 1 /\ Streams[kind][n - 1].part \in {"start", "mid"}
      /\ Streams[kind][n - 1].frame = Streams[kind][n].frame
  BY <1>1, SenderAssumption DEF Packet
<1>3. n - 1 \in Number
  <2>1. Len(Streams[kind]) \in Nat
    BY ReceptionAssumption, LenProperties
  <2> QED
    BY <1>1, <1>2, <2>1 DEF Number
<1> QED
  BY <1>2, <1>3 DEF Packet

(***************************************************************************)
(* The access unit under way: its type, and what finishing it, a loss and  *)
(* a packet do to it.                                                      *)
(***************************************************************************)
UnitType ==
    [ready : Seq(Seq(Number)), buf : Seq(Number), ts : Nat, damaged : BOOLEAN,
     waitKey : BOOLEAN, fu : Seq(Number)]

Finished(a, b) ==
    /\ b.buf = <<>> /\ b.ts = 0 /\ b.fu = a.fu
    /\ \/ b.ready = a.ready /\ (a.waitKey => b.waitKey)
       \/ /\ a.buf # <<>> /\ b.ready = Append(a.ready, a.buf)
          /\ HasKey(a.buf) \/ (~a.waitKey /\ ~b.waitKey)

LEMMA Finish ==
  ASSUME NEW a \in UnitType
  PROVE  finish_access_unit(a) \in UnitType /\ Finished(a, finish_access_unit(a))
<1> DEFINE b == [a EXCEPT !.buf = <<>>, !.ts = 0, !.damaged = FALSE]
           c == finish_access_unit(a)
<1>1. /\ a.ready \in Seq(Seq(Number)) /\ a.buf \in Seq(Number) /\ a.ts \in Nat
      /\ a.damaged \in BOOLEAN /\ a.waitKey \in BOOLEAN /\ a.fu \in Seq(Number)
  BY DEF UnitType
<1>2. /\ b \in UnitType /\ b.buf = <<>> /\ b.ts = 0 /\ b.fu = a.fu /\ b.ready = a.ready
      /\ b.waitKey = a.waitKey
  BY EmptySeq DEF UnitType
<1>3. CASE a.buf = <<>>
  <2>1. c = b
    BY <1>3 DEF finish_access_unit
  <2> QED
    BY <1>2, <2>1 DEF Finished
<1>4. CASE a.buf # <<>> /\ a.damaged
  <2>1. c = [b EXCEPT !.waitKey = b.waitKey \/ Raw]
    BY <1>4 DEF finish_access_unit
  <2> HIDE DEF b
  <2>2. (b.waitKey \/ Raw) \in BOOLEAN
    OBVIOUS
  <2> QED
    BY <1>2, <2>1, <2>2 DEF Finished, UnitType
<1>5. CASE a.buf # <<>> /\ ~a.damaged
  <2> DEFINE r == IF a.waitKey /\ ~HasKey(a.buf) THEN b.ready ELSE Append(b.ready, a.buf)
             w == b.waitKey /\ ~HasKey(a.buf)
  <2>1. c = [b EXCEPT !.ready = r, !.waitKey = w]
    BY <1>5 DEF finish_access_unit
  <2>2. r \in Seq(Seq(Number)) /\ w \in BOOLEAN
    BY <1>1, <1>2
  <2>3. \/ r = a.ready /\ (a.waitKey => w)
        \/ /\ a.buf # <<>> /\ r = Append(a.ready, a.buf)
           /\ HasKey(a.buf) \/ (~a.waitKey /\ ~w)
    BY <1>2, <1>5
  <2> HIDE DEF b, r, w
  <2>4. c \in UnitType /\ c.ready = r /\ c.waitKey = w /\ c.buf = b.buf /\ c.ts = b.ts
        /\ c.fu = b.fu
    BY <1>2, <2>1, <2>2 DEF UnitType
  <2> HIDE DEF c
  <2> QED
    BY <1>2, <2>3, <2>4 DEF Finished, c
<1> QED
  BY <1>3, <1>4, <1>5

Marked(a, ts, b) ==
    /\ b.buf = <<>> /\ b.fu = <<>> /\ b.ready = a.ready
    /\ a.waitKey => b.waitKey
    /\ a.buf = <<>> /\ a.fu # <<>> /\ Raw => b.waitKey

LEMMA Mark ==
  ASSUME NEW a \in UnitType, NEW ts \in Nat
  PROVE  mark_packet_loss(a, ts) \in UnitType /\ Marked(a, ts, mark_packet_loss(a, ts))
<1> DEFINE b == [a EXCEPT !.fu = <<>>, !.buf = <<>>, !.ts = 0, !.damaged = FALSE]
           c == mark_packet_loss(a, ts)
<1>1. /\ b \in UnitType /\ b.buf = <<>> /\ b.fu = <<>> /\ b.ready = a.ready
      /\ b.waitKey = a.waitKey /\ a.waitKey \in BOOLEAN
  BY EmptySeq DEF UnitType
<1>2. CASE a.buf = <<>>
  <2> DEFINE w == b.waitKey \/ (a.fu # <<>> /\ Raw)
  <2>1. c = [b EXCEPT !.waitKey = w]
    BY <1>2 DEF mark_packet_loss
  <2>2. w \in BOOLEAN /\ (a.waitKey => w) /\ (a.fu # <<>> /\ Raw => w)
    BY <1>1
  <2> HIDE DEF b, w
  <2>3. c \in UnitType /\ c.buf = b.buf /\ c.fu = b.fu /\ c.ready = b.ready /\ c.waitKey = w
    BY <1>1, <2>1, <2>2 DEF UnitType
  <2> HIDE DEF c
  <2> QED
    BY <1>1, <2>2, <2>3 DEF Marked, c
<1>3. CASE a.buf # <<>> /\ a.ts # ts
  <2>1. c = b
    BY <1>3 DEF mark_packet_loss
  <2> QED
    BY <1>1, <1>3, <2>1 DEF Marked
<1>4. CASE a.buf # <<>> /\ a.ts = ts
  <2>1. c = [b EXCEPT !.ts = ts, !.damaged = TRUE]
    BY <1>4 DEF mark_packet_loss
  <2> HIDE DEF b
  <2> QED
    BY <1>1, <1>4, <2>1 DEF Marked, UnitType
<1> QED
  BY <1>2, <1>3, <1>4

LEMMA Depacketize ==
  ASSUME kind \in Kinds, NEW fu \in Seq(Number), NEW n \in Number
  PROVE  LET d == depacketize(fu, n)
             part == Packet(n).part
         IN  /\ d.fu \in Seq(Number) /\ d.data \in Seq(Number)
             /\ d.data # <<>> =>
                  \/ part = "whole" /\ d.data = <<n>>
                  \/ part = "end" /\ fu # <<>> /\ d.data = Append(fu, n)
             /\ part = "start" => d.fu = <<n>>
             /\ part = "mid" => d.fu = IF fu = <<>> THEN <<>> ELSE Append(fu, n)
             /\ part \notin {"start", "mid"} => d.fu = <<>> \/ d.fu = fu
<1> DEFINE part == Packet(n).part
<1>1. part \in {"whole", "start", "mid", "end", "badFragment", "unsupported"}
  BY PacketTyped DEF PacketType
<1> DEFINE g == Append(fu, n)
           o == <<n>>
           d == depacketize(fu, n)
<1>2. <<>> \in Seq(Number) /\ o \in Seq(Number) /\ g \in Seq(Number)
  OBVIOUS
<1>3. part = "whole" => (d.fu = fu /\ d.data = o)
  BY DEF depacketize
<1>4. part = "unsupported" => (d.fu = fu /\ d.data = <<>>)
  BY DEF depacketize
<1>5. part = "badFragment" => (d.fu = <<>> /\ d.data = <<>>)
  BY DEF depacketize
<1>6. part = "start" => (d.fu = o /\ d.data = <<>>)
  BY DEF depacketize
<1>7. part \in {"mid", "end"} /\ fu = <<>> => (d.fu = fu /\ d.data = <<>>)
  BY DEF depacketize
<1>8. part = "mid" /\ fu # <<>> => (d.fu = g /\ d.data = <<>>)
  BY DEF depacketize
<1>9. part = "end" /\ fu # <<>> => (d.fu = <<>> /\ d.data = g)
  BY DEF depacketize
<1> HIDE DEF d, part, g, o
<1>10. /\ d.fu \in Seq(Number) /\ d.data \in Seq(Number)
  BY <1>1, <1>2, <1>3, <1>4, <1>5, <1>6, <1>7, <1>8, <1>9
<1>11. d.data # <<>> => \/ part = "whole" /\ d.data = o
                        \/ part = "end" /\ fu # <<>> /\ d.data = g
  BY <1>1, <1>3, <1>4, <1>5, <1>6, <1>7, <1>8, <1>9
<1>12. /\ part = "start" => d.fu = o
       /\ part = "mid" => d.fu = IF fu = <<>> THEN <<>> ELSE g
       /\ part \notin {"start", "mid"} => d.fu = <<>> \/ d.fu = fu
  BY <1>1, <1>3, <1>4, <1>5, <1>6, <1>7, <1>8, <1>9
<1> QED
  BY <1>10, <1>11, <1>12 DEF d, part, g, o

\* The two ends of an append: a unit of another frame is finished first, and
\* the marker finishes the unit.
Appended(a, n, data, b, c, r) ==
    /\ b \in UnitType /\ c \in UnitType /\ r \in UnitType
    /\ \/ b = a /\ (a.ts = 0 \/ a.ts = Packet(n).frame)
       \/ a.ts # 0 /\ a.ts # Packet(n).frame /\ Finished(a, b)
    /\ c.ts = Packet(n).frame /\ c.buf = b.buf \o data
    /\ c.fu = b.fu /\ c.ready = b.ready /\ c.waitKey = b.waitKey
    /\ \/ Packet(n).marker /\ Finished(c, r)
       \/ ~Packet(n).marker /\ r = c

LEMMA AppendUnit ==
  ASSUME kind \in Kinds, NEW a \in UnitType, NEW n \in Number, NEW data \in Seq(Number)
  PROVE  \E b, c : Appended(a, n, data, b, c, append_access_unit(a, n, data))
<1> DEFINE ts == Packet(n).frame
           b == IF a.ts # 0 /\ a.ts # ts THEN finish_access_unit(a) ELSE a
           c == [b EXCEPT !.ts = ts, !.buf = b.buf \o data]
           r == append_access_unit(a, n, data)
<1>1. ts \in Nat /\ Packet(n).marker \in BOOLEAN
  BY FrameType
<1>2. /\ b \in UnitType
      /\ \/ b = a /\ (a.ts = 0 \/ a.ts = ts)
         \/ a.ts # 0 /\ a.ts # ts /\ Finished(a, b)
  BY Finish
<1>3. r = IF Packet(n).marker THEN finish_access_unit(c) ELSE c
  BY DEF append_access_unit
<1> HIDE DEF b, ts
<1>4. /\ c \in UnitType /\ c.ts = ts /\ c.buf = b.buf \o data /\ c.fu = b.fu
      /\ c.ready = b.ready /\ c.waitKey = b.waitKey
  <2>1. b.buf \o data \in Seq(Number)
    BY <1>2 DEF UnitType
  <2> QED
    BY <1>1, <1>2, <2>1 DEF UnitType
<1> HIDE DEF c, r
<1>5. r \in UnitType /\ (\/ Packet(n).marker /\ Finished(c, r)
                         \/ ~Packet(n).marker /\ r = c)
  BY <1>3, <1>4, Finish
<1>6. Appended(a, n, data, b, c, r)
  BY <1>2, <1>4, <1>5 DEF Appended, ts
<1> QED
  BY <1>6 DEF r

(***************************************************************************)
(* Access units.  From the first packet of the unit under way, and of the  *)
(* fragment under way, everything has been taken; a unit that is finished  *)
(* has all its frame had, unless the input is over (e).                    *)
(***************************************************************************)
Contig(x, t) ==
    x \in Number /\ x <= Last(t) /\ \A m \in Number : x <= m /\ m <= Last(t) => m \in Range(t)

Held(d, f, t) ==
    d # <<>> => Contig(d[1], t) /\ \A j \in DOMAIN d : Packet(d[j]).frame = f

FragmentHeld(fu, t) == fu # <<>> => Contig(fu[1], t)

OfFrame(d, f) == \A j \in DOMAIN d : Packet(d[j]).frame = f

Sealed(u, t, e) ==
    /\ u # <<>> /\ t # <<>> /\ u[1] \in Number /\ u[1] <= Last(t)
    /\ OfFrame(u, FrameOf(u))
    /\ kind # "Audio" =>
          /\ \A m \in Number : u[1] < m /\ m < Last(t) /\ Packet(m).frame = FrameOf(u)
                => m \in Range(t)
          /\ e \/ \A m \in Number : Last(t) < m => Packet(m).frame # FrameOf(u)

AllSealed(s, t, e) == \A i \in DOMAIN s : Sealed(s[i], t, e)

LEMMA SealUnit ==
  ASSUME NEW t \in Seq(Number), t # <<>>, NEW u \in Seq(Number), u # <<>>, NEW f, NEW e,
         Held(u, f, t), e \/ \A m \in Number : Last(t) < m => Packet(m).frame # f
  PROVE  Sealed(u, t, e)
<1>1. 1 \in DOMAIN u /\ u[1] \in Number /\ Last(t) \in Number
  BY DEF Last
<1>2. FrameOf(u) = f /\ OfFrame(u, f) /\ Contig(u[1], t)
  BY <1>1 DEF FrameOf, OfFrame, Held
<1>3. ASSUME NEW m \in Number, u[1] < m, m < Last(t) PROVE m \in Range(t)
  <2>1. m \in Nat /\ u[1] \in Nat /\ Last(t) \in Nat
    BY <1>1, NumberType
  <2> QED
    BY <1>2, <1>3, <2>1 DEF Contig
<1>4. u[1] <= Last(t)
  BY <1>2 DEF Contig
<1> QED
  BY <1>1, <1>2, <1>3, <1>4 DEF Sealed

\* Nothing more of a unit's frame comes after a marker, or after a packet of
\* another frame.
LEMMA LaterFrames ==
  ASSUME kind \in Kinds, kind # "Audio", NEW t \in Seq(Number), t # <<>>,
         NEW d \in Seq(Number), d # <<>>, NEW f, Held(d, f, t),
         Packet(Last(t)).marker \/ Packet(Last(t)).frame # f,
         NEW m \in Number, Last(t) < m
  PROVE  Packet(m).frame # f
<1> DEFINE n == Last(t)
           x == d[1]
<1>1. n \in Number /\ x \in Number /\ x <= n /\ Packet(x).frame = f
  BY DEF Last, Held, Contig
<1>2. n < m /\ (Packet(n).marker \/ Packet(n).frame # f)
  OBVIOUS
<1> HIDE DEF n, x
<1>3. Packet(n).frame \in Nat /\ Packet(m).frame \in Nat /\ Packet(x).frame \in Nat
  BY <1>1, FrameType
<1>4. Packet(n).frame <= Packet(m).frame /\ (Packet(n).marker => Packet(n).frame # Packet(m).frame)
  BY <1>1, <1>2, SentInOrder
<1>5. Packet(x).frame <= Packet(n).frame
  BY <1>1, <1>3, SentInOrder, NumberType
<1> QED
  BY <1>1, <1>2, <1>3, <1>4, <1>5

LEMMA AppendSealed ==
  ASSUME NEW s, NEW u, NEW t, NEW e, s \in Seq(Seq(Number)), u \in Seq(Number),
         AllSealed(s, t, e), Sealed(u, t, e)
  PROVE  AllSealed(Append(s, u), t, e)
<1>1. SUFFICES ASSUME NEW i \in DOMAIN Append(s, u) PROVE Sealed(Append(s, u)[i], t, e)
  BY DEF AllSealed
<1>2. i \in 1 .. Len(s) + 1 /\ DOMAIN s = 1 .. Len(s)
  BY <1>1
<1>3. Append(s, u)[i] = IF i \in 1 .. Len(s) THEN s[i] ELSE u
  BY <1>2
<1> QED
  BY <1>2, <1>3 DEF AllSealed

LEMMA FinishSealed ==
  ASSUME NEW t \in Seq(Number), t # <<>>, NEW e, NEW a \in UnitType, NEW b,
         Finished(a, b), Held(a.buf, a.ts, t), AllSealed(a.ready, t, e),
         a.buf # <<>> => e \/ \A m \in Number : Last(t) < m => Packet(m).frame # a.ts
  PROVE  AllSealed(b.ready, t, e) /\ Held(b.buf, b.ts, t)
<1>1. a.ready \in Seq(Seq(Number)) /\ a.buf \in Seq(Number)
  BY DEF UnitType
<1>2. Held(b.buf, b.ts, t)
  BY DEF Finished, Held
<1>3. CASE b.ready = a.ready
  BY <1>2, <1>3
<1>4. CASE a.buf # <<>> /\ b.ready = Append(a.ready, a.buf)
  <2>1. Sealed(a.buf, t, e)
    BY <1>1, <1>4, SealUnit
  <2> QED
    BY <1>1, <1>2, <1>4, <2>1, AppendSealed
<1> QED
  BY <1>3, <1>4 DEF Finished

LEMMA HeldConcat ==
  ASSUME NEW t, NEW f, NEW d \in Seq(Number), NEW g \in Seq(Number), Held(d, f, t), Held(g, f, t)
  PROVE  Held(d \o g, f, t)
<1>1. CASE d = <<>>
  BY <1>1
<1>2. CASE d # <<>>
  <2>1. 1 \in DOMAIN d /\ (d \o g)[1] = d[1]
    BY <1>2
  <2>2. Contig(d[1], t) /\ \A j \in DOMAIN d : Packet(d[j]).frame = f
    BY <1>2 DEF Held
  <2>3. \A j \in DOMAIN g : Packet(g[j]).frame = f
    BY DEF Held
  <2>4. ASSUME NEW j \in DOMAIN (d \o g) PROVE Packet((d \o g)[j]).frame = f
    <3>1. j \in 1 .. Len(d) + Len(g)
      BY <2>4
    <3>2. CASE j \in DOMAIN d
      BY <2>2, <3>1, <3>2
    <3>3. CASE j \notin DOMAIN d
      <4>1. j - Len(d) \in DOMAIN g /\ (d \o g)[j] = g[j - Len(d)]
        BY <3>1, <3>3
      <4> QED
        BY <2>3, <4>1
    <3> QED
      BY <3>2, <3>3
  <2> QED
    BY <2>1, <2>2, <2>4 DEF Held
<1> QED
  BY <1>1, <1>2

IsLast(n, t) == t # <<>> /\ n = Last(t)

UnitHeld(a, t, e) == a \in UnitType /\ Held(a.buf, a.ts, t) /\ AllSealed(a.ready, t, e)

LEMMA AppendHeld ==
  ASSUME kind \in Kinds, kind # "Audio", NEW t \in Seq(Number), NEW e,
         NEW n \in Number, IsLast(n, t), NEW a, NEW data \in Seq(Number),
         UnitHeld(a, t, e), Held(data, Packet(n).frame, t),
         NEW b, NEW c, NEW r, Appended(a, n, data, b, c, r)
  PROVE  UnitHeld(r, t, e) /\ r.fu = a.fu
<1> DEFINE f == Packet(n).frame
<1>0. t # <<>> /\ n = Last(t)
  BY DEF IsLast
<1>1. f \in Nat \ {0} /\ Packet(n).marker \in BOOLEAN
  BY FrameType
<1>2. a.buf \in Seq(Number) /\ b \in UnitType /\ b.buf \in Seq(Number) /\ c \in UnitType
      /\ r \in UnitType /\ a \in UnitType /\ Held(a.buf, a.ts, t) /\ AllSealed(a.ready, t, e)
  BY DEF Appended, UnitType, UnitHeld
<1>3. Held(b.buf, f, t) /\ AllSealed(b.ready, t, e) /\ b.fu = a.fu
  <2>1. CASE b = a /\ a.ts = f
    BY <1>2, <2>1
  <2>2. CASE b = a /\ a.ts = 0
    <3>1. a.buf = <<>>
      <4>1. SUFFICES ASSUME a.buf # <<>> PROVE FALSE
        OBVIOUS
      <4>2. 1 \in DOMAIN a.buf /\ a.buf[1] \in Number
        BY <1>2, <4>1
      <4>3. Packet(a.buf[1]).frame = 0
        BY <1>2, <2>2, <4>1, <4>2 DEF Held
      <4> QED
        BY <4>2, <4>3, FrameType
    <3> QED
      BY <1>2, <2>2, <3>1 DEF Held
  <2>3. CASE a.ts # f /\ Finished(a, b)
    <3>1. ASSUME a.buf # <<>>, NEW m \in Number, Last(t) < m PROVE Packet(m).frame # a.ts
      BY <1>0, <1>2, <2>3, <3>1, LaterFrames
    <3>2. AllSealed(b.ready, t, e)
      BY <1>0, <1>2, <2>3, <3>1, FinishSealed
    <3>3. b.buf = <<>> /\ b.fu = a.fu
      BY <2>3 DEF Finished
    <3> QED
      BY <3>2, <3>3 DEF Held
  <2> QED
    BY <2>1, <2>2, <2>3 DEF Appended
<1>4. c.ts = f /\ c.buf = b.buf \o data /\ c.fu = b.fu /\ c.ready = b.ready
  BY DEF Appended
<1>5. Held(c.buf, c.ts, t) /\ AllSealed(c.ready, t, e)
  BY <1>2, <1>3, <1>4, HeldConcat
<1>6. CASE ~Packet(n).marker /\ r = c
  BY <1>2, <1>3, <1>4, <1>5, <1>6 DEF UnitHeld
<1>7. CASE Packet(n).marker /\ Finished(c, r)
  <2>1. ASSUME c.buf # <<>>, NEW m \in Number, Last(t) < m PROVE Packet(m).frame # c.ts
    <3>1. c.buf \in Seq(Number)
      BY <1>2 DEF UnitType
    <3> QED
      BY <1>0, <1>5, <1>7, <2>1, <3>1, LaterFrames
  <2>2. AllSealed(r.ready, t, e) /\ Held(r.buf, r.ts, t)
    BY <1>0, <1>2, <1>5, <1>7, <2>1, FinishSealed
  <2>3. r.fu = c.fu
    BY <1>7 DEF Finished
  <2> QED
    BY <1>2, <1>3, <1>4, <2>2, <2>3 DEF UnitHeld
<1> QED
  BY <1>6, <1>7 DEF Appended

\* What is known before the packet n, the last of t, is processed.
Ready(a, t, n) ==
    /\ a \in UnitType
    /\ Held(a.buf, a.ts, t)
    /\ FragmentHeld(a.fu, t)
    /\ Packet(n).part \in {"mid", "end"} => OfFrame(a.fu, Packet(n).frame)

\* And after.
Processed(a, t, n) ==
    /\ a \in UnitType
    /\ Held(a.buf, a.ts, t)
    /\ FragmentHeld(a.fu, t)
    /\ Packet(n).part \in {"start", "mid"} => OfFrame(a.fu, Packet(n).frame)

LEMMA LastContig ==
  ASSUME NEW t \in Seq(Number), t # <<>>
  PROVE  Last(t) \in Number /\ Last(t) \in Range(t) /\ Contig(Last(t), t)
<1> DEFINE n == Last(t)
<1>1. Len(t) \in DOMAIN t /\ n = t[Len(t)] /\ n \in Number
  BY DEF Last
<1>2. n \in Range(t)
  BY <1>1 DEF Range
<1> HIDE DEF n
<1>3. n \in Nat /\ n <= n
  BY <1>1, NumberType
<1>4. ASSUME NEW m \in Number, n <= m, m <= n PROVE m \in Range(t)
  <2>1. m \in Nat
    BY NumberType
  <2>2. m = n
    BY <1>3, <1>4, <2>1
  <2> QED
    BY <1>2, <2>2
<1> QED
  BY <1>1, <1>2, <1>3, <1>4 DEF Contig, n

LEMMA OneHeld ==
  ASSUME NEW t \in Seq(Number), NEW n \in Number, IsLast(n, t)
  PROVE  <<n>> \in Seq(Number) /\ Held(<<n>>, Packet(n).frame, t)
<1>1. Contig(n, t)
  BY LastContig DEF IsLast
<1> QED
  BY <1>1 DEF Held

LEMMA PsProcessed ==
  ASSUME kind \in Kinds, kind # "Audio", NEW t \in Seq(Number), NEW e,
         NEW n \in Number, IsLast(n, t), NEW a, Ready(a, t, n), AllSealed(a.ready, t, e),
         a.fu = <<>>, NEW r, r = append_access_unit(a, n, <<n>>)
  PROVE  Processed(r, t, n) /\ AllSealed(r.ready, t, e) /\ r.fu = <<>>
<1> DEFINE o == <<n>>
<1>1. o \in Seq(Number) /\ Held(o, Packet(n).frame, t) /\ r = append_access_unit(a, n, o)
  BY OneHeld
<1> HIDE DEF o
<1>2. a \in UnitType /\ Held(a.buf, a.ts, t)
  BY DEF Ready
<1>3. PICK b, c : Appended(a, n, o, b, c, r)
  BY <1>1, <1>2, AppendUnit
<1>4. UnitHeld(a, t, e)
  BY <1>2 DEF UnitHeld
<1>5. UnitHeld(r, t, e) /\ r.fu = a.fu
  BY <1>1, <1>3, <1>4, AppendHeld
<1> QED
  BY <1>5 DEF UnitHeld, Processed, FragmentHeld, OfFrame

LEMMA AppendFragment ==
  ASSUME NEW t \in Seq(Number), NEW n \in Number, IsLast(n, t),
         NEW fu \in Seq(Number), fu # <<>>, FragmentHeld(fu, t), OfFrame(fu, Packet(n).frame)
  PROVE  /\ Held(Append(fu, n), Packet(n).frame, t)
         /\ FragmentHeld(Append(fu, n), t) /\ OfFrame(Append(fu, n), Packet(n).frame)
<1>1. 1 \in DOMAIN fu /\ Append(fu, n)[1] = fu[1]
  OBVIOUS
<1>2. Contig(fu[1], t)
  BY DEF FragmentHeld
<1>3. ASSUME NEW j \in DOMAIN Append(fu, n) PROVE Packet(Append(fu, n)[j]).frame = Packet(n).frame
  <2>1. j \in 1 .. Len(fu) + 1 /\ DOMAIN fu = 1 .. Len(fu)
    BY <1>3
  <2>2. Append(fu, n)[j] = IF j \in 1 .. Len(fu) THEN fu[j] ELSE n
    BY <2>1
  <2> QED
    BY <2>1, <2>2 DEF OfFrame
<1> QED
  BY <1>1, <1>2, <1>3 DEF Held, FragmentHeld, OfFrame

LEMMA RawProcessed ==
  ASSUME kind \in Kinds, kind # "Audio", NEW t \in Seq(Number), NEW e,
         NEW n \in Number, IsLast(n, t), NEW a, Ready(a, t, n), AllSealed(a.ready, t, e),
         NEW r, r = process_raw(a, n)
  PROVE  Processed(r, t, n) /\ AllSealed(r.ready, t, e)
<1> DEFINE d == depacketize(a.fu, n)
           b == [a EXCEPT !.fu = d.fu]
           f == Packet(n).frame
           part == Packet(n).part
<1>0. t # <<>> /\ n = Last(t)
  BY DEF IsLast
<1>1. a \in UnitType /\ Held(a.buf, a.ts, t) /\ a.fu \in Seq(Number) /\ a.buf \in Seq(Number)
  BY DEF Ready, UnitType
<1>2. /\ d.fu \in Seq(Number) /\ d.data \in Seq(Number)
      /\ d.data # <<>> =>
            \/ part = "whole" /\ d.data = <<n>>
            \/ part = "end" /\ a.fu # <<>> /\ d.data = Append(a.fu, n)
      /\ part = "start" => d.fu = <<n>>
      /\ part = "mid" => d.fu = IF a.fu = <<>> THEN <<>> ELSE Append(a.fu, n)
      /\ part \notin {"start", "mid"} => d.fu = <<>> \/ d.fu = a.fu
  BY <1>1, Depacketize
<1>3. FragmentHeld(a.fu, t) /\ (part \in {"mid", "end"} => OfFrame(a.fu, f))
  BY DEF Ready
<1>4. r = CASE d.data # <<>> -> append_access_unit(b, n, d.data)
            [] d.data = <<>> /\ Packet(n).marker -> finish_access_unit(b)
            [] OTHER -> b
  BY DEF process_raw
<1>5. /\ b \in UnitType /\ b.buf = a.buf /\ b.ts = a.ts /\ b.ready = a.ready /\ b.fu = d.fu
  BY <1>1, <1>2 DEF UnitType
<1>6. Packet(n).marker \in BOOLEAN
  BY FrameType
<1> HIDE DEF d, b, part, f
<1>7. Held(d.data, f, t)
  <2>1. CASE d.data = <<>>
    BY <2>1 DEF Held
  <2>2. CASE part = "whole" /\ d.data = <<n>>
    BY <2>2, OneHeld DEF f
  <2>3. CASE part = "end" /\ a.fu # <<>> /\ d.data = Append(a.fu, n)
    BY <1>1, <1>3, <2>3, AppendFragment DEF f
  <2> QED
    BY <1>2, <2>1, <2>2, <2>3
<1>8. FragmentHeld(d.fu, t) /\ (part \in {"start", "mid"} => OfFrame(d.fu, f))
  <2>1. FragmentHeld(<<>>, t) /\ OfFrame(<<>>, f)
    BY DEF FragmentHeld, OfFrame
  <2>2. FragmentHeld(<<n>>, t) /\ OfFrame(<<n>>, f)
    BY OneHeld DEF FragmentHeld, OfFrame, Held, f
  <2>3. CASE part = "start"
    BY <1>2, <2>2, <2>3
  <2>4. CASE part = "mid"
    <3>1. a.fu # <<>> => /\ FragmentHeld(Append(a.fu, n), t) /\ OfFrame(Append(a.fu, n), f)
      BY <1>1, <1>3, <2>4, AppendFragment DEF f
    <3> QED
      BY <1>2, <2>1, <2>4, <3>1
  <2>5. CASE part \notin {"start", "mid"}
    BY <1>2, <1>3, <2>1, <2>5
  <2> QED
    BY <2>3, <2>4, <2>5
<1>9. SUFFICES r \in UnitType /\ Held(r.buf, r.ts, t) /\ AllSealed(r.ready, t, e) /\ r.fu = d.fu
  BY <1>8 DEF Processed, part, f
<1>10. CASE d.data # <<>>
  <2>1. r = append_access_unit(b, n, d.data)
    BY <1>4, <1>10
  <2>2. PICK c1, c2 : Appended(b, n, d.data, c1, c2, r)
    BY <1>2, <1>5, <2>1, AppendUnit
  <2>3. UnitHeld(b, t, e)
    BY <1>1, <1>5 DEF UnitHeld
  <2>4. UnitHeld(r, t, e) /\ r.fu = b.fu
    BY <1>2, <1>7, <2>2, <2>3, AppendHeld DEF f
  <2> QED
    BY <1>5, <2>4 DEF UnitHeld
<1>11. CASE d.data = <<>> /\ Packet(n).marker
  <2>1. r = finish_access_unit(b)
    BY <1>4, <1>11
  <2>2. r \in UnitType /\ Finished(b, r)
    BY <1>5, <2>1, Finish
  <2>3. ASSUME b.buf # <<>>, NEW m \in Number, Last(t) < m PROVE Packet(m).frame # b.ts
    BY <1>0, <1>1, <1>5, <1>11, <2>3, LaterFrames
  <2>4. AllSealed(r.ready, t, e) /\ Held(r.buf, r.ts, t)
    BY <1>0, <1>1, <1>5, <2>2, <2>3, FinishSealed
  <2>5. r.fu = b.fu
    BY <2>2 DEF Finished
  <2> QED
    BY <1>5, <2>2, <2>4, <2>5
<1>12. CASE d.data = <<>> /\ ~Packet(n).marker
  <2>1. r = b
    BY <1>4, <1>12
  <2> QED
    BY <1>1, <1>5, <2>1
<1> QED
  BY <1>6, <1>10, <1>11, <1>12

(***************************************************************************)
(* The steps of the reader keep the units whole.                           *)
(***************************************************************************)
LEMMA ProcessType ==
  ASSUME kind \in Kinds, NEW a \in UnitType, NEW n \in Number
  PROVE  /\ append_access_unit(a, n, <<n>>) \in UnitType
         /\ process_raw(a, n) \in UnitType
         /\ process_audio(a, n) \in UnitType
<1>1. append_access_unit(a, n, <<n>>) \in UnitType
  <2> DEFINE o == <<n>>
  <2>1. o \in Seq(Number)
    OBVIOUS
  <2> HIDE DEF o
  <2>2. append_access_unit(a, n, o) \in UnitType
    BY <2>1, AppendUnit DEF Appended
  <2> QED
    BY <2>2 DEF o
<1>2. process_raw(a, n) \in UnitType
  <2> DEFINE d == depacketize(a.fu, n)
             b == [a EXCEPT !.fu = d.fu]
  <2>1. a.fu \in Seq(Number)
    BY DEF UnitType
  <2>2. d.fu \in Seq(Number) /\ d.data \in Seq(Number)
    BY <2>1, Depacketize
  <2>3. process_raw(a, n) = CASE d.data # <<>> -> append_access_unit(b, n, d.data)
            [] d.data = <<>> /\ Packet(n).marker -> finish_access_unit(b)
            [] OTHER -> b
    BY DEF process_raw
  <2> HIDE DEF d
  <2>4. b \in UnitType
    BY <2>2 DEF UnitType
  <2> HIDE DEF b
  <2>5. append_access_unit(b, n, d.data) \in UnitType
    BY <2>2, <2>4, AppendUnit DEF Appended
  <2>6. finish_access_unit(b) \in UnitType
    BY <2>4, Finish
  <2> QED
    BY <2>3, <2>4, <2>5, <2>6
<1>3. process_audio(a, n) \in UnitType
  <2>1. CASE Packet(n).part = "unsupported"
    BY <2>1 DEF process_audio
  <2>2. CASE Packet(n).part # "unsupported"
    <3> DEFINE r == Append(a.ready, <<n>>)
    <3>1. r \in Seq(Seq(Number))
      BY DEF UnitType
    <3>2. process_audio(a, n) = [a EXCEPT !.ready = r]
      BY <2>2 DEF process_audio
    <3> HIDE DEF r
    <3> QED
      BY <3>1, <3>2 DEF UnitType
  <2> QED
    BY <2>1, <2>2
<1> QED
  BY <1>1, <1>2, <1>3

\* The unit as a packet finds it, after the loss that was noticed.
Told(n, lost) == IF lost /\ kind # "Audio" THEN mark_packet_loss(au, Packet(n).frame) ELSE au

LEMMA ProcessPacket ==
  ASSUME kind \in Kinds, au \in UnitType, NEW n \in Number, NEW lost \in BOOLEAN
  PROVE  /\ Told(n, lost) \in UnitType /\ process_packet(n, lost) \in UnitType
         /\ process_packet(n, lost)
              = IF kind = "Ps" THEN append_access_unit(Told(n, lost), n, <<n>>)
                ELSE IF kind = "RawVideo" THEN process_raw(Told(n, lost), n)
                ELSE process_audio(Told(n, lost), n)
<1>1. Told(n, lost) \in UnitType
  BY FrameType, Mark DEF Told
<1>2. process_packet(n, lost)
        = IF kind = "Ps" THEN append_access_unit(Told(n, lost), n, <<n>>)
          ELSE IF kind = "RawVideo" THEN process_raw(Told(n, lost), n)
          ELSE process_audio(Told(n, lost), n)
  BY DEF process_packet, Told
<1> DEFINE a == Told(n, lost)
<1> HIDE DEF a
<1>3. a \in UnitType
  BY <1>1 DEF a
<1>4. /\ append_access_unit(a, n, <<n>>) \in UnitType
      /\ process_raw(a, n) \in UnitType
      /\ process_audio(a, n) \in UnitType
  BY <1>3, ProcessType
<1> QED
  BY <1>1, <1>2, <1>4 DEF a

InputOver == closed /\ channel = <<>> /\ count = 0

UnitsHeld(a, o, t, e) ==
    /\ AllSealed(a.ready, t, e) /\ AllSealed(o, t, e)
    /\ t = <<>> => a.buf = <<>> /\ a.fu = <<>>
    /\ kind = "Audio" => a.buf = <<>>
    /\ kind = "Ps" => a.fu = <<>>
    /\ kind # "Audio" /\ t # <<>> => Processed(a, t, Last(t))

UnitInv ==
    /\ au \in UnitType /\ out \in Seq(Seq(Number))
    /\ ~collided => UnitsHeld(au, out, taken, InputOver)

LEMMA AppendRange ==
  ASSUME NEW S, NEW t \in Seq(S), NEW n \in S
  PROVE  Range(Append(t, n)) = Range(t) \cup {n}
<1>1. Append(t, n) \in Seq(S) /\ Len(Append(t, n)) = Len(t) + 1 /\ Len(t) \in Nat
  OBVIOUS
<1>2. \A i \in 1 .. Len(t) : Append(t, n)[i] = t[i]
  OBVIOUS
<1>3. Append(t, n)[Len(t) + 1] = n
  OBVIOUS
<1>4. DOMAIN Append(t, n) = 1 .. Len(t) + 1 /\ DOMAIN t = 1 .. Len(t)
  OBVIOUS
<1> DEFINE v == Append(t, n)
<1> HIDE DEF v
<1>5. ASSUME NEW x \in Range(v) PROVE x \in Range(t) \cup {n}
  <2>1. PICK i \in 1 .. Len(t) + 1 : x = v[i]
    BY <1>4, <1>5 DEF Range, v
  <2>2. i \in 1 .. Len(t) \/ i = Len(t) + 1
    BY <1>1
  <2> QED
    BY <1>2, <1>3, <1>4, <2>1, <2>2 DEF Range, v
<1>6. ASSUME NEW x \in Range(t) PROVE x \in Range(v)
  <2>1. PICK i \in 1 .. Len(t) : x = t[i]
    BY <1>4, <1>6 DEF Range
  <2>2. i \in DOMAIN v /\ x = v[i]
    BY <1>1, <1>2, <1>4, <2>1 DEF v
  <2> QED
    BY <2>2 DEF Range
<1>7. n \in Range(v)
  <2>1. Len(t) + 1 \in DOMAIN v /\ n = v[Len(t) + 1]
    BY <1>1, <1>3, <1>4 DEF v
  <2> QED
    BY <2>1 DEF Range
<1>8. Range(v) = Range(t) \cup {n}
  BY <1>5, <1>6, <1>7
<1> QED
  BY <1>8 DEF v

LEMMA ContigExtend ==
  ASSUME NEW t \in Seq(Number), t # <<>>, NEW n \in Number, n = Last(t) + 1,
         NEW x, Contig(x, t)
  PROVE  Contig(x, Append(t, n))
<1> DEFINE l == Last(t)
           s == Append(t, n)
<1>1. l \in Number /\ Last(s) = n /\ n = l + 1
  BY AppendLast DEF Last
<1>2. Range(s) = Range(t) \cup {n}
  BY AppendRange
<1>3. x \in Number /\ x <= l /\ \A m \in Number : x <= m /\ m <= l => m \in Range(t)
  BY DEF Contig
<1> HIDE DEF l, s
<1>4. n \in Nat /\ l \in Nat /\ x \in Nat
  BY <1>1, <1>3, NumberType
<1>5. ASSUME NEW m \in Number, x <= m, m <= n PROVE m \in Range(s)
  <2>1. m \in Nat
    BY NumberType
  <2>2. m <= l \/ m = n
    BY <1>1, <1>4, <1>5, <2>1
  <2> QED
    BY <1>2, <1>3, <1>5, <2>2
<1>6. x <= n
  BY <1>1, <1>3, <1>4
<1> QED
  BY <1>1, <1>3, <1>5, <1>6 DEF Contig, s

LEMMA SealedExtend ==
  ASSUME NEW t \in Seq(Number), NEW n \in Number, t # <<>> => Last(t) < n,
         NEW s, NEW e, AllSealed(s, t, FALSE)
  PROVE  AllSealed(s, Append(t, n), e)
<1>1. SUFFICES ASSUME NEW i \in DOMAIN s PROVE Sealed(s[i], Append(t, n), e)
  BY DEF AllSealed
<1> DEFINE u == s[i]
           v == Append(t, n)
           l == Last(t)
<1>2. Sealed(u, t, FALSE)
  BY DEF AllSealed
<1>3. u # <<>> /\ t # <<>> /\ OfFrame(u, FrameOf(u))
  BY <1>2 DEF Sealed
<1>4. v # <<>> /\ Last(v) = n
  BY AppendLast
<1>5. l \in Number /\ l \in Range(t) /\ l < n /\ Range(v) = Range(t) \cup {n}
  BY <1>3, LastContig, AppendRange
<1>8. u[1] \in Number /\ u[1] <= n
  <2>1. u[1] \in Number /\ u[1] <= l
    BY <1>2 DEF Sealed
  <2> HIDE DEF l, u
  <2>2. u[1] \in Nat /\ l \in Nat /\ n \in Nat
    BY <1>5, <2>1, NumberType
  <2> QED
    BY <1>5, <2>1, <2>2
<1>6. CASE kind # "Audio"
  <2>1. \A m \in Number : u[1] < m /\ m < l /\ Packet(m).frame = FrameOf(u) => m \in Range(t)
    BY <1>2, <1>6 DEF Sealed
  <2>2. \A m \in Number : l < m => Packet(m).frame # FrameOf(u)
    BY <1>2, <1>6 DEF Sealed
  <2> HIDE DEF l, u, v
  <2>3. l \in Nat /\ n \in Nat
    BY <1>5, NumberType
  <2>4. ASSUME NEW m \in Number, u[1] < m, m < n, Packet(m).frame = FrameOf(u)
        PROVE  m \in Range(v)
    <3>1. m \in Nat /\ ~ (l < m)
      BY <2>2, <2>4, NumberType
    <3>2. m < l \/ m = l
      BY <2>3, <3>1
    <3> QED
      BY <1>5, <2>1, <2>4, <3>2
  <2>5. ASSUME NEW m \in Number, n < m PROVE Packet(m).frame # FrameOf(u)
    <3>1. m \in Nat
      BY NumberType
    <3>2. l < m
      BY <1>5, <2>3, <2>5, <3>1
    <3> QED
      BY <2>2, <3>2
  <2> QED
    BY <1>3, <1>4, <1>8, <2>4, <2>5 DEF Sealed, u, v
<1>7. CASE kind = "Audio"
  BY <1>3, <1>4, <1>7, <1>8 DEF Sealed
<1> QED
  BY <1>6, <1>7

LEMMA SealedWeaken ==
  ASSUME NEW s, NEW t, NEW e, NEW g, e => g, AllSealed(s, t, e)
  PROVE  AllSealed(s, t, g)
BY DEF AllSealed, Sealed

LEMMA ToldReady ==
  ASSUME kind \in Kinds, kind # "Audio", au \in UnitType, NEW o, NEW e,
         taken \in Seq(Number), UnitsHeld(au, o, taken, e),
         NEW n \in Number, NEW lost \in BOOLEAN,
         ~lost /\ taken # <<>> => n = Last(taken) + 1
  PROVE  /\ Ready(Told(n, lost), Append(taken, n), n)
         /\ Told(n, lost).ready = au.ready
         /\ kind = "Ps" => Told(n, lost).fu = <<>>
<1> DEFINE t == Append(taken, n)
           a == Told(n, lost)
           f == Packet(n).frame
<1>1. f \in Nat
  BY FrameType
<1>2. CASE lost
  <2>1. a = mark_packet_loss(au, f)
    BY <1>2 DEF Told
  <2> HIDE DEF a, f
  <2>2. a \in UnitType /\ a.buf = <<>> /\ a.fu = <<>> /\ a.ready = au.ready
    BY <1>1, <2>1, Mark DEF Marked
  <2>3. Ready(a, t, n)
    BY <2>2 DEF Ready, Held, FragmentHeld, OfFrame
  <2> QED
    BY <2>2, <2>3 DEF a
<1>3. CASE ~lost
  <2>1. a = au
    BY <1>3 DEF Told
  <2>2. kind = "Ps" => au.fu = <<>>
    BY DEF UnitsHeld
  <2>3. CASE taken = <<>>
    <3>1. au.buf = <<>> /\ au.fu = <<>>
      BY <2>3 DEF UnitsHeld
    <3>2. Ready(au, t, n)
      BY <3>1 DEF Ready, Held, FragmentHeld, OfFrame
    <3> QED
      BY <2>1, <2>2, <3>2
  <2>4. CASE taken # <<>>
    <3> DEFINE l == Last(taken)
    <3>1. n = l + 1 /\ l \in Number
      BY <1>3, <2>4, LastContig
    <3>2. Processed(au, taken, l)
      BY <2>4 DEF UnitsHeld
    <3>3. \A x : Contig(x, taken) => Contig(x, t)
      BY <2>4, <3>1, ContigExtend
    <3> HIDE DEF l, t
    <3>4. Held(au.buf, au.ts, t) /\ FragmentHeld(au.fu, t)
      BY <3>2, <3>3 DEF Processed, Held, FragmentHeld
    <3>5. ASSUME Packet(n).part \in {"mid", "end"} PROVE OfFrame(au.fu, f)
      <4>1. /\ Packet(n - 1).part \in {"start", "mid"} /\ Packet(n - 1).frame = Packet(n).frame
        BY <3>5, SentFragment
      <4>2. n - 1 = l
        BY <3>1, NumberType
      <4>3. Packet(l).part \in {"start", "mid"} /\ Packet(l).frame = f
        BY <4>1, <4>2
      <4> QED
        BY <3>2, <4>3 DEF Processed
    <3>6. Ready(au, t, n)
      BY <3>4, <3>5 DEF Ready
    <3> QED
      BY <2>1, <2>2, <3>6 DEF t
  <2> QED
    BY <2>3, <2>4
<1> QED
  BY <1>2, <1>3

\* A packet leaves the units whole.
LEMMA ProcessHeld ==
  ASSUME kind \in Kinds, au \in UnitType, NEW o, NEW e,
         taken \in Seq(Number), UnitsHeld(au, o, taken, FALSE),
         NEW n \in Number, NEW lost \in BOOLEAN,
         ~lost /\ taken # <<>> => n = Last(taken) + 1, taken # <<>> => Last(taken) < n
  PROVE  UnitsHeld(process_packet(n, lost), o, Append(taken, n), e)
<1> DEFINE t == Append(taken, n)
           a == Told(n, lost)
           r == process_packet(n, lost)
<1>1. /\ a \in UnitType /\ r \in UnitType
      /\ r = IF kind = "Ps" THEN append_access_unit(a, n, <<n>>)
             ELSE IF kind = "RawVideo" THEN process_raw(a, n)
             ELSE process_audio(a, n)
  BY ProcessPacket
<1>2. t \in Seq(Number) /\ t # <<>> /\ Last(t) = n /\ IsLast(n, t)
  BY AppendLast DEF IsLast
<1>3. AllSealed(au.ready, t, e) /\ AllSealed(o, t, e)
  BY SealedExtend DEF UnitsHeld
<1>4. kind # "Audio" => /\ Ready(a, t, n) /\ a.ready = au.ready
                        /\ kind = "Ps" => a.fu = <<>>
  BY ToldReady
<1>5. kind = "Audio" => a = au
  BY DEF Told
<1>6. kind \in {"Ps", "RawVideo", "Audio"}
  BY ReceptionAssumption
<1> HIDE DEF t, a, r
<1>7. CASE kind = "Ps"
  <2>1. r = append_access_unit(a, n, <<n>>) /\ a.fu = <<>> /\ Ready(a, t, n)
        /\ AllSealed(a.ready, t, e)
    BY <1>1, <1>3, <1>4, <1>7
  <2>2. Processed(r, t, n) /\ AllSealed(r.ready, t, e) /\ r.fu = <<>>
    BY <1>2, <1>7, <2>1, PsProcessed
  <2>3. UnitsHeld(r, o, t, e)
    BY <1>2, <1>3, <1>7, <2>2 DEF UnitsHeld
  <2> QED
    BY <2>3 DEF r, t
<1>8. CASE kind = "RawVideo"
  <2>1. r = process_raw(a, n) /\ Ready(a, t, n) /\ AllSealed(a.ready, t, e)
    BY <1>1, <1>3, <1>4, <1>8
  <2>2. Processed(r, t, n) /\ AllSealed(r.ready, t, e)
    BY <1>2, <1>8, <2>1, RawProcessed
  <2>3. UnitsHeld(r, o, t, e)
    BY <1>2, <1>3, <1>8, <2>2 DEF UnitsHeld
  <2> QED
    BY <2>3 DEF r, t
<1>9. CASE kind = "Audio"
  <2>1. r = process_audio(au, n) /\ au.buf = <<>>
    BY <1>1, <1>5, <1>9 DEF UnitsHeld
  <2>2. CASE Packet(n).part = "unsupported"
    <3>1. r = au
      BY <2>1, <2>2 DEF process_audio
    <3>2. UnitsHeld(r, o, t, e)
      BY <1>2, <1>3, <1>9, <2>1, <3>1 DEF UnitsHeld
    <3> QED
      BY <3>2 DEF r, t
  <2>3. CASE Packet(n).part # "unsupported"
    <3> DEFINE u == <<n>>
    <3>1. r = [au EXCEPT !.ready = Append(au.ready, u)]
      BY <2>1, <2>3 DEF process_audio
    <3>2. u \in Seq(Number) /\ u # <<>> /\ u[1] = n /\ n <= n /\ OfFrame(u, FrameOf(u))
      BY NumberType DEF OfFrame, FrameOf
    <3> HIDE DEF u
    <3>3. Sealed(u, t, e)
      BY <1>2, <1>9, <3>2 DEF Sealed
    <3>4. au.ready \in Seq(Seq(Number)) /\ r.ready = Append(au.ready, u) /\ r.buf = au.buf
      BY <3>1 DEF UnitType
    <3>5. AllSealed(r.ready, t, e)
      BY <1>3, <3>2, <3>3, <3>4, AppendSealed
    <3>6. UnitsHeld(r, o, t, e)
      BY <1>2, <1>3, <1>9, <2>1, <3>4, <3>5 DEF UnitsHeld
    <3> QED
      BY <3>6 DEF r, t
  <2> QED
    BY <2>2, <2>3
<1> QED
  BY <1>6, <1>7, <1>8, <1>9

\* At the end of the input the unit under way is finished as it is.
LEMMA FinishHeld ==
  ASSUME NEW a \in UnitType, NEW o, NEW t \in Seq(Number), UnitsHeld(a, o, t, TRUE)
  PROVE  /\ finish_access_unit(a) \in UnitType
         /\ UnitsHeld(finish_access_unit(a), o, t, TRUE)
<1> DEFINE b == finish_access_unit(a)
<1>1. b \in UnitType /\ Finished(a, b)
  BY Finish
<1> HIDE DEF b
<1>2. b.buf = <<>> /\ b.fu = a.fu
  BY <1>1 DEF Finished
<1>3. AllSealed(a.ready, t, TRUE) /\ AllSealed(o, t, TRUE)
  BY DEF UnitsHeld
<1>4. CASE a.buf = <<>>
  <2>1. b.ready = a.ready
    BY <1>1, <1>4 DEF Finished
  <2>2. kind # "Audio" /\ t # <<>> => Processed(b, t, Last(t))
    BY <1>1, <1>2 DEF UnitsHeld, Processed, Held
  <2>3. UnitsHeld(b, o, t, TRUE)
    BY <1>2, <1>3, <2>1, <2>2 DEF UnitsHeld
  <2> QED
    BY <1>1, <2>3 DEF b
<1>5. CASE a.buf # <<>>
  <2>1. t # <<>> /\ kind # "Audio" /\ Processed(a, t, Last(t))
    BY <1>5 DEF UnitsHeld
  <2>2. Held(a.buf, a.ts, t)
    BY <2>1 DEF Processed
  <2>3. AllSealed(b.ready, t, TRUE)
    BY <1>1, <1>3, <2>1, <2>2, FinishSealed
  <2>4. Processed(b, t, Last(t))
    BY <1>1, <1>2, <2>1 DEF Processed, Held
  <2>5. UnitsHeld(b, o, t, TRUE)
    BY <1>2, <1>3, <2>1, <2>3, <2>4 DEF UnitsHeld
  <2> QED
    BY <1>1, <2>5 DEF b
<1> QED
  BY <1>4, <1>5

LEMMA UnitInvInit ==
  ASSUME Init
  PROVE  UnitInv
<1>1. /\ au = [NoUnit EXCEPT !.waitKey = Raw] /\ out = <<>> /\ taken = <<>>
  BY DEF Init
<1>2. /\ NoUnit \in UnitType /\ NoUnit.ready = <<>> /\ NoUnit.buf = <<>> /\ NoUnit.fu = <<>>
      /\ Raw \in BOOLEAN
  BY EmptySeq DEF NoUnit, UnitType, Raw
<1>3. au \in UnitType /\ au.ready = <<>> /\ au.buf = <<>> /\ au.fu = <<>>
  BY <1>1, <1>2 DEF UnitType
<1>4. out \in Seq(Seq(Number))
  BY <1>1, EmptySeq
<1>5. UnitsHeld(au, out, taken, InputOver)
  BY <1>1, <1>3 DEF UnitsHeld, AllSealed
<1> QED
  BY <1>3, <1>4, <1>5 DEF UnitInv

\* The invariant in the next state, with what the definitions take from kind.
LEMMA UnitInvNext ==
  ASSUME kind' = kind, au' \in UnitType, out' \in Seq(Seq(Number)),
         ~collided' => UnitsHeld(au', out', taken', InputOver')
  PROVE  UnitInv'
<1>1. Number' = Number /\ UnitType' = UnitType
  BY DEF Number, UnitType
<1>2. \A n : Packet(n)' = Packet(n)
  BY DEF Packet
<1>3. ~collided' => UnitsHeld(au, out, taken, InputOver)'
  BY <1>1, <1>2 DEF UnitsHeld, AllSealed, Sealed, OfFrame, FrameOf, Processed, Held, FragmentHeld,
     Contig, Packet
<1> QED
  BY <1>1, <1>3 DEF UnitInv

LEMMA UnitsWeaken ==
  ASSUME NEW a, NEW o, NEW t, NEW e, NEW g, UnitsHeld(a, o, t, e), e => g
  PROVE  UnitsHeld(a, o, t, g)
<1>1. AllSealed(a.ready, t, g) /\ AllSealed(o, t, g)
  BY SealedWeaken DEF UnitsHeld
<1> QED
  BY <1>1 DEF UnitsHeld

LEMMA UnitUntouched ==
  ASSUME UnitInv, kind' = kind, au' = au, out' = out, taken' = taken, collided => collided',
         InputOver => InputOver'
  PROVE  UnitInv'
<1>1. au \in UnitType /\ out \in Seq(Seq(Number))
      /\ (~collided => UnitsHeld(au, out, taken, InputOver))
  BY DEF UnitInv
<1>2. ~collided' => UnitsHeld(au, out, taken, InputOver')
  BY <1>1, UnitsWeaken
<1> QED
  BY <1>1, <1>2, UnitInvNext

LEMMA ConsumeReadyUnits ==
  ASSUME UnitInv, ConsumeReady
  PROVE  UnitInv'
<1> DEFINE u == Head(au.ready)
           s == Tail(au.ready)
<1>1. /\ au.ready # <<>> /\ out' = Append(out, u) /\ au' = [au EXCEPT !.ready = s]
      /\ kind' = kind /\ taken' = taken /\ collided' = collided /\ InputOver' = InputOver
  BY DEF ConsumeReady, wireVars, ringVars, InputOver
<1>2. au \in UnitType /\ out \in Seq(Seq(Number)) /\ au.ready \in Seq(Seq(Number))
  BY DEF UnitInv, UnitType
<1>3. u \in Seq(Number) /\ s \in Seq(Seq(Number)) /\ 1 \in DOMAIN au.ready /\ u = au.ready[1]
      /\ \A i \in DOMAIN s : i + 1 \in DOMAIN au.ready /\ s[i] = au.ready[i + 1]
  <2> DEFINE r == au.ready
  <2>1. r \in Seq(Seq(Number)) /\ r # <<>>
    BY <1>1, <1>2
  <2> HIDE DEF r
  <2>2. /\ Head(r) \in Seq(Number) /\ Tail(r) \in Seq(Seq(Number)) /\ 1 \in DOMAIN r
        /\ Head(r) = r[1]
    BY <2>1
  <2>3. \A i \in DOMAIN Tail(r) : i + 1 \in DOMAIN r /\ Tail(r)[i] = r[i + 1]
    BY <2>1
  <2> QED
    BY <2>2, <2>3 DEF r
<1> HIDE DEF u, s
<1>4. /\ au' \in UnitType /\ au'.ready = s /\ au'.buf = au.buf /\ au'.ts = au.ts
      /\ au'.fu = au.fu
  BY <1>1, <1>2, <1>3 DEF UnitType
<1>5. out' \in Seq(Seq(Number))
  BY <1>1, <1>2, <1>3
<1>6. ASSUME ~collided, NEW e, UnitsHeld(au, out, taken, e)
      PROVE  UnitsHeld(au', out', taken, e)
  <2>1. AllSealed(au.ready, taken, e) /\ AllSealed(out, taken, e)
    BY <1>6 DEF UnitsHeld
  <2>2. AllSealed(s, taken, e) /\ Sealed(u, taken, e)
    BY <1>3, <2>1 DEF AllSealed
  <2>3. AllSealed(out', taken, e)
    BY <1>1, <1>2, <1>3, <2>1, <2>2, AppendSealed
  <2>4. kind # "Audio" /\ taken # <<>> => Processed(au', taken, Last(taken))
    BY <1>4, <1>6 DEF UnitsHeld, Processed
  <2> QED
    BY <1>4, <1>6, <2>2, <2>3, <2>4 DEF UnitsHeld
<1>7. ~collided' => UnitsHeld(au', out', taken', InputOver')
  BY <1>1, <1>6 DEF UnitInv
<1> QED
  BY <1>1, <1>4, <1>5, <1>7, UnitInvNext

LEMMA TakeUnits ==
  ASSUME RingInv, UnitInv, NEW i, NEW lost \in BOOLEAN, Takes(i, lost), Take(i, lost)
  PROVE  UnitInv'
<1> DEFINE n == queue[i]
           a == process_packet(n, lost)
           ended == closed /\ channel = <<>> /\ count - 1 = 0 /\ a.ready = <<>>
<1>1. /\ au' = IF ended THEN finish_access_unit(a) ELSE a
      /\ taken' = Append(taken, n) /\ count' = count - 1
      /\ kind' = kind /\ closed' = closed /\ channel' = channel /\ out' = out
      /\ collided' = collided
  BY DEF Take, Process, wireVars
<1>2. /\ i \in Slots /\ queue[i] # 0 /\ kind \in Kinds /\ taken \in Seq(Number)
      /\ au \in UnitType /\ out \in Seq(Seq(Number)) /\ count \in Nat
  BY RingNat DEF Takes, RingInv, ReaderType, UnitInv
<1>3. n \in Number
  BY <1>2, RingNat
<1>4. ~InputOver
  <2>1. count = Cardinality(Used(queue))
    BY DEF RingInv, ReaderType, RingTyped
  <2>2. count # 0
    BY <1>2, <2>1, UsedEmpty
  <2> QED
    BY <2>2 DEF InputOver
<1>5. a \in UnitType
  BY <1>2, <1>3, ProcessPacket
<1>6. ended => InputOver'
  BY <1>1 DEF InputOver
<1>7. ASSUME ~collided, NEW e PROVE UnitsHeld(a, out, Append(taken, n), e)
  <2>1. ~lost /\ taken # <<>> => n = Last(taken) + 1
    BY <1>7 DEF Takes
  <2>2. taken # <<>> => Last(taken) < n
    BY <1>2, <1>7 DEF RingInv, RingOrder, Expects, AfterLast
  <2>3. UnitsHeld(au, out, taken, FALSE)
    <3>1. UnitsHeld(au, out, taken, InputOver)
      BY <1>7 DEF UnitInv
    <3>2. InputOver = FALSE
      BY <1>4 DEF InputOver
    <3> QED
      BY <3>1, <3>2
  <2> QED
    BY <1>2, <1>3, <2>1, <2>2, <2>3, ProcessHeld
<1>8. Append(taken, n) \in Seq(Number)
  BY <1>2, <1>3
<1> HIDE DEF a, n, ended
<1>9. CASE ended
  <2>1. au' = finish_access_unit(a)
    BY <1>1, <1>9
  <2>2. au' \in UnitType
    BY <1>5, <2>1, Finish
  <2>3. ASSUME ~collided PROVE UnitsHeld(au', out', taken', InputOver')
    <3>1. UnitsHeld(a, out, Append(taken, n), TRUE)
      BY <1>7, <2>3
    <3>2. UnitsHeld(finish_access_unit(a), out, Append(taken, n), TRUE)
      BY <1>5, <1>8, <3>1, FinishHeld
    <3>3. InputOver' = TRUE
      BY <1>6, <1>9 DEF InputOver
    <3> QED
      BY <1>1, <2>1, <3>2, <3>3
  <2> QED
    BY <1>1, <1>2, <2>2, <2>3, UnitInvNext
<1>10. CASE ~ended
  <2>1. au' = a
    BY <1>1, <1>10
  <2>2. ~collided => UnitsHeld(au', out', taken', InputOver')
    BY <1>1, <1>7, <2>1
  <2> QED
    BY <1>1, <1>2, <1>5, <2>1, <2>2, UnitInvNext
<1> QED
  BY <1>9, <1>10

LEMMA EndOfInputUnits ==
  ASSUME RingInv, UnitInv, EndOfInput
  PROVE  UnitInv'
<1>1. /\ au' = finish_access_unit(au) /\ kind' = kind /\ out' = out /\ taken' = taken
      /\ collided' = collided /\ InputOver /\ InputOver' = InputOver
  BY DEF EndOfInput, InputClosed, InputOver, wireVars, ringVars
<1>2. au \in UnitType /\ out \in Seq(Seq(Number)) /\ taken \in Seq(Number)
  BY DEF UnitInv, RingInv, ReaderType
<1>3. InputOver = TRUE
  BY <1>1 DEF InputOver
<1>4. au' \in UnitType
  BY <1>1, <1>2, Finish
<1>5. ASSUME ~collided PROVE UnitsHeld(au', out', taken', InputOver')
  <2>1. UnitsHeld(au, out, taken, TRUE)
    BY <1>3, <1>5 DEF UnitInv
  <2>2. UnitsHeld(finish_access_unit(au), out, taken, TRUE)
    BY <1>2, <2>1, FinishHeld
  <2> QED
    BY <1>1, <1>3, <2>2
<1> QED
  BY <1>1, <1>2, <1>4, <1>5, UnitInvNext

LEMMA UnitInvStep ==
  ASSUME RingInv, UnitInv, [Next]_vars
  PROVE  UnitInv'
<1>0. collided \in BOOLEAN
  BY DEF RingInv, ReaderType
<1>1. ASSUME NEW n \in Number, Datagram(n) PROVE UnitInv'
  BY <1>1, UnitUntouched DEF Datagram, ringVars, InputOver
<1>2. ASSUME NEW k \in 1 .. MaxChunk, FeedTcp(k) PROVE UnitInv'
  <2>1. /\ kind' = kind /\ ~closed /\ taken' = taken /\ out' = out /\ au' = au
        /\ collided' = collided
    BY <1>2 DEF FeedTcp, ringVars
  <2> QED
    BY <2>1, UnitUntouched DEF InputOver
<1>3. CASE Close
  BY <1>3, UnitUntouched DEF Close, ringVars, InputOver
<1>4. CASE CalculateIndex
  <2>1. /\ kind' = kind /\ closed' = closed /\ taken' = taken /\ out' = out /\ au' = au
        /\ (channel = <<>> => channel' = channel /\ count' = count /\ collided' = collided)
    BY <1>4 DEF CalculateIndex, ringVars
  <2>2. collided => collided'
    BY <1>4, <2>1 DEF CalculateIndex, enqueue_initial, ringVars
  <2> QED
    BY <2>1, <2>2, UnitUntouched DEF InputOver
<1>5. CASE IndexCalculated
  BY <1>5, UnitUntouched DEF IndexCalculated, ringVars, wireVars, InputOver
<1>6. CASE ConsumeReady
  BY <1>6, ConsumeReadyUnits
<1>7. CASE ReducePacket
  <2>1. collided => collided'
    BY <1>7 DEF ReducePacket, enqueue, ringVars
  <2> QED
    BY <1>7, <2>1, UnitUntouched DEF ReducePacket, InputOver
<1>8. CASE TakeExpected \/ GapFilled \/ GapEnds \/ TakeLater
  <2>1. PICK i \in Slots, lost \in BOOLEAN : Takes(i, lost) /\ Take(i, lost)
    BY <1>8, Taking
  <2> QED
    BY <2>1, TakeUnits
<1>9. CASE GapBegins
  BY <1>9, UnitUntouched DEF GapBegins, ringVars, wireVars, InputOver
<1>10. CASE GapReceives
  <2>1. collided => collided'
    BY <1>10 DEF GapReceives, enqueue, ringVars
  <2> QED
    BY <1>10, <2>1, UnitUntouched DEF GapReceives, InputOver
<1>11. CASE EndOfInput
  BY <1>11, EndOfInputUnits
<1>12. CASE UNCHANGED vars
  BY <1>12, UnitUntouched DEF vars, ringVars, wireVars, InputOver
<1> QED
  BY <1>1, <1>2, <1>3, <1>4, <1>5, <1>6, <1>7, <1>8, <1>9, <1>10, <1>11, <1>12
     DEF Next, Reader

(***************************************************************************)
(* The types, the count of the ring among them.                            *)
(***************************************************************************)
Arrivals == arrived \subseteq Number /\ repeated \subseteq arrived

LEMMA ArrivalsStep ==
  ASSUME Arrivals, PacketsOnly', [Next]_vars
  PROVE  Arrivals'
<1>1. CASE kind' = kind /\ arrived' = arrived /\ repeated' = repeated
  BY <1>1 DEF Arrivals, Number
<1>2. ASSUME NEW n \in Number, Datagram(n) PROVE Arrivals'
  BY <1>2 DEF Arrivals, Datagram, Number
<1>3. ASSUME NEW k \in 1 .. MaxChunk, FeedTcp(k) PROVE Arrivals'
  <2>1. kind' = kind /\ repeated' = repeated /\ arrived' = arrived \cup Range(channel')
    BY <1>3 DEF FeedTcp
  <2>2. channel' \in Seq(Number')
    BY DEF PacketsOnly
  <2>3. Range(channel') \subseteq Number'
    BY <2>2 DEF Range
  <2>4. Number' = Number
    BY <2>1 DEF Number
  <2> QED
    BY <2>1, <2>3, <2>4 DEF Arrivals
<1>4. CASE Close
  BY <1>1, <1>4 DEF Close
<1>5. CASE Reader
  <2>1. kind' = kind /\ arrived' = arrived /\ repeated' = repeated
    BY <1>5 DEF Reader, CalculateIndex, IndexCalculated, ConsumeReady, ReducePacket,
       TakeExpected, GapBegins, GapReceives, GapFilled, GapEnds, TakeLater, EndOfInput,
       TakeFirstAvailable, Take, Process, wireVars
  <2> QED
    BY <1>1, <2>1
<1>6. CASE UNCHANGED vars
  BY <1>1, <1>6 DEF vars, wireVars
<1> QED
  BY <1>2, <1>3, <1>4, <1>5, <1>6 DEF Next

LEMMA AllTypes == RingInv /\ UnitInv /\ Arrivals /\ PacketsOnly => TypeOK
<1>1. SUFFICES ASSUME RingInv, UnitInv, Arrivals, PacketsOnly PROVE TypeOK
  OBVIOUS
<1>2. /\ kind \in Kinds /\ at \in {"init", "call", "gap", "ended", "failed"}
      /\ closed \in BOOLEAN /\ collided \in BOOLEAN /\ taken \in Seq(Number)
      /\ first \in 0 .. SeqRange - 1 /\ queue \in [Slots -> Number \cup {0}]
  BY <1>1 DEF RingInv, ReaderType, RingTyped
<1>3. count = Cardinality({i \in Slots : queue[i] # 0})
  BY <1>1 DEF RingInv, ReaderType, RingTyped, Used
<1>4. au.waitKey \in BOOLEAN /\ au.damaged \in BOOLEAN /\ au.buf \in Seq(Number)
  BY <1>1 DEF UnitInv, UnitType
<1>5. arrived \subseteq Number /\ repeated \subseteq arrived /\ channel \in Seq(Number)
  BY <1>1 DEF Arrivals, PacketsOnly
<1> QED
  BY <1>2, <1>3, <1>4, <1>5 DEF TypeOK

LEMMA UnitsWhole == UnitInv => AccessUnitWhole
<1>1. SUFFICES ASSUME UnitInv, ~collided, NEW i \in DOMAIN out
               PROVE  /\ \A j \in DOMAIN out[i] : Packet(out[i][j]).frame = FrameOf(out[i])
                      /\ kind # "Audio" => \A n \in Number :
                            n > out[i][1] /\ Packet(n).frame = FrameOf(out[i]) => ~LostBefore(n)
  BY DEF AccessUnitWhole
<1> DEFINE u == out[i]
<1>2. Sealed(u, taken, InputOver)
  BY <1>1 DEF UnitInv, UnitsHeld, AllSealed
<1>3. \A j \in DOMAIN u : Packet(u[j]).frame = FrameOf(u)
  BY <1>2 DEF Sealed, OfFrame
<1>4. ASSUME kind # "Audio", NEW n \in Number, n > u[1], Packet(n).frame = FrameOf(u),
             LostBefore(n)
      PROVE  FALSE
  <2>1. n \notin Range(taken) /\ n < Last(taken)
    BY <1>4 DEF LostBefore
  <2>2. u[1] < n
    BY <1>4
  <2> QED
    BY <1>2, <1>4, <2>1, <2>2 DEF Sealed
<1> QED
  BY <1>3, <1>4

(***************************************************************************)
(* The type invariant, on whatever transport: with it, queue_count is the  *)
(* number of slots in use.                                                 *)
(***************************************************************************)
THEOREM ReceptionTypes == Spec => []TypeOK
<1>1. Init => RingInv /\ UnitInv /\ Arrivals
  BY RingInvInit, UnitInvInit DEF Init, Arrivals
<1>2. RingInv /\ UnitInv /\ Arrivals /\ PacketsOnly /\ PacketsOnly' /\ [Next]_vars
        => RingInv' /\ UnitInv' /\ Arrivals'
  BY RingInvStep, UnitInvStep, ArrivalsStep
<1> QED
  BY <1>1, <1>2, AllTypes, ChannelPackets, PTL DEF Spec

(***************************************************************************)
(* A loss in the middle or at the tail of a frame drops its access unit: a *)
(* unit that reaches the demuxer is of one frame, and from its first       *)
(* packet to the end of the frame nothing was lost.                        *)
(***************************************************************************)
THEOREM AccessUnitsWhole == Spec => []AccessUnitWhole
<1>1. Init => RingInv /\ UnitInv
  BY RingInvInit, UnitInvInit
<1>2. RingInv /\ UnitInv /\ PacketsOnly /\ [Next]_vars => RingInv' /\ UnitInv'
  BY RingInvStep, UnitInvStep
<1> QED
  BY <1>1, <1>2, UnitsWhole, ChannelPackets, PTL DEF Spec

(***************************************************************************)
(* Key frames.  A frame is broken when it is one fragmented NAL unit whose *)
(* start came and of which a later fragment did not.                       *)
(***************************************************************************)
OneStart(f, s) ==
    /\ s \in Number /\ Packet(s).part = "start" /\ Packet(s).frame = f
    /\ \A m \in Number : Packet(m).frame = f =>
          /\ Packet(m).part \in {"start", "mid", "end"}
          /\ m # s => Packet(m).part # "start"

LostIn(p, t) == p \notin Range(t) /\ t # <<>> /\ p < Last(t)

BrokenIn(f, t) ==
    \E s \in Number :
        /\ OneStart(f, s) /\ s \in Range(t)
        /\ \E p \in Number : Packet(p).frame = f /\ LostIn(p, t)

BrokenAfter(f, t) ==
    \E n \in Number : f < Packet(n).frame /\ BrokenIn(Packet(n).frame, t)

LEMMA FirstIsStart ==
  ASSUME kind \in Kinds, kind # "Audio", NEW f, NEW s, OneStart(f, s),
         NEW p \in Number, Packet(p).frame = f
  PROVE  s <= p
<1> DEFINE S == {m \in Number : Packet(m).frame = f}
<1>1. S \in SUBSET Nat /\ S # {}
  BY NumberType
<1>2. PICK m \in S : \A k \in S : m <= k
  BY <1>1, Least
<1>3. m \in Number /\ Packet(m).frame = f /\ m \in Nat
  BY <1>1, <1>2
<1>4. Packet(m).part \notin {"mid", "end"}
  <2>1. SUFFICES ASSUME Packet(m).part \in {"mid", "end"} PROVE FALSE
    OBVIOUS
  <2>2. m - 1 \in Number /\ Packet(m - 1).frame = f
    BY <1>3, <2>1, SentFragment
  <2>3. m <= m - 1
    BY <1>2, <2>2
  <2> QED
    BY <1>3, <2>3
<1>5. m = s
  BY <1>3, <1>4 DEF OneStart
<1> QED
  BY <1>2, <1>5

\* Within such a frame a fragment that is not the last has another after it.
LEMMA FragmentsFollow ==
  ASSUME kind \in Kinds, kind # "Audio", NEW f, NEW s, OneStart(f, s),
         NEW q \in Number, NEW p \in Number, Packet(q).frame = f, Packet(p).frame = f, q < p
  PROVE  Packet(q).part \in {"start", "mid"}
<1>1. q \in Nat /\ p \in Nat /\ s <= q /\ s \in Nat
  BY NumberType, FirstIsStart DEF OneStart
<1> DEFINE m == q + 1
<1>2. m \in Number
  BY <1>1 DEF Number
<1>3. m - 1 = q /\ m # s /\ q < m /\ (m = p \/ m < p)
  BY <1>1
<1> HIDE DEF m
<1>4. Packet(m).frame = f
  <2>1. Packet(q).frame <= Packet(m).frame
    BY <1>2, <1>3, SentInOrder
  <2>2. m < p => Packet(m).frame <= Packet(p).frame
    BY <1>2, SentInOrder
  <2>3. Packet(m).frame \in Nat /\ f \in Nat
    BY <1>2, FrameType
  <2> QED
    BY <1>3, <2>1, <2>2, <2>3
<1>5. Packet(m).part \in {"mid", "end"}
  BY <1>2, <1>3, <1>4 DEF OneStart
<1> QED
  BY <1>2, <1>3, <1>5, SentFragment

LEMMA UpToLast ==
  ASSUME NEW t \in Seq(Number), Increasing(t), NEW m \in Range(t)
  PROVE  m \in Number /\ t # <<>> /\ m <= Last(t)
<1>1. PICK i \in DOMAIN t : m = t[i]
  BY DEF Range
<1>2. i \in 1 .. Len(t) /\ Len(t) \in Nat /\ t[i] \in Number /\ t[Len(t)] \in Number
  BY <1>1
<1>3. i = Len(t) \/ t[i] < t[Len(t)]
  BY <1>2 DEF Increasing
<1>4. t[i] <= t[Len(t)]
  <2>1. t[i] \in Nat /\ t[Len(t)] \in Nat
    BY <1>2, NumberType
  <2> QED
    BY <1>3, <2>1
<1>5. Last(t) = t[Len(t)] /\ t # <<>>
  BY <1>2 DEF Last
<1> QED
  BY <1>1, <1>2, <1>4, <1>5

\* Of the frames before the last packet's a later packet breaks none.
LEMMA BrokenEarlier ==
  ASSUME kind \in Kinds, kind # "Audio", NEW t \in Seq(Number), t # <<>>,
         NEW n \in Number, Last(t) < n, NEW f, f < Packet(Last(t)).frame,
         BrokenIn(f, Append(t, n))
  PROVE  BrokenIn(f, t)
<1> DEFINE l == Last(t)
           r == Append(t, n)
<1>1. l \in Number /\ Range(r) = Range(t) \cup {n} /\ Last(r) = n
  BY LastContig, AppendRange, AppendLast
<1> HIDE DEF l, r
<1>2. PICK s \in Number, p \in Number :
        /\ OneStart(f, s) /\ s \in Range(r)
        /\ Packet(p).frame = f /\ p \notin Range(r)
  BY DEF BrokenIn, LostIn, r
<1>3. Packet(l).frame \in Nat /\ f \in Nat /\ Packet(n).frame \in Nat
      /\ Packet(l).frame <= Packet(n).frame /\ f < Packet(l).frame /\ Packet(s).frame = f
  BY <1>1, <1>2, FrameType, SentInOrder DEF OneStart, l
<1>4. s \in Range(t)
  <2>1. s # n
    BY <1>3
  <2> QED
    BY <1>1, <1>2, <2>1
<1>5. p < l
  <2>1. p # l
    BY <1>2, <1>3
  <2>2. ~ (l < p)
    <3>1. SUFFICES ASSUME l < p PROVE FALSE
      OBVIOUS
    <3>2. Packet(l).frame <= Packet(p).frame
      BY <1>1, <3>1, SentInOrder
    <3> QED
      BY <1>2, <1>3, <3>2
  <2>3. p \in Nat /\ l \in Nat
    BY <1>1, NumberType
  <2> QED
    BY <2>1, <2>2, <2>3
<1>6. LostIn(p, t)
  BY <1>1, <1>2, <1>5 DEF LostIn, l
<1> QED
  BY <1>2, <1>4, <1>6 DEF BrokenIn

\* A frame is broken by a loss right after a fragment of it, all that came
\* before being there.
LEMMA NewlyBroken ==
  ASSUME kind \in Kinds, kind # "Audio", NEW t \in Seq(Number), Increasing(t),
         NEW n \in Number, t # <<>> => Last(t) < n, NEW f,
         BrokenIn(f, Append(t, n)), ~BrokenIn(f, t)
  PROVE  /\ t # <<>> /\ n # Last(t) + 1
         /\ Packet(Last(t)).frame = f /\ Packet(Last(t)).part \in {"start", "mid"}
         /\ \E s \in Number : OneStart(f, s) /\ Contig(s, t)
<1> DEFINE l == Last(t)
           r == Append(t, n)
<1>1. Range(r) = Range(t) \cup {n} /\ Last(r) = n
  BY AppendRange, AppendLast
<1> HIDE DEF r
<1>2. PICK s \in Number, p \in Number :
        /\ OneStart(f, s) /\ s \in Range(r)
        /\ Packet(p).frame = f /\ p \notin Range(r) /\ p < n
  BY <1>1 DEF BrokenIn, LostIn, r
<1>3. s \in Nat /\ p \in Nat /\ n \in Nat /\ s <= p /\ s # p
  BY <1>2, NumberType, FirstIsStart
<1>4. s \in Range(t)
  BY <1>1, <1>2, <1>3
<1>5. t # <<>> /\ s <= l
  BY <1>4, UpToLast
<1>6. l \in Number /\ l \in Range(t) /\ l \in Nat
  BY <1>5, LastContig, NumberType
<1> HIDE DEF l
<1>7. \A m \in Number : Packet(m).frame = f /\ m < l => m \in Range(t)
  BY <1>2, <1>4, <1>5 DEF BrokenIn, LostIn, l
<1>8. l < p
  BY <1>1, <1>2, <1>3, <1>6, <1>7
<1>9. Packet(s).frame = f /\ f \in Nat
  BY <1>2, FrameType DEF OneStart
<1>10. ASSUME NEW m \in Number, s <= m, m <= l PROVE Packet(m).frame = f
  <2>1. m \in Nat /\ Packet(m).frame \in Nat
    BY NumberType, FrameType
  <2>2. m < p
    BY <1>3, <1>6, <1>8, <1>10, <2>1
  <2>3. Packet(m).frame <= f
    BY <1>2, <2>2, SentInOrder
  <2>4. s = m \/ s < m
    BY <1>3, <1>10, <2>1
  <2>5. s < m => f <= Packet(m).frame
    BY <1>9, SentInOrder
  <2> QED
    BY <1>9, <2>1, <2>3, <2>4, <2>5
<1>11. Packet(l).frame = f
  BY <1>5, <1>6, <1>10
<1>12. Packet(l).part \in {"start", "mid"}
  BY <1>2, <1>6, <1>8, <1>11, FragmentsFollow
<1>13. Contig(s, t)
  <2>1. ASSUME NEW m \in Number, s <= m, m <= l PROVE m \in Range(t)
    <3>1. Packet(m).frame = f
      BY <1>10, <2>1
    <3>2. m = l \/ m < l
      BY <1>6, <2>1, NumberType
    <3> QED
      BY <1>6, <1>7, <3>1, <3>2
  <2> QED
    BY <1>5, <2>1 DEF Contig, l
<1>14. n # l + 1
  BY <1>2, <1>3, <1>6, <1>8
<1> QED
  BY <1>2, <1>5, <1>11, <1>12, <1>13, <1>14 DEF l

(***************************************************************************)
(* The units u, those given to the demuxer and those that wait.  Before    *)
(* each there is a key frame with no broken frame between the two; while   *)
(* the reader does not wait for a key frame, one with none after it.       *)
(***************************************************************************)
Keyed(u, i, t) ==
    \E j \in 1 .. i :
        /\ HasKey(u[j])
        /\ \A n \in Number : FrameOf(u[j]) < Packet(n).frame /\ Packet(n).frame < FrameOf(u[i])
              => ~BrokenIn(Packet(n).frame, t)

AllKeyed(u, t) == \A i \in DOMAIN u : Keyed(u, i, t)

Fresh(u, t) == \E j \in DOMAIN u : HasKey(u[j]) /\ ~BrokenAfter(FrameOf(u[j]), t)

Keys(a, u, t) == AllKeyed(u, t) /\ (~a.waitKey => Fresh(u, t))

LEMMA KeyedExtend ==
  ASSUME kind \in Kinds, kind # "Audio", NEW t \in Seq(Number),
         NEW n \in Number, t # <<>> => Last(t) < n,
         NEW u, AllSealed(u, t, FALSE), AllKeyed(u, t)
  PROVE  AllKeyed(u, Append(t, n))
<1> SUFFICES ASSUME NEW i \in DOMAIN u PROVE Keyed(u, i, Append(t, n))
  BY DEF AllKeyed
<1>1. t # <<>> /\ u[i][1] \in Number /\ u[i][1] <= Last(t)
  BY DEF AllSealed, Sealed
<1> DEFINE l == Last(t)
           x == u[i][1]
<1>2. l \in Number /\ l \in Nat /\ x \in Number /\ x \in Nat /\ x <= l
  BY <1>1, LastContig, NumberType
<1> HIDE DEF l, x
<1>3. FrameOf(u[i]) <= Packet(l).frame /\ FrameOf(u[i]) \in Nat /\ Packet(l).frame \in Nat
  <2>1. x < l => Packet(x).frame <= Packet(l).frame
    BY <1>2, SentInOrder
  <2>2. Packet(x).frame \in Nat /\ Packet(l).frame \in Nat
    BY <1>2, FrameType
  <2>3. Packet(x).frame <= Packet(l).frame
    BY <1>2, <2>1, <2>2
  <2> QED
    BY <2>2, <2>3 DEF FrameOf, x
<1>4. PICK j \in 1 .. i : /\ HasKey(u[j])
        /\ \A m \in Number : FrameOf(u[j]) < Packet(m).frame /\ Packet(m).frame < FrameOf(u[i])
              => ~BrokenIn(Packet(m).frame, t)
  BY DEF AllKeyed, Keyed
<1>5. ASSUME NEW m \in Number, FrameOf(u[j]) < Packet(m).frame,
             Packet(m).frame < FrameOf(u[i]), BrokenIn(Packet(m).frame, Append(t, n))
      PROVE  FALSE
  <2>1. Packet(m).frame \in Nat
    BY FrameType
  <2>2. Packet(m).frame < Packet(Last(t)).frame
    BY <1>3, <1>5, <2>1 DEF l
  <2>3. BrokenIn(Packet(m).frame, t)
    BY <1>1, <1>5, <2>2, BrokenEarlier
  <2> QED
    BY <1>4, <1>5, <2>3
<1> QED
  BY <1>4, <1>5 DEF Keyed

LEMMA FreshExtend ==
  ASSUME kind \in Kinds, kind # "Audio", NEW t \in Seq(Number), Increasing(t),
         NEW n \in Number, t # <<>> => Last(t) < n,
         NEW u, Fresh(u, t), ~Fresh(u, Append(t, n))
  PROVE  /\ t # <<>> /\ n # Last(t) + 1
         /\ Packet(Last(t)).part \in {"start", "mid"}
         /\ \E s \in Number : OneStart(Packet(Last(t)).frame, s) /\ Contig(s, t)
<1>1. PICK j \in DOMAIN u : HasKey(u[j]) /\ ~BrokenAfter(FrameOf(u[j]), t)
  BY DEF Fresh
<1>2. BrokenAfter(FrameOf(u[j]), Append(t, n))
  BY <1>1 DEF Fresh
<1>3. PICK m \in Number : /\ FrameOf(u[j]) < Packet(m).frame
                          /\ BrokenIn(Packet(m).frame, Append(t, n))
  BY <1>2 DEF BrokenAfter
<1> DEFINE f == Packet(m).frame
<1>4. BrokenIn(f, Append(t, n)) /\ ~BrokenIn(f, t)
  BY <1>1, <1>3 DEF BrokenAfter
<1> HIDE DEF f
<1>5. /\ t # <<>> /\ n # Last(t) + 1
      /\ Packet(Last(t)).frame = f /\ Packet(Last(t)).part \in {"start", "mid"}
      /\ \E s \in Number : OneStart(f, s) /\ Contig(s, t)
  BY <1>4, NewlyBroken
<1> QED
  BY <1>5

\* What is known of the unit under way and of the fragment after a packet.
OpenHeld(a, t) ==
    /\ a.buf # <<>> =>
          /\ a.ts = Packet(Last(t)).frame /\ ~Packet(Last(t)).marker
          /\ \E q \in Number : /\ q <= Last(t) /\ Packet(q).frame = a.ts
                               /\ Packet(q).part \in {"whole", "end"}
    /\ Packet(Last(t)).part \in {"start", "mid"} => \A s \in Number :
          OneStart(Packet(Last(t)).frame, s) /\ Contig(s, t) => a.fu # <<>>

\* And before the packet n is processed.
OpenReady(a, t, n) ==
    /\ a.buf # <<>> =>
          /\ a.ts = Packet(n).frame
          /\ \E q \in Number : /\ q <= n /\ Packet(q).frame = a.ts
                               /\ Packet(q).part \in {"whole", "end"}
    /\ Packet(n).part = "mid" => \A s \in Number :
          OneStart(Packet(n).frame, s) /\ Contig(s, t) => a.fu # <<>>

\* In the middle of a frame of one fragmented unit nothing is under way but
\* the fragment.
LEMMA NoOpenUnit ==
  ASSUME kind \in Kinds, kind # "Audio", NEW t \in Seq(Number), t # <<>>,
         Packet(Last(t)).part \in {"start", "mid"}, NEW s, OneStart(Packet(Last(t)).frame, s),
         NEW a, OpenHeld(a, t)
  PROVE  a.buf = <<>>
<1> SUFFICES ASSUME a.buf # <<>> PROVE FALSE
  OBVIOUS
<1> DEFINE l == Last(t)
<1>1. l \in Number
  BY LastContig
<1> HIDE DEF l
<1>2. PICK q \in Number : /\ q <= l /\ Packet(q).frame = Packet(l).frame
                          /\ Packet(q).part \in {"whole", "end"}
  BY DEF OpenHeld, l
<1>3. q # l
  BY <1>2 DEF l
<1>4. q < l
  <2>1. q \in Nat /\ l \in Nat
    BY <1>1, NumberType
  <2> QED
    BY <1>2, <1>3, <2>1
<1>5. OneStart(Packet(l).frame, s)
  BY DEF l
<1>6. Packet(q).part \in {"start", "mid"}
  BY <1>1, <1>2, <1>4, <1>5, FragmentsFollow
<1> QED
  BY <1>2, <1>6

LEMMA FrameGoesOn ==
  ASSUME kind = "RawVideo", kind \in Kinds, NEW l \in Number, ~Packet(l).marker
  PROVE  l + 1 \in Number /\ Packet(l + 1).frame = Packet(l).frame
<1>1. Streams[kind] \in Seq(PacketType)
  BY ReceptionAssumption
<1>2. Number = DOMAIN Streams[kind]
  BY <1>1 DEF Number
<1>3. LET s == Streams["RawVideo"]
      IN  s[l].marker \/ (l + 1 \in DOMAIN s /\ s[l + 1].frame = s[l].frame)
  BY <1>2, MarkerAssumption
<1> QED
  BY <1>2, <1>3 DEF Packet

\* A loss that breaks a frame makes the reader wait for a key frame.
LEMMA ToldKeys ==
  ASSUME kind = "RawVideo", kind \in Kinds, au \in UnitType, taken \in Seq(Number),
         Increasing(taken), NEW n \in Number, NEW lost \in BOOLEAN,
         taken # <<>> => Last(taken) < n /\ (lost <=> n # Last(taken) + 1),
         taken = <<>> => au.buf = <<>>, taken # <<>> => OpenHeld(au, taken),
         NEW u, AllSealed(u, taken, FALSE), Keys(au, u, taken)
  PROVE  Keys(Told(n, lost), u, Append(taken, n)) /\ OpenReady(Told(n, lost), Append(taken, n), n)
<1> DEFINE a == Told(n, lost)
           f == Packet(n).frame
           t == Append(taken, n)
           l == Last(taken)
<1>1. f \in Nat /\ n \in Nat
  BY FrameType, NumberType
<1>2. lost => a = mark_packet_loss(au, f)
  BY DEF Told
<1>3. ~lost => a = au
  BY DEF Told
<1> HIDE DEF a
<1>4. lost => Marked(au, f, a)
  BY <1>1, <1>2, Mark
<1>5. AllKeyed(u, t)
  BY KeyedExtend DEF Keys
<1>6. taken # <<>> => l \in Number /\ l \in Nat
  BY LastContig, NumberType
<1>7. ASSUME ~a.waitKey, ~Fresh(u, t) PROVE FALSE
  <2>1. ~au.waitKey
    BY <1>3, <1>4, <1>7 DEF Marked
  <2>2. Fresh(u, taken)
    BY <2>1 DEF Keys
  <2>3. /\ taken # <<>> /\ n # l + 1 /\ Packet(l).part \in {"start", "mid"}
        /\ \E s \in Number : OneStart(Packet(l).frame, s) /\ Contig(s, taken)
    BY <1>7, <2>2, FreshExtend
  <2>4. PICK s \in Number : OneStart(Packet(l).frame, s) /\ Contig(s, taken)
    BY <2>3
  <2>5. au.buf = <<>>
    BY <2>3, <2>4, NoOpenUnit
  <2>6. au.fu # <<>>
    BY <2>3, <2>4 DEF OpenHeld
  <2>7. a.waitKey
    BY <1>4, <2>3, <2>5, <2>6 DEF Marked, Raw
  <2> QED
    BY <1>7, <2>7
<1>8. ASSUME a.buf # <<>>
      PROVE  /\ a.ts = f
             /\ \E q \in Number : /\ q <= n /\ Packet(q).frame = a.ts
                                  /\ Packet(q).part \in {"whole", "end"}
  <2>1. ~lost /\ a = au
    BY <1>3, <1>4, <1>8 DEF Marked
  <2>2. taken # <<>> /\ n = l + 1
    BY <1>8, <2>1
  <2>3. au.ts = Packet(l).frame /\ ~Packet(l).marker
        /\ \E q \in Number : /\ q <= l /\ Packet(q).frame = au.ts
                             /\ Packet(q).part \in {"whole", "end"}
    BY <1>8, <2>1, <2>2 DEF OpenHeld
  <2>4. Packet(l + 1).frame = Packet(l).frame
    BY <1>6, <2>2, <2>3, FrameGoesOn
  <2>5. PICK q \in Number : /\ q <= l /\ Packet(q).frame = au.ts
                            /\ Packet(q).part \in {"whole", "end"}
    BY <2>3
  <2>6. q <= n
    BY <1>1, <1>6, <2>2, <2>5, NumberType
  <2> QED
    BY <2>1, <2>2, <2>3, <2>4, <2>5, <2>6
<1>9. ASSUME Packet(n).part = "mid", NEW s \in Number, OneStart(f, s), Contig(s, t)
      PROVE  a.fu # <<>>
  <2> DEFINE p == n - 1
  <2>1. p \in Number /\ p \in Nat /\ Packet(p).part \in {"start", "mid"} /\ Packet(p).frame = f
    BY <1>9, SentFragment, NumberType
  <2>2. s \in Nat /\ s <= n /\ s # n
    BY <1>9, NumberType, AppendLast DEF Contig, OneStart
  <2>3. s <= p /\ p <= n /\ p # n
    BY <1>1, <2>2
  <2>4. \A m \in Number : s <= m /\ m <= n => m \in Range(taken) \/ m = n
    BY <1>9, AppendLast, AppendRange DEF Contig
  <2>5. p \in Range(taken)
    BY <2>1, <2>3, <2>4
  <2>6. taken # <<>> /\ p <= l
    BY <2>5, UpToLast
  <2>7. l = p /\ l \in Nat
    BY <1>1, <1>6, <2>6
  <2>8. ~lost
    BY <1>1, <2>6, <2>7
  <2> HIDE DEF p
  <2>9. Contig(s, taken)
    <3>1. ASSUME NEW m \in Number, s <= m, m <= p PROVE m \in Range(taken)
      <4>1. m \in Nat /\ m <= n /\ m # n
        BY <2>1, <3>1, <1>1, NumberType DEF p
      <4> QED
        BY <2>4, <3>1, <4>1
    <3> QED
      BY <2>3, <2>7, <3>1 DEF Contig
  <2>10. au.fu # <<>>
    BY <1>9, <2>1, <2>6, <2>7, <2>9 DEF OpenHeld
  <2> QED
    BY <1>3, <2>8, <2>10
<1> QED
  BY <1>5, <1>7, <1>8, <1>9 DEF Keys, OpenReady, a

LEMMA ConcatAppend ==
  ASSUME NEW S, NEW o \in Seq(S), NEW r \in Seq(S), NEW x \in S
  PROVE  o \o Append(r, x) = Append(o \o r, x) /\ o \o r \in Seq(S)
<1> DEFINE p == o \o Append(r, x)
           q == Append(o \o r, x)
<1>1. p \in Seq(S) /\ q \in Seq(S) /\ Len(p) = Len(o) + Len(r) + 1 /\ Len(q) = Len(p)
  OBVIOUS
<1>2. ASSUME NEW i \in 1 .. Len(p) PROVE p[i] = q[i]
  OBVIOUS
<1>3. p = q
  BY <1>1, <1>2, SeqEqual
<1> QED
  BY <1>3

LEMMA AppendKeyed ==
  ASSUME kind \in Kinds, NEW u \in Seq(Seq(Number)), NEW x \in Seq(Number), NEW t, AllKeyed(u, t),
         HasKey(x) \/ Fresh(u, t)
  PROVE  AllKeyed(Append(u, x), t) /\ (Fresh(u, t) => Fresh(Append(u, x), t))
<1> DEFINE v == Append(u, x)
           k == Len(u) + 1
<1>1. /\ DOMAIN v = 1 .. k /\ DOMAIN u = 1 .. Len(u) /\ Len(u) \in Nat
      /\ v[k] = x /\ \A i \in DOMAIN u : i \in DOMAIN v /\ v[i] = u[i]
  OBVIOUS
<1> HIDE DEF v
<1>2. Fresh(u, t) => Fresh(v, t)
  BY <1>1 DEF Fresh
<1>3. ASSUME NEW i \in DOMAIN u PROVE Keyed(v, i, t)
  <2>1. PICK j \in 1 .. i : /\ HasKey(u[j])
          /\ \A n \in Number : FrameOf(u[j]) < Packet(n).frame /\ Packet(n).frame < FrameOf(u[i])
                => ~BrokenIn(Packet(n).frame, t)
    BY DEF AllKeyed, Keyed
  <2>2. j \in DOMAIN u
    BY <1>1
  <2>3. v[j] = u[j] /\ v[i] = u[i]
    BY <1>1, <2>2
  <2> QED
    BY <2>1, <2>3 DEF Keyed
<1>4. Keyed(v, k, t)
  <2>1. CASE HasKey(x)
    <3>1. k \in 1 .. k /\ HasKey(v[k])
      BY <1>1, <2>1
    <3>2. \A n \in Number : ~(FrameOf(v[k]) < Packet(n).frame /\ Packet(n).frame < FrameOf(v[k]))
      <4>1. x[1] \in Number
        BY <2>1 DEF HasKey
      <4>2. FrameOf(v[k]) \in Nat
        BY <1>1, <4>1, FrameType DEF FrameOf
      <4>3. \A n \in Number : Packet(n).frame \in Nat
        BY FrameType
      <4> QED
        BY <4>2, <4>3
    <3> QED
      BY <3>1, <3>2 DEF Keyed
  <2>2. CASE Fresh(u, t)
    <3>1. PICK j \in DOMAIN u : HasKey(u[j]) /\ ~BrokenAfter(FrameOf(u[j]), t)
      BY <2>2 DEF Fresh
    <3>2. j \in 1 .. k /\ v[j] = u[j]
      BY <1>1
    <3> QED
      BY <3>1, <3>2 DEF Keyed, BrokenAfter
  <2> QED
    BY <2>1, <2>2
<1>5. \A i \in DOMAIN v : i \in DOMAIN u \/ i = k
  BY <1>1
<1>6. AllKeyed(v, t)
  BY <1>3, <1>4, <1>5 DEF AllKeyed
<1> QED
  BY <1>2, <1>6 DEF v

\* No frame after that of the last packet is broken.
LEMMA NoneAfterLast ==
  ASSUME kind \in Kinds, kind # "Audio", NEW t \in Seq(Number), t # <<>>
  PROVE  ~BrokenAfter(Packet(Last(t)).frame, t)
<1> DEFINE l == Last(t)
<1>1. l \in Number
  BY LastContig
<1> HIDE DEF l
<1>2. ASSUME NEW n \in Number, Packet(l).frame < Packet(n).frame, BrokenIn(Packet(n).frame, t)
      PROVE  FALSE
  <2>1. PICK p \in Number : Packet(p).frame = Packet(n).frame /\ p < l
    BY <1>2 DEF BrokenIn, LostIn, l
  <2>2. Packet(p).frame <= Packet(l).frame
    BY <1>1, <2>1, SentInOrder
  <2>3. Packet(p).frame \in Nat /\ Packet(l).frame \in Nat
    BY <1>1, FrameType
  <2> QED
    BY <1>2, <2>1, <2>2, <2>3
<1> QED
  BY <1>2 DEF BrokenAfter, l

\* finish_access_unit gives out a unit that has a key or comes while none is
\* waited for.
LEMMA FinishKeys ==
  ASSUME kind \in Kinds, NEW o \in Seq(Seq(Number)), NEW a \in UnitType, NEW b, Finished(a, b),
         NEW t, Keys(a, o \o a.ready, t), a.buf # <<>> => ~BrokenAfter(FrameOf(a.buf), t)
  PROVE  Keys(b, o \o b.ready, t)
<1> DEFINE x == a.buf
           u == o \o a.ready
<1>1. a.ready \in Seq(Seq(Number)) /\ x \in Seq(Number)
  BY DEF UnitType
<1>2. CASE b.ready = a.ready /\ (a.waitKey => b.waitKey)
  BY <1>2 DEF Keys
<1>3. CASE /\ x # <<>> /\ b.ready = Append(a.ready, x)
           /\ HasKey(x) \/ (~a.waitKey /\ ~b.waitKey)
  <2>1. u \in Seq(Seq(Number)) /\ o \o b.ready = Append(u, x)
    BY <1>1, <1>3, ConcatAppend
  <2>2. AllKeyed(u, t) /\ (~a.waitKey => Fresh(u, t))
    BY DEF Keys
  <2>3. Len(u) + 1 \in DOMAIN Append(u, x) /\ Append(u, x)[Len(u) + 1] = x
    BY <1>1, <2>1
  <2> HIDE DEF u, x
  <2>4. HasKey(x) \/ Fresh(u, t)
    BY <1>3, <2>2
  <2>5. AllKeyed(Append(u, x), t) /\ (Fresh(u, t) => Fresh(Append(u, x), t))
    BY <1>1, <2>1, <2>2, <2>4, AppendKeyed
  <2>6. HasKey(x) => Fresh(Append(u, x), t)
    BY <1>3, <2>3 DEF Fresh, x
  <2>7. Fresh(Append(u, x), t)
    BY <2>4, <2>5, <2>6
  <2> QED
    BY <2>1, <2>5, <2>7 DEF Keys
<1> QED
  BY <1>2, <1>3 DEF Finished

\* A unit that is held is of the frame that its timestamp says.
LEMMA HeldFrame ==
  ASSUME NEW d \in Seq(Number), d # <<>>, NEW f, NEW t, Held(d, f, t)
  PROVE  FrameOf(d) = f
BY DEF Held, FrameOf

LEMMA AppendKeys ==
  ASSUME kind = "RawVideo", kind \in Kinds, NEW t \in Seq(Number), NEW n \in Number, IsLast(n, t),
         NEW a, NEW data \in Seq(Number), data # <<>>, Packet(n).part \in {"whole", "end"},
         Held(data, Packet(n).frame, t), Held(a.buf, a.ts, t), a \in UnitType,
         OpenReady(a, t, n), NEW o \in Seq(Seq(Number)), Keys(a, o \o a.ready, t),
         NEW b, NEW c, NEW r, Appended(a, n, data, b, c, r)
  PROVE  Keys(r, o \o r.ready, t) /\ OpenHeld(r, t) /\ r.fu = a.fu
<1> DEFINE f == Packet(n).frame
<1>0. t # <<>> /\ Last(t) = n /\ n \in Nat
  BY NumberType DEF IsLast
<1>1. /\ b \in UnitType /\ c \in UnitType /\ r \in UnitType
      /\ c.ts = f /\ c.buf = b.buf \o data
      /\ c.fu = b.fu /\ c.ready = b.ready /\ c.waitKey = b.waitKey
  BY DEF Appended
<1>2. a.buf # <<>> => a.ts = f
  BY DEF OpenReady
<1>3. Keys(b, o \o b.ready, t) /\ Held(b.buf, f, t) /\ b.fu = a.fu
  <2>1. CASE b = a
    <3>1. Held(a.buf, f, t)
      BY <1>2 DEF Held
    <3> QED
      BY <2>1, <3>1
  <2>2. CASE a.ts # 0 /\ a.ts # f /\ Finished(a, b)
    <3>1. a.buf = <<>>
      BY <1>2, <2>2
    <3>2. Keys(b, o \o b.ready, t)
      BY <2>2, <3>1, FinishKeys
    <3>3. b.buf = <<>> /\ b.fu = a.fu
      BY <2>2 DEF Finished
    <3>4. Held(b.buf, f, t)
      BY <3>3 DEF Held
    <3> QED
      BY <3>2, <3>3, <3>4
  <2> QED
    BY <2>1, <2>2 DEF Appended
<1>4. Keys(c, o \o c.ready, t)
  BY <1>1, <1>3 DEF Keys
<1>5. b.buf \in Seq(Number) /\ c.buf \in Seq(Number)
  BY <1>1 DEF UnitType
<1>6. Held(c.buf, f, t) /\ c.buf # <<>>
  <2> DEFINE d == b.buf
  <2>1. d \in Seq(Number) /\ Held(d, f, t) /\ Held(data, f, t)
    BY <1>3, <1>5
  <2> HIDE DEF d, f
  <2>2. Held(d \o data, f, t)
    BY <2>1, HeldConcat
  <2>3. d \o data # <<>>
    BY <2>1
  <2> QED
    BY <1>1, <2>2, <2>3 DEF d
<1>7. CASE Packet(n).marker /\ Finished(c, r)
  <2>1. FrameOf(c.buf) = f
    BY <1>5, <1>6, HeldFrame
  <2>2. ~BrokenAfter(FrameOf(c.buf), t)
    BY <1>0, <2>1, NoneAfterLast
  <2>3. Keys(r, o \o r.ready, t)
    BY <1>1, <1>4, <1>7, <2>2, FinishKeys
  <2>4. r.buf = <<>> /\ r.fu = a.fu
    BY <1>1, <1>3, <1>7 DEF Finished
  <2>5. OpenHeld(r, t)
    BY <1>0, <2>4 DEF OpenHeld
  <2> QED
    BY <2>3, <2>4, <2>5
<1>8. CASE ~Packet(n).marker /\ r = c
  <2>1. Packet(n).frame = c.ts /\ n <= n
    BY <1>0, <1>1
  <2>2. OpenHeld(c, t)
    BY <1>0, <1>8, <2>1 DEF OpenHeld
  <2> QED
    BY <1>1, <1>3, <1>4, <1>8, <2>2
<1> QED
  BY <1>7, <1>8 DEF Appended

LEMMA RawKeys ==
  ASSUME kind = "RawVideo", kind \in Kinds, NEW t \in Seq(Number), NEW n \in Number, IsLast(n, t),
         NEW a, Ready(a, t, n), OpenReady(a, t, n),
         NEW o \in Seq(Seq(Number)), Keys(a, o \o a.ready, t),
         NEW r, r = process_raw(a, n)
  PROVE  Keys(r, o \o r.ready, t) /\ OpenHeld(r, t)
<1> DEFINE d == depacketize(a.fu, n)
           b == [a EXCEPT !.fu = d.fu]
           f == Packet(n).frame
           part == Packet(n).part
<1>0. t # <<>> /\ Last(t) = n
  BY DEF IsLast
<1>1. a \in UnitType /\ Held(a.buf, a.ts, t) /\ a.fu \in Seq(Number) /\ a.buf \in Seq(Number)
      /\ FragmentHeld(a.fu, t) /\ (part \in {"mid", "end"} => OfFrame(a.fu, f))
  BY DEF Ready, UnitType
<1>2. /\ d.fu \in Seq(Number) /\ d.data \in Seq(Number)
      /\ d.data # <<>> =>
            \/ part = "whole" /\ d.data = <<n>>
            \/ part = "end" /\ a.fu # <<>> /\ d.data = Append(a.fu, n)
      /\ part = "start" => d.fu = <<n>>
      /\ part = "mid" => d.fu = IF a.fu = <<>> THEN <<>> ELSE Append(a.fu, n)
  BY <1>1, Depacketize
<1>3. r = CASE d.data # <<>> -> append_access_unit(b, n, d.data)
            [] d.data = <<>> /\ Packet(n).marker -> finish_access_unit(b)
            [] OTHER -> b
  BY DEF process_raw
<1>4. /\ b \in UnitType /\ b.buf = a.buf /\ b.ts = a.ts /\ b.ready = a.ready /\ b.fu = d.fu
      /\ b.waitKey = a.waitKey
  BY <1>1, <1>2 DEF UnitType
<1>5. Packet(n).marker \in BOOLEAN /\ <<n>> # <<>>
  BY FrameType
<1> HIDE DEF d, b, part, f
<1>6. Keys(b, o \o b.ready, t)
  BY <1>4 DEF Keys
<1>7. ASSUME part \in {"start", "mid"}, NEW s \in Number, OneStart(f, s), Contig(s, t)
      PROVE  b.fu # <<>>
  <2>1. CASE part = "start"
    BY <1>2, <1>4, <1>5, <2>1
  <2>2. CASE part = "mid"
    <3>1. a.fu # <<>>
      BY <1>7, <2>2 DEF OpenReady, f, part
    <3>2. Append(a.fu, n) # <<>>
      BY <1>1, AppendLast
    <3> QED
      BY <1>2, <1>4, <2>2, <3>1, <3>2
  <2> QED
    BY <1>7, <2>1, <2>2
<1>8. b.buf # <<>> => /\ b.ts = f
                      /\ \E q \in Number : /\ q <= n /\ Packet(q).frame = b.ts
                                           /\ Packet(q).part \in {"whole", "end"}
  BY <1>4 DEF OpenReady, f
<1>9. CASE d.data # <<>>
  <2>1. part \in {"whole", "end"}
    BY <1>2, <1>9
  <2>2. Held(d.data, f, t)
    <3>1. CASE part = "whole" /\ d.data = <<n>>
      BY <3>1, OneHeld DEF f
    <3>2. CASE part = "end" /\ a.fu # <<>> /\ d.data = Append(a.fu, n)
      BY <1>1, <3>2, AppendFragment DEF f
    <3> QED
      BY <1>2, <1>9, <3>1, <3>2
  <2>3. r = append_access_unit(b, n, d.data)
    BY <1>3, <1>9
  <2>4. PICK c1, c2 : Appended(b, n, d.data, c1, c2, r)
    BY <1>2, <1>4, <2>3, AppendUnit
  <2>5. OpenReady(b, t, n)
    BY <1>8, <2>1 DEF OpenReady, f, part
  <2>6. Held(b.buf, b.ts, t)
    BY <1>1, <1>4
  <2> QED
    BY <1>2, <1>4, <1>6, <1>9, <2>1, <2>2, <2>4, <2>5, <2>6, AppendKeys DEF f, part
<1>10. CASE d.data = <<>> /\ Packet(n).marker
  <2>1. r = finish_access_unit(b)
    BY <1>3, <1>10
  <2>2. r \in UnitType /\ Finished(b, r)
    BY <1>4, <2>1, Finish
  <2>3. ASSUME b.buf # <<>> PROVE ~BrokenAfter(FrameOf(b.buf), t)
    <3>1. FrameOf(b.buf) = f
      BY <1>1, <1>4, <1>8, <2>3, HeldFrame
    <3> QED
      BY <1>0, <3>1, NoneAfterLast DEF f
  <2>4. Keys(r, o \o r.ready, t)
    BY <1>4, <1>6, <2>2, <2>3, FinishKeys
  <2>5. r.buf = <<>> /\ r.fu = b.fu
    BY <2>2 DEF Finished
  <2>6. OpenHeld(r, t)
    BY <1>0, <1>7, <2>5 DEF OpenHeld, f, part
  <2> QED
    BY <2>4, <2>6
<1>11. CASE d.data = <<>> /\ ~Packet(n).marker
  <2>1. r = b
    BY <1>3, <1>11
  <2>2. OpenHeld(b, t)
    BY <1>0, <1>7, <1>8, <1>11 DEF OpenHeld, f, part
  <2> QED
    BY <1>6, <2>1, <2>2
<1> QED
  BY <1>5, <1>9, <1>10, <1>11

KeysHeld(a, o, t) == Keys(a, o \o a.ready, t) /\ (t # <<>> => OpenHeld(a, t))

KeyInv == Raw /\ ~collided => KeysHeld(au, out, taken)

LEMMA AllUnitsSealed ==
  ASSUME NEW o \in Seq(Seq(Number)), NEW r \in Seq(Seq(Number)), NEW t, NEW e,
         AllSealed(o, t, e), AllSealed(r, t, e)
  PROVE  AllSealed(o \o r, t, e)
<1> SUFFICES ASSUME NEW i \in DOMAIN (o \o r) PROVE Sealed((o \o r)[i], t, e)
  BY DEF AllSealed
<1>1. \/ i \in DOMAIN o /\ (o \o r)[i] = o[i]
      \/ i - Len(o) \in DOMAIN r /\ (o \o r)[i] = r[i - Len(o)]
  OBVIOUS
<1> QED
  BY <1>1 DEF AllSealed

LEMMA KeyInvNext ==
  ASSUME kind' = kind, Raw /\ ~collided' => KeysHeld(au', out', taken')
  PROVE  KeyInv'
<1>0. \A f : BrokenIn(f, taken)' <=> BrokenIn(f, taken')
  BY DEF BrokenIn, OneStart, LostIn, Packet, Number
<1>1. AllKeyed(out' \o au'.ready, taken') => AllKeyed(out \o au.ready, taken)'
  BY <1>0 DEF AllKeyed, Keyed, HasKey, FrameOf, Packet, Number
<1>2. Fresh(out' \o au'.ready, taken') => Fresh(out \o au.ready, taken)'
  BY <1>0 DEF Fresh, BrokenAfter, HasKey, FrameOf, Packet, Number
<1>3. OpenHeld(au', taken') => OpenHeld(au, taken)'
  BY DEF OpenHeld, OneStart, Contig, Packet, Number
<1>4. KeysHeld(au', out', taken') => KeysHeld(au, out, taken)'
  BY <1>1, <1>2, <1>3 DEF KeysHeld, Keys
<1> QED
  BY <1>4 DEF KeyInv, Raw

LEMMA KeyUntouched ==
  ASSUME KeyInv, kind' = kind, au' = au, out' = out, taken' = taken, collided => collided'
  PROVE  KeyInv'
<1>1. Raw /\ ~collided' => KeysHeld(au', out', taken')
  BY DEF KeyInv
<1> QED
  BY <1>1, KeyInvNext

LEMMA KeyInvInit ==
  ASSUME Init
  PROVE  KeyInv
<1>1. au = [NoUnit EXCEPT !.waitKey = Raw] /\ out = <<>> /\ taken = <<>>
  BY DEF Init
<1>2. au.ready = <<>> /\ au.waitKey = Raw
  BY <1>1 DEF NoUnit
<1>3. out \o au.ready = <<>>
  BY <1>1, <1>2
<1>4. AllKeyed(<<>>, taken)
  BY DEF AllKeyed
<1> QED
  BY <1>1, <1>2, <1>3, <1>4 DEF KeyInv, KeysHeld, Keys

LEMMA HeadMoved ==
  ASSUME NEW S, NEW o \in Seq(S), NEW r \in Seq(S), r # <<>>
  PROVE  Append(o, Head(r)) \o Tail(r) = o \o r
<1> DEFINE p == Append(o, Head(r)) \o Tail(r)
           q == o \o r
<1>1. p \in Seq(S) /\ q \in Seq(S) /\ Len(p) = Len(o) + Len(r) /\ Len(q) = Len(p)
  OBVIOUS
<1>2. ASSUME NEW i \in 1 .. Len(p) PROVE p[i] = q[i]
  OBVIOUS
<1> QED
  BY <1>1, <1>2, SeqEqual

LEMMA ConsumeReadyKeys ==
  ASSUME UnitInv, KeyInv, ConsumeReady
  PROVE  KeyInv'
<1>1. /\ au.ready # <<>> /\ out' = Append(out, Head(au.ready))
      /\ au' = [au EXCEPT !.ready = Tail(au.ready)]
      /\ kind' = kind /\ taken' = taken /\ collided' = collided
  BY DEF ConsumeReady, wireVars, ringVars
<1>2. au \in UnitType /\ out \in Seq(Seq(Number)) /\ au.ready \in Seq(Seq(Number))
  BY DEF UnitInv, UnitType
<1>3. /\ au'.ready = Tail(au.ready) /\ au'.buf = au.buf /\ au'.ts = au.ts
      /\ au'.fu = au.fu /\ au'.waitKey = au.waitKey
  BY <1>1, <1>2 DEF UnitType
<1>4. out' \o au'.ready = out \o au.ready
  BY <1>1, <1>2, <1>3, HeadMoved
<1>5. KeysHeld(au, out, taken) => KeysHeld(au', out', taken')
  BY <1>1, <1>3, <1>4 DEF KeysHeld, Keys, OpenHeld
<1> QED
  BY <1>1, <1>5, KeyInvNext DEF KeyInv

LEMMA FinishKeysHeld ==
  ASSUME kind = "RawVideo", kind \in Kinds, NEW a \in UnitType, NEW o \in Seq(Seq(Number)),
         NEW t \in Seq(Number), KeysHeld(a, o, t), t = <<>> => a.buf = <<>>,
         Held(a.buf, a.ts, t)
  PROVE  KeysHeld(finish_access_unit(a), o, t)
<1> DEFINE b == finish_access_unit(a)
<1>1. Finished(a, b)
  BY Finish
<1> HIDE DEF b
<1>2. ASSUME a.buf # <<>> PROVE ~BrokenAfter(FrameOf(a.buf), t)
  <2>1. t # <<>> /\ a.ts = Packet(Last(t)).frame /\ a.buf \in Seq(Number)
    BY <1>2 DEF KeysHeld, OpenHeld, UnitType
  <2>2. FrameOf(a.buf) = Packet(Last(t)).frame
    BY <1>2, <2>1, HeldFrame
  <2> QED
    BY <2>1, <2>2, NoneAfterLast
<1>3. Keys(b, o \o b.ready, t)
  BY <1>1, <1>2, FinishKeys DEF KeysHeld
<1>4. b.buf = <<>> /\ b.fu = a.fu
  BY <1>1 DEF Finished
<1>5. t # <<>> => OpenHeld(b, t)
  BY <1>4 DEF KeysHeld, OpenHeld
<1> QED
  BY <1>3, <1>5 DEF KeysHeld, b

LEMMA TakeKeys ==
  ASSUME RingInv, UnitInv, KeyInv, NEW i, NEW lost \in BOOLEAN, Takes(i, lost), Take(i, lost)
  PROVE  KeyInv'
<1> DEFINE n == queue[i]
           a == process_packet(n, lost)
           b == Told(n, lost)
           t == Append(taken, n)
           ended == closed /\ channel = <<>> /\ count - 1 = 0 /\ a.ready = <<>>
<1>1. /\ au' = IF ended THEN finish_access_unit(a) ELSE a
      /\ taken' = t /\ kind' = kind /\ out' = out /\ collided' = collided
  BY DEF Take, Process, wireVars
<1>2. /\ i \in Slots /\ queue[i] # 0 /\ kind \in Kinds /\ taken \in Seq(Number)
      /\ au \in UnitType /\ out \in Seq(Seq(Number)) /\ count \in Nat
      /\ au.ready \in Seq(Seq(Number))
  BY RingNat DEF Takes, RingInv, ReaderType, UnitInv, UnitType
<1>3. n \in Number
  BY <1>2, RingNat
<1>4. ~InputOver
  <2>1. count = Cardinality(Used(queue))
    BY DEF RingInv, ReaderType, RingTyped
  <2>2. count # 0
    BY <1>2, <2>1, UsedEmpty
  <2> QED
    BY <2>2 DEF InputOver
<1>5. SUFFICES ASSUME Raw, ~collided PROVE KeysHeld(au', out', taken')
  BY <1>1, KeyInvNext
<1>6. kind = "RawVideo" /\ kind # "Audio" /\ kind # "Ps"
  BY <1>5 DEF Raw
<1>7. a \in UnitType /\ a = process_raw(b, n)
  BY <1>2, <1>3, <1>6, ProcessPacket
<1>8. UnitsHeld(au, out, taken, FALSE)
  <2>1. UnitsHeld(au, out, taken, InputOver)
    BY <1>5 DEF UnitInv
  <2>2. InputOver = FALSE
    BY <1>4 DEF InputOver
  <2> QED
    BY <2>1, <2>2
<1>9. /\ taken # <<>> => Last(taken) < n /\ (lost <=> n # Last(taken) + 1)
      /\ Increasing(taken)
  BY <1>2, <1>5 DEF RingInv, RingOrder, Expects, AfterLast, Takes
<1>10. KeysHeld(au, out, taken)
  BY <1>5 DEF KeyInv
<1>11. t \in Seq(Number) /\ t # <<>> /\ Last(t) = n /\ IsLast(n, t)
  BY <1>2, <1>3, AppendLast DEF IsLast
<1>12. Ready(b, t, n) /\ b.ready = au.ready
  BY <1>2, <1>3, <1>6, <1>8, <1>9, ToldReady
<1>13. UnitsHeld(a, out, t, TRUE)
  BY <1>2, <1>3, <1>8, <1>9, ProcessHeld
<1> DEFINE u == out \o au.ready
<1>14. AllSealed(u, taken, FALSE)
  BY <1>2, <1>8, AllUnitsSealed DEF UnitsHeld
<1>15. Keys(au, u, taken) /\ (taken # <<>> => OpenHeld(au, taken))
  BY <1>10 DEF KeysHeld
<1>16. taken = <<>> => au.buf = <<>>
  BY <1>8 DEF UnitsHeld
<1> HIDE DEF n, a, b, u, ended
<1>17. Keys(b, u, t) /\ OpenReady(b, t, n)
  BY <1>2, <1>3, <1>6, <1>9, <1>14, <1>15, <1>16, ToldKeys DEF b
<1>18. Keys(b, out \o b.ready, t)
  BY <1>12, <1>17 DEF u
<1> HIDE DEF t
<1>19. KeysHeld(a, out, t)
  BY <1>2, <1>3, <1>6, <1>7, <1>11, <1>12, <1>17, <1>18, RawKeys DEF KeysHeld
<1>20. CASE ended
  <2>1. Held(a.buf, a.ts, t)
    BY <1>6, <1>11, <1>13 DEF UnitsHeld, Processed
  <2>2. KeysHeld(finish_access_unit(a), out, t)
    BY <1>2, <1>6, <1>7, <1>11, <1>19, <2>1, FinishKeysHeld
  <2> QED
    BY <1>1, <1>20, <2>2
<1>21. CASE ~ended
  BY <1>1, <1>19, <1>21
<1> QED
  BY <1>20, <1>21

LEMMA EndOfInputKeys ==
  ASSUME RingInv, UnitInv, KeyInv, EndOfInput
  PROVE  KeyInv'
<1>1. /\ au' = finish_access_unit(au) /\ kind' = kind /\ out' = out /\ taken' = taken
      /\ collided' = collided
  BY DEF EndOfInput, wireVars, ringVars
<1>2. SUFFICES ASSUME Raw, ~collided PROVE KeysHeld(au', out', taken')
  BY <1>1, KeyInvNext
<1>3. /\ au \in UnitType /\ out \in Seq(Seq(Number)) /\ taken \in Seq(Number) /\ kind \in Kinds
      /\ kind = "RawVideo" /\ kind # "Audio"
  BY <1>2 DEF UnitInv, RingInv, ReaderType, Raw
<1>4. UnitsHeld(au, out, taken, InputOver) /\ KeysHeld(au, out, taken)
  BY <1>2 DEF UnitInv, KeyInv
<1>5. (taken = <<>> => au.buf = <<>>) /\ Held(au.buf, au.ts, taken)
  BY <1>3, <1>4 DEF UnitsHeld, Processed, Held
<1>6. KeysHeld(finish_access_unit(au), out, taken)
  BY <1>3, <1>4, <1>5, FinishKeysHeld
<1> QED
  BY <1>1, <1>6

LEMMA KeyInvStep ==
  ASSUME RingInv, UnitInv, KeyInv, [Next]_vars
  PROVE  KeyInv'
<1>0. collided \in BOOLEAN
  BY DEF RingInv, ReaderType
<1>1. ASSUME NEW n \in Number, Datagram(n) PROVE KeyInv'
  BY <1>1, KeyUntouched DEF Datagram, ringVars
<1>2. ASSUME NEW k \in 1 .. MaxChunk, FeedTcp(k) PROVE KeyInv'
  <2>1. kind' = kind /\ taken' = taken /\ out' = out /\ au' = au /\ collided' = collided
    BY <1>2 DEF FeedTcp, ringVars
  <2> QED
    BY <2>1, KeyUntouched
<1>3. CASE Close
  BY <1>3, KeyUntouched DEF Close, ringVars
<1>4. CASE CalculateIndex
  <2>1. collided => collided'
    BY <1>4 DEF CalculateIndex, enqueue_initial, ringVars
  <2> QED
    BY <1>4, <2>1, KeyUntouched DEF CalculateIndex
<1>5. CASE IndexCalculated \/ GapBegins
  BY <1>5, KeyUntouched DEF IndexCalculated, GapBegins, ringVars, wireVars
<1>6. CASE ConsumeReady
  BY <1>6, ConsumeReadyKeys
<1>7. CASE ReducePacket \/ GapReceives
  <2>1. collided => collided'
    BY <1>7 DEF ReducePacket, GapReceives, enqueue, ringVars
  <2> QED
    BY <1>7, <2>1, KeyUntouched DEF ReducePacket, GapReceives
<1>8. CASE TakeExpected \/ GapFilled \/ GapEnds \/ TakeLater
  <2>1. PICK i \in Slots, lost \in BOOLEAN : Takes(i, lost) /\ Take(i, lost)
    BY <1>8, Taking
  <2> QED
    BY <2>1, TakeKeys
<1>9. CASE EndOfInput
  BY <1>9, EndOfInputKeys
<1>10. CASE UNCHANGED vars
  BY <1>10, KeyUntouched DEF vars, ringVars, wireVars
<1> QED
  BY <1>1, <1>2, <1>3, <1>4, <1>5, <1>6, <1>7, <1>8, <1>9, <1>10 DEF Next, Reader

\* A broken fragment of the property is a broken frame here.
LEMMA BrokenFragmentIn ==
  ASSUME NEW f, BrokenFragment(f)
  PROVE  BrokenIn(f, taken)
<1> DEFINE P == {n \in Number : Packet(n).frame = f}
<1>1. /\ \A n \in P : Packet(n).part \in {"start", "mid", "end"}
      /\ \E n \in P : /\ Packet(n).part = "start" /\ n \in Range(taken)
                      /\ \A m \in P \ {n} : Packet(m).part # "start"
      /\ \E n \in P : LostBefore(n)
  BY DEF BrokenFragment
<1>2. PICK s \in P : /\ Packet(s).part = "start" /\ s \in Range(taken)
                     /\ \A m \in P \ {s} : Packet(m).part # "start"
  BY <1>1
<1>3. PICK p \in P : LostBefore(p)
  BY <1>1
<1>4. OneStart(f, s) /\ s \in Number /\ p \in Number /\ Packet(p).frame = f
  BY <1>1, <1>2 DEF OneStart
<1>5. LostIn(p, taken)
  BY <1>3 DEF LostBefore, LostIn
<1> QED
  BY <1>2, <1>4, <1>5 DEF BrokenIn

LEMMA KeysFirst == UnitInv /\ KeyInv => KeyFrameFirst
<1> SUFFICES ASSUME UnitInv, KeyInv, Raw, ~collided, NEW i \in DOMAIN out
             PROVE  \E j \in 1 .. i :
                      /\ HasKey(out[j])
                      /\ \A n \in Number :
                            FrameOf(out[j]) < Packet(n).frame /\ Packet(n).frame < FrameOf(out[i])
                                => ~BrokenFragment(Packet(n).frame)
  BY DEF KeyFrameFirst
<1> DEFINE u == out \o au.ready
<1>1. out \in Seq(Seq(Number)) /\ au.ready \in Seq(Seq(Number))
  BY DEF UnitInv, UnitType
<1>2. \A k \in 1 .. i : u[k] = out[k]
  BY <1>1
<1>3. i \in DOMAIN u /\ i \in 1 .. i
  BY <1>1
<1>4. AllKeyed(u, taken)
  BY DEF KeyInv, KeysHeld, Keys
<1> HIDE DEF u
<1>5. PICK j \in 1 .. i :
        /\ HasKey(u[j])
        /\ \A n \in Number : FrameOf(u[j]) < Packet(n).frame /\ Packet(n).frame < FrameOf(u[i])
              => ~BrokenIn(Packet(n).frame, taken)
  BY <1>3, <1>4 DEF AllKeyed, Keyed
<1>6. u[j] = out[j] /\ u[i] = out[i]
  BY <1>2, <1>3
<1> QED
  BY <1>5, <1>6, BrokenFragmentIn

(***************************************************************************)
(* Raw video starts at a key frame, and after a frame of which the start   *)
(* of its one fragmented unit came and a later fragment was lost it starts *)
(* again at one: what the demuxer gets always has a key frame before it    *)
(* with no broken frame between the two.                                   *)
(***************************************************************************)
THEOREM KeyFramesFirst == Spec => []KeyFrameFirst
<1>1. Init => RingInv /\ UnitInv /\ KeyInv
  BY RingInvInit, UnitInvInit, KeyInvInit
<1>2. RingInv /\ UnitInv /\ KeyInv /\ PacketsOnly /\ [Next]_vars => RingInv' /\ UnitInv' /\ KeyInv'
  BY RingInvStep, UnitInvStep, KeyInvStep
<1> QED
  BY <1>1, <1>2, KeysFirst, ChannelPackets, PTL DEF Spec
=============================================================================
