----------------------- MODULE SequenceNumbersProofs -----------------------
(***************************************************************************)
(* What the operators on sequence numbers return, for every size of the    *)
(* sequence space, of the rings and of the ack mask, and the numbers of    *)
(* successive packets over any number of laps.                             *)
(***************************************************************************)
EXTENDS SequenceNumbers, NumberLemmas

\* Every number lands in a slot of the rings.
LEMMA SlotType ==
    ASSUME NEW s \in SequenceNumber
    PROVE  Slot(s) \in 0 .. BufferSize - 1
BY SeqAssumption DEF Slot, SequenceNumber

\* uint16_t subtraction stays in the space.
LEMMA BackType ==
    ASSUME NEW s \in SequenceNumber, NEW k \in 0 .. AckBits
    PROVE  Back(s, k) \in SequenceNumber
BY SeqAssumption DEF Back, SequenceNumber

\* The number stamped on a packet is never the reserved 0.
LEMMA NextSeqType ==
    ASSUME NEW s \in SequenceNumber
    PROVE  NextSeq(s) \in SequenceNumber \ {0}
BY SeqAssumption DEF NextSeq, SequenceNumber

\* sequence_greater_than compares by forward distance, the wrap included: a is
\* newer when fewer than half a cycle of increments leads from b to a; at
\* exactly half a cycle the larger value wins.
THEOREM SeqGreaterIsDistance ==
    ASSUME NEW a \in SequenceNumber, NEW b \in SequenceNumber
    PROVE  SeqGreater(a, b) <=> (\/ Distance(a, b) \in 1 .. HalfSpace - 1
                                 \/ Distance(a, b) = HalfSpace /\ a > b)
BY SeqAssumption DEF SequenceNumber, SeqGreater, Distance, HalfSpace

\* Of two different numbers exactly one is the newer: remote_sequence_ cannot
\* go back to a number it has just replaced.
THEOREM SeqGreaterTotal ==
    ASSUME NEW a \in SequenceNumber, NEW b \in SequenceNumber, a # b
    PROVE  SeqGreater(a, b) <=> ~SeqGreater(b, a)
BY SeqAssumption DEF SequenceNumber, SeqGreater, HalfSpace

----------------------------------------------------------------------------
(* The number of the n-th packet *)

LEMMA SequenceOfType ==
    ASSUME NEW n \in Nat \ {0}
    PROVE  /\ SequenceOf(n) \in SequenceNumber \ {0}
           /\ NextSeq(SequenceOf(n)) = SequenceOf(n + 1)
<1>1. /\ SeqSpace - 1 \in Nat \ {0} /\ n - 1 \in Nat /\ 1 \in 0 .. (SeqSpace - 1) - 1
      /\ (n - 1) + 1 = (n + 1) - 1
  BY SeqAssumption
<1> DEFINE M == SeqSpace - 1   a == n - 1
<1>2. /\ a % M \in 0 .. M - 1
      /\ (a + 1) % M = IF (a % M) + 1 < M THEN (a % M) + 1 ELSE (a % M) + 1 - M
  <2> HIDE DEF M, a
  <2>1. M \in Nat \ {0} /\ a \in Nat /\ 1 \in 0 .. M - 1
    BY <1>1 DEF M, a
  <2> QED
    BY <2>1, ModStep
<1>3. SequenceOf(n) = (a % M) + 1 /\ SequenceOf(n + 1) = ((a + 1) % M) + 1
  BY <1>1 DEF SequenceOf
<1> DEFINE r == a % M   rr == (a + 1) % M
<1>4. /\ r \in 0 .. M - 1 /\ rr = IF r + 1 < M THEN r + 1 ELSE r + 1 - M
      /\ SequenceOf(n) = r + 1 /\ SequenceOf(n + 1) = rr + 1
  BY <1>2, <1>3
<1> HIDE DEF r, rr
<1> QED
  BY <1>4, SeqAssumption DEF SequenceNumber, NextSeq

\* Less than half a cycle ahead is newer, wherever the wrap falls.
LEMMA AheadIsGreater ==
    ASSUME NEW m \in Nat \ {0}, NEW n \in Nat, m < n, n - m < HalfACycle
    PROVE  SeqGreater(SequenceOf(n), SequenceOf(m))
<1> DEFINE M == SeqSpace - 1   d == n - m
<1>1. /\ HalfSpace \in Nat /\ SeqSpace = 2 * HalfSpace /\ HalfSpace >= 2
      /\ M \in Nat \ {0} /\ m - 1 \in Nat /\ d \in 1 .. M - 1
      /\ d < HalfSpace - 1 /\ n - 1 = (m - 1) + d
  BY SeqAssumption DEF HalfSpace, HalfACycle
<1> DEFINE r == (m - 1) % M
<1>2. /\ r \in 0 .. M - 1
      /\ (n - 1) % M = IF r + d < M THEN r + d ELSE r + d - M
  <2> DEFINE a == m - 1
  <2>0. M \in Nat \ {0} /\ a \in Nat /\ d \in 0 .. M - 1
    BY <1>1
  <2>3. r = a % M
    OBVIOUS
  <2> HIDE DEF M, d, a, r
  <2>4. /\ a % M \in 0 .. M - 1
        /\ (a + d) % M = IF (a % M) + d < M THEN (a % M) + d ELSE (a % M) + d - M
    BY <2>0, ModStep
  <2>1. /\ r \in 0 .. M - 1
        /\ ((m - 1) + d) % M = IF r + d < M THEN r + d ELSE r + d - M
    BY <2>3, <2>4 DEF a
  <2> QED
    BY <1>1, <2>1
<1>3. /\ SequenceOf(m) = r + 1
      /\ SequenceOf(n) = (IF r + d < M THEN r + d ELSE r + d - M) + 1
  BY <1>2 DEF SequenceOf
<1> HIDE DEF r, d
<1> QED
  BY <1>1, <1>2, <1>3 DEF SeqGreater

\* The first packet travels under 1.
LEMMA SequenceOfFirst == SequenceOf(1) = 1
<1>1. SeqSpace - 1 \in Nat \ {0}
  BY SeqAssumption
<1>2. \A m \in Nat \ {0} : ((1 - 1) % m) + 1 = 1
  OBVIOUS
<1> QED
  BY <1>1, <1>2 DEF SequenceOf

\* Packets less than a lap apart travel under different numbers.
LEMMA NumbersDiffer ==
    ASSUME NEW m \in Nat \ {0}, NEW n \in Nat, m < n, n - m < SeqSpace - 1
    PROVE  SequenceOf(m) # SequenceOf(n)
<1> DEFINE M == SeqSpace - 1   a == m - 1   d == n - m
<1>1. M \in Nat \ {0} /\ a \in Nat /\ d \in 1 .. M - 1 /\ d \in 0 .. M - 1 /\ n - 1 = a + d
  BY SeqAssumption
<1>2. SequenceOf(m) = (a % M) + 1 /\ SequenceOf(n) = ((a + d) % M) + 1
  BY <1>1 DEF SequenceOf
<1> HIDE DEF M, a, d
<1>3. /\ a % M \in 0 .. M - 1
      /\ (a + d) % M = IF (a % M) + d < M THEN (a % M) + d ELSE (a % M) + d - M
  BY <1>1, ModStep
<1> DEFINE r == a % M   rr == (a + d) % M
<1>4. r \in 0 .. M - 1 /\ rr = IF r + d < M THEN r + d ELSE r + d - M
  BY <1>3
<1>5. SequenceOf(m) = r + 1 /\ SequenceOf(n) = rr + 1
  BY <1>2
<1> HIDE DEF r, rr
<1> QED
  BY <1>1, <1>4, <1>5

============================================================================
