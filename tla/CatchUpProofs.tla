--------------------------- MODULE CatchUpProofs ---------------------------
(***************************************************************************)
(* Theorems about CatchUp, for every depth of the ring, flush interval, age*)
(* that a packet may reach and number of restarts.                         *)
(***************************************************************************)
EXTENDS CatchUp, NumberLemmas, SequenceTheorems

\* The base of a snapshot is Never, or a tick that the ring held when the
\* snapshot was encoded.
RingHadBase(b) == b.base # Never => b.base - b.age \in 1 .. Depth - 1

\* n snapshots of successive ticks, the newest of some age.
Batch(n, newest) ==
    { p \in [1 .. n -> Blob] :
        \A i \in 1 .. n : p[i].age = newest + n - i /\ RingHadBase(p[i]) }

\* What the typing of the snapshots rests on: a packet holds the snapshots of
\* successive ticks, so that the oldest is at most Interval - 1 ticks older than
\* the newest; and none is against a baseline out of the ring.
Batches ==
    /\ \E n \in 0 .. Interval - 1 : pending \in Batch(n, 0)
    /\ \A p \in downlink :
         \E n \in 1 .. Interval, newest \in 0 .. MaxAge : p \in Batch(n, newest)

Ages ==
    /\ acked \in Age
    /\ held \in Age
    /\ uplink \subseteq Age
    /\ restarts \in 0 .. MaxRestarts

IInv == Ages /\ Batches

----------------------------------------------------------------------------
(* Ages *)

LEMMA Sizes ==
    /\ Depth \in Nat \ {0} /\ Interval \in Nat \ {0} /\ MaxAge \in Nat
    /\ MaxRestarts \in Nat
    /\ Old \in Nat /\ Old = Depth + MaxAge + Interval
    /\ Never = Old + 1 /\ Recent = MaxAge + Interval - 1 /\ Recent \in Nat
BY CatchUpAssumption DEF Old, Never, Recent

LEMMA AgedType == \A a \in Age : Aged(a) \in Age /\ Aged(a) >= 1
BY Sizes DEF Age, Aged

LEMMA BatchFields ==
    ASSUME NEW n \in Nat, NEW newest \in Nat, NEW p \in Batch(n, newest)
    PROVE  /\ p \in [1 .. n -> Blob] /\ DOMAIN p = 1 .. n /\ Len(p) = n
           /\ \A i \in 1 .. n : p[i].age = newest + n - i /\ RingHadBase(p[i])
<1>1. p \in [1 .. n -> Blob]
  BY DEF Batch
<1>2. p \in Seq(Blob)
  BY <1>1
<1> QED
  BY <1>1, <1>2 DEF Batch

\* A tick later, the snapshots of a batch are as they were, a tick older.
LEMMA AgedBatch ==
    ASSUME NEW n \in Nat, NEW newest \in Nat, NEW p \in Batch(n, newest),
           newest + n <= Recent
    PROVE  AgedBlobs(p) \in Batch(n, newest + 1)
<1>1. /\ p \in [1 .. n -> Blob] /\ DOMAIN p = 1 .. n
      /\ \A i \in 1 .. n : p[i].age = newest + n - i /\ RingHadBase(p[i])
  BY BatchFields
<1> DEFINE older(i) == [age |-> p[i].age + 1, base |-> Aged(p[i].base)]
<1>2. ASSUME NEW i \in 1 .. n
      PROVE  /\ older(i) \in Blob /\ RingHadBase(older(i))
             /\ older(i).age = newest + 1 + n - i
  <2>1. p[i] \in Blob /\ p[i].age = newest + n - i /\ RingHadBase(p[i])
    BY <1>1
  <2>2. /\ p[i].age \in 0 .. Recent
        /\ p[i].base \in (1 .. Old - 1) \union {Never}
    BY <2>1 DEF Blob
  <2>3. p[i].age + 1 \in 0 .. Recent
    BY <2>1, <2>2, Sizes
  <2>4. CASE p[i].base = Never
    <3>1. Aged(p[i].base) = Never
      BY <2>4, Sizes DEF Aged
    <3> QED
      BY <2>1, <2>3, <3>1, Sizes DEF Blob, RingHadBase
  <2>5. CASE p[i].base # Never
    <3>1. /\ p[i].base \in 1 .. Old - 1 /\ Aged(p[i].base) = p[i].base + 1
          /\ p[i].base - p[i].age \in 1 .. Depth - 1
      BY <2>1, <2>2, <2>5, Sizes DEF Aged, RingHadBase
    <3>2. p[i].base + 1 \in 1 .. Old - 1
      BY <2>2, <2>3, <3>1, Sizes
    <3>3. /\ older(i).age = p[i].age + 1 /\ older(i).base = p[i].base + 1
          /\ older(i) \in Blob
      BY <2>3, <3>1, <3>2 DEF Blob
    <3>4. RingHadBase(older(i))
      BY <2>2, <3>1, <3>3 DEF RingHadBase
    <3> QED
      BY <2>1, <3>3, <3>4
  <2> QED
    BY <2>4, <2>5
<1>3. AgedBlobs(p) = [i \in 1 .. n |-> older(i)]
  BY <1>1 DEF AgedBlobs
<1> HIDE DEF older
<1> QED
  BY <1>2, <1>3 DEF Batch

\* The snapshot of the tick is against a baseline of the ring, if any.
LEMMA EncodedType ==
    ASSUME NEW a \in Age, a >= 1
    PROVE  /\ EncodeFor(a) \in Blob /\ EncodeFor(a).age = 0
           /\ RingHadBase(EncodeFor(a))
BY Sizes DEF EncodeFor, InRing, Blob, RingHadBase, Age

\* The snapshots that wait and the new one are again of successive ticks.
LEMMA QueuedBatch ==
    ASSUME Batches, NEW a \in Age, a >= 1
    PROVE  \E n \in 0 .. Interval - 1 :
             Append(AgedBlobs(pending), EncodeFor(a)) \in Batch(n + 1, 0)
<1>1. PICK n \in 0 .. Interval - 1 : pending \in Batch(n, 0)
  BY DEF Batches
<1> DEFINE q == AgedBlobs(pending)   b == EncodeFor(a)
<1>2. q \in Batch(n, 1)
  BY <1>1, AgedBatch, Sizes
<1>3. b \in Blob /\ b.age = 0 /\ RingHadBase(b)
  BY EncodedType
<1> HIDE DEF q, b
<1>4. /\ q \in [1 .. n -> Blob] /\ Len(q) = n
      /\ \A i \in 1 .. n : q[i].age = 1 + n - i /\ RingHadBase(q[i])
  BY <1>1, <1>2, BatchFields, Sizes
<1>5. q \in Seq(Blob)
  BY <1>4, Sizes
<1>6. /\ Append(q, b) \in [1 .. n + 1 -> Blob]
      /\ \A i \in 1 .. n : Append(q, b)[i] = q[i]
      /\ Append(q, b)[n + 1] = b
  <2>1. /\ Append(q, b) \in Seq(Blob) /\ Len(Append(q, b)) = n + 1
        /\ \A i \in 1 .. Len(q) : Append(q, b)[i] = q[i]
        /\ Append(q, b)[Len(q) + 1] = b
    BY <1>3, <1>4, <1>5, AppendProperties
  <2> QED
    BY <1>4, <2>1, LenProperties
<1>7. ASSUME NEW i \in 1 .. n + 1
      PROVE  Append(q, b)[i].age = 0 + (n + 1) - i /\ RingHadBase(Append(q, b)[i])
  <2>1. CASE i \in 1 .. n
    <3>1. Append(q, b)[i] = q[i] /\ q[i].age = 1 + n - i /\ RingHadBase(q[i])
      BY <1>4, <1>6, <2>1
    <3>2. 0 + (n + 1) - i = 1 + n - i
      BY <2>1
    <3> QED
      BY <3>1, <3>2 DEF RingHadBase
  <2>2. CASE i = n + 1
    <3>1. Append(q, b)[i] = b /\ 0 + (n + 1) - i = 0
      BY <1>6, <2>2
    <3> QED
      BY <1>3, <3>1
  <2>3. i \in 1 .. n \/ i = n + 1
    BY <1>1, Sizes
  <2> QED
    BY <2>1, <2>2, <2>3, Zenon
<1>8. Append(q, b) \in Batch(n + 1, 0)
  BY <1>6, <1>7 DEF Batch
<1> QED
  BY <1>8 DEF q, b
----------------------------------------------------------------------------
(* The packets *)

\* However many snapshots a packet holds, what the client holds after them is
\* defined, and is the age of a tick.
LEMMA AppliedType ==
    ASSUME held \in Age, NEW n \in Nat, NEW newest \in Nat, NEW p \in Batch(n, newest)
    PROVE  Applied(p) \in Age
<1>1. /\ p \in [1 .. n -> Blob] /\ Len(p) = n
  BY BatchFields
<1>2. \A i \in 1 .. n : p[i].age \in Age
  BY <1>1, Sizes DEF Blob, Age
<1> DEFINE next(h, i) == IF Accepts(h[i - 1], p[i]) THEN p[i].age ELSE h[i - 1]
           Run(k, h) == h = [i \in 0 .. k |-> IF i = 0 THEN held ELSE next(h, i)]
           Stuck == { k \in 0 .. n : ~ \E h \in [0 .. k -> Age] : Run(k, h) }
<1>3. ASSUME NEW k \in 0 .. n, NEW h \in [0 .. k -> Age], Run(k, h), k + 1 \in 0 .. n
      PROVE  \E g \in [0 .. k + 1 -> Age] : Run(k + 1, g)
  <2> DEFINE g == [i \in 0 .. k + 1 |-> IF i = k + 1 THEN next(h, k + 1) ELSE h[i]]
  <2>1. next(h, k + 1) \in Age
    BY <1>2, <1>3
  <2> HIDE DEF next
  <2>2. g \in [0 .. k + 1 -> Age]
    BY <2>1
  <2>3. \A i \in 0 .. k : g[i] = h[i]
    OBVIOUS
  <2>4. ASSUME NEW i \in 1 .. k + 1 PROVE next(g, i) = next(h, i)
    <3>1. i - 1 \in 0 .. k
      OBVIOUS
    <3> QED
      BY <2>3, <3>1 DEF next
  <2>5. ASSUME NEW i \in 0 .. k + 1
        PROVE  g[i] = IF i = 0 THEN held ELSE next(g, i)
    <3>1. CASE i = 0
      BY <1>3, <2>3, <3>1 DEF Run
    <3>2. CASE i \in 1 .. k
      <4>1. g[i] = h[i] /\ h[i] = next(h, i)
        BY <1>3, <2>3, <3>2 DEF Run
      <4> QED
        BY <2>4, <3>2, <4>1
    <3>3. CASE i = k + 1
      <4>1. g[i] = next(h, k + 1)
        BY <3>3
      <4> QED
        BY <2>4, <3>3, <4>1
    <3> QED
      BY <3>1, <3>2, <3>3
  <2>6. Run(k + 1, g)
    <3> HIDE DEF g
    <3> QED
      BY <2>2, <2>5
  <2> QED
    BY <2>2, <2>6
<1>4. \E h \in [0 .. 0 -> Age] : Run(0, h)
  <2> DEFINE h == [i \in 0 .. 0 |-> held]
  <2>1. h \in [0 .. 0 -> Age] /\ Run(0, h)
    OBVIOUS
  <2> QED
    BY <2>1
<1> HIDE DEF Run
<1>5. Stuck = {}
  <2> SUFFICES ASSUME Stuck # {} PROVE FALSE
    OBVIOUS
  <2>0. Stuck \in SUBSET Nat
    OBVIOUS
  <2>1. PICK k \in Stuck : \A j \in Stuck : k <= j
    <3> HIDE DEF Stuck
    <3> QED
      BY <2>0, LeastElement
  <2>2. k # 0
    BY <1>4
  <2>3. k - 1 \in 0 .. n /\ k - 1 \notin Stuck /\ (k - 1) + 1 = k
    BY <2>1, <2>2
  <2>4. PICK h \in [0 .. k - 1 -> Age] : Run(k - 1, h)
    BY <2>3
  <2> QED
    BY <1>3, <2>1, <2>3, <2>4
<1>6. n \notin Stuck
  BY <1>5
<1>7. PICK h \in [0 .. n -> Age] : Run(n, h)
  BY <1>6
<1> DEFINE c == HeldAfter(p)
<1>8. c = [i \in 0 .. n |-> IF i = 0 THEN held ELSE next(c, i)]
  BY <1>1, <1>7 DEF HeldAfter, Run
<1> HIDE DEF c
<1> DEFINE Off == { k \in 0 .. n : c[k] \notin Age }
<1>9. Off = {}
  <2> SUFFICES ASSUME Off # {} PROVE FALSE
    OBVIOUS
  <2>0. Off \in SUBSET Nat
    OBVIOUS
  <2>1. PICK k \in Off : \A j \in Off : k <= j
    <3> HIDE DEF Off
    <3> QED
      BY <2>0, LeastElement
  <2>2. k # 0
    BY <1>8, <2>1
  <2>3. k - 1 \in 0 .. n /\ c[k - 1] \in Age /\ k \in 1 .. n
    BY <2>1, <2>2
  <2>4. c[k] = next(c, k)
    BY <1>8, <2>3
  <2> QED
    BY <1>2, <2>1, <2>3, <2>4
<1> QED
  BY <1>1, <1>9 DEF c, Applied
----------------------------------------------------------------------------
(* The invariant *)

LEMMA InvInit == Init => IInv
<1> SUFFICES ASSUME Init PROVE IInv
  OBVIOUS
<1>1. Ages
  BY Sizes DEF Init, Ages, Age
<1>2. pending \in Batch(0, 0)
  BY DEF Init, Batch
<1> QED
  BY <1>1, <1>2, Sizes DEF Init, IInv, Batches

LEMMA TickKeeps == ASSUME IInv, NEW flush \in BOOLEAN, Tick(flush) PROVE IInv'
<1> DEFINE queued == Append(AgedBlobs(pending), EncodeFor(Aged(acked)))
           aged == { AgedBlobs(p) : p \in { q \in downlink : Last(q).age < MaxAge } }
<1>1. /\ Len(queued) = Interval => flush
      /\ pending' = IF flush THEN <<>> ELSE queued
      /\ downlink' = IF flush THEN aged \union {queued} ELSE aged
  BY DEF Tick
<1>2. Ages'
  BY AgedType DEF IInv, Ages, Tick
<1>3. PICK n \in 0 .. Interval - 1 : queued \in Batch(n + 1, 0)
  BY AgedType, QueuedBatch DEF IInv, Ages
<1>4. Len(queued) = n + 1
  <2> HIDE DEF queued
  <2>1. n + 1 \in Nat /\ 0 \in Nat
    BY Sizes
  <2> QED
    BY <1>3, <2>1, BatchFields
<1>5. \A p \in aged : \E m \in 1 .. Interval, newest \in 0 .. MaxAge : p \in Batch(m, newest)
  <2> SUFFICES ASSUME NEW q \in downlink, Last(q).age < MaxAge
               PROVE  \E m \in 1 .. Interval, newest \in 0 .. MaxAge :
                        AgedBlobs(q) \in Batch(m, newest)
    OBVIOUS
  <2>1. PICK m \in 1 .. Interval, newest \in 0 .. MaxAge : q \in Batch(m, newest)
    BY DEF IInv, Batches
  <2>2. q[m].age = newest + m - m /\ Len(q) = m
    BY <2>1, BatchFields, Sizes
  <2>3. newest < MaxAge
    BY <2>2, Sizes DEF Last
  <2>4. AgedBlobs(q) \in Batch(m, newest + 1)
    BY <2>1, <2>3, AgedBatch, Sizes
  <2> QED
    BY <2>3, <2>4, Sizes
<1> HIDE DEF queued, aged
<1>6. \E m \in 0 .. Interval - 1 : pending' \in Batch(m, 0)
  <2>1. CASE flush
    <3>1. <<>> \in Batch(0, 0)
      BY DEF Batch
    <3> QED
      BY <1>1, <2>1, <3>1, Sizes
  <2>2. CASE ~flush
    <3>1. n + 1 \in 0 .. Interval - 1
      BY <1>1, <1>4, <2>2, Sizes
    <3> QED
      BY <1>1, <1>3, <2>2, <3>1
  <2> QED
    BY <2>1, <2>2
<1>7. \A p \in downlink' :
        \E m \in 1 .. Interval, newest \in 0 .. MaxAge : p \in Batch(m, newest)
  <2>1. n + 1 \in 1 .. Interval /\ 0 \in 0 .. MaxAge
    BY Sizes
  <2> QED
    BY <1>1, <1>3, <1>5, <2>1
<1>8. Batches'
  BY <1>6, <1>7 DEF Batches, Batch, Blob, RingHadBase, Recent, Old, Never
<1> QED
  BY <1>2, <1>8 DEF IInv

LEMMA ReceiveKeeps ==
    ASSUME IInv, NEW p \in downlink, Receive(p) \/ ReceiveCopy(p)
    PROVE  IInv'
<1>1. PICK n \in 1 .. Interval, newest \in 0 .. MaxAge : p \in Batch(n, newest)
  BY DEF IInv, Batches
<1>2. Applied(p) \in Age
  BY <1>1, AppliedType, Sizes DEF IInv, Ages
<1>3. Ages'
  BY <1>2 DEF IInv, Ages, Receive, ReceiveCopy
<1>4. pending' = pending /\ downlink' \subseteq downlink
  BY DEF Receive, ReceiveCopy
<1>5. Batches'
  BY <1>4 DEF IInv, Batches
<1> QED
  BY <1>3, <1>5 DEF IInv

LEMMA InvStep == ASSUME IInv, [Next]_vars PROVE IInv'
<1>1. ASSUME NEW flush \in BOOLEAN, Tick(flush) PROVE IInv'
  BY <1>1, TickKeeps
<1>2. ASSUME NEW p \in downlink, Receive(p) \/ ReceiveCopy(p) PROVE IInv'
  BY <1>2, ReceiveKeeps
<1>3. CASE \E a \in uplink : Ingest(a)
  BY <1>3 DEF IInv, Ages, Batches, Ingest
<1>4. CASE SendInput
  BY <1>4 DEF IInv, Ages, Batches, SendInput
<1>5. CASE Restart
  <2>1. Never \in Age /\ restarts' \in 0 .. MaxRestarts
    BY <1>5, Sizes DEF Age, IInv, Ages, Restart
  <2> QED
    BY <1>5, <2>1 DEF IInv, Ages, Batches, Restart
<1>6. CASE UNCHANGED vars
  BY <1>6 DEF vars, IInv, Ages, Batches
<1> QED
  BY <1>1, <1>2, <1>3, <1>4, <1>5, <1>6 DEF Next

\* What is sent is well formed: a queue and a packet hold the snapshots of
\* successive ticks, at most one flush interval of them, and the delta of each
\* was encoded against one of the last Depth ticks, whichever acks were lost,
\* late or repeated and though the client restarts (SnapshotHistory::encode_for,
\* Peer::update).
THEOREM SentInBatches == Spec => []Batches
<1>1. IInv => Batches
  BY DEF IInv
<1> QED
  BY <1>1, InvInit, InvStep, PTL DEF Spec

LEMMA BatchesTyped == IInv => TypeOK
<1> SUFFICES ASSUME IInv PROVE TypeOK
  OBVIOUS
<1>1. pending \in UNION { [1 .. n -> Blob] : n \in 0 .. Interval - 1 }
  BY DEF IInv, Batches, Batch
<1>2. downlink \subseteq UNION { [1 .. n -> Blob] : n \in 1 .. Interval }
  BY DEF IInv, Batches, Batch
<1> QED
  BY <1>1, <1>2 DEF IInv, Ages, TypeOK

\* The ages that the server and the client keep, and those in the network, stay in
\* their ranges for ever: though the server never stops, no snapshot or delta is
\* older than what MaxAge, the flush and the ring allow.
THEOREM TypeCorrect == Spec => []TypeOK
BY InvInit, InvStep, BatchesTyped, PTL DEF Spec
=============================================================================
