-------------------------- MODULE StateSyncProofs --------------------------
(***************************************************************************)
(* Theorems about StateSync, for every number of clients, ring depth, world*)
(* and tick bound; and about SnapshotWire, the round trip of a snapshot    *)
(* through the bits of BitStream, for every width of the fields, of a byte *)
(* and of acc_, and any number of entities.                                *)
(***************************************************************************)
EXTENDS SnapshotWire, NumberLemmas, SequenceTheorems, FiniteSetTheorems,
        FunctionTheorems

\* Every position in the world has a level.
LEMMA QuantizeType == \A x \in Position : Quantize(x) \in Level
<1> SUFFICES ASSUME NEW x \in Position PROVE Quantize(x) \in Level
  OBVIOUS
<1> DEFINE n == 2 * x * MaxLevel + Bound
           d == 2 * Bound
<1>1. /\ Bound \in Nat \ {0} /\ MaxLevel \in Nat /\ x \in Nat /\ x <= Bound
  BY SyncAssumption DEF Position
<1>2. x * MaxLevel \in Nat /\ Bound * MaxLevel \in Nat /\ x * MaxLevel <= Bound * MaxLevel
  BY <1>1
<1>3. n \in Nat /\ d \in Nat \ {0} /\ n = 2 * (x * MaxLevel) + Bound
  BY <1>1, <1>2
<1>4. d * MaxLevel = 2 * (Bound * MaxLevel)
  BY <1>1
<1>5. n < d * (MaxLevel + 1)
  <2>1. d * (MaxLevel + 1) = d * MaxLevel + d
    BY <1>1, <1>3
  <2> QED
    BY <2>1, <1>1, <1>2, <1>3, <1>4
<1>6. n \div d \in Nat /\ n % d \in 0 .. d - 1 /\ n = (n \div d) * d + (n % d)
  <2> HIDE DEF n, d
  <2>1. /\ n \div d \in Nat /\ n % d \in Nat /\ n % d < d
        /\ n = (n \div d) * d + (n % d)
    BY <1>3, DivMod
  <2>2. n % d \in 0 .. d - 1
    BY <1>3, <2>1
  <2> QED
    BY <2>1, <2>2
<1>7. n \div d <= MaxLevel
  <2> SUFFICES ASSUME n \div d >= MaxLevel + 1 PROVE FALSE
    BY <1>1, <1>6
  <2>1. d * (n \div d) >= d * (MaxLevel + 1)
    BY <1>1, <1>3, <1>6
  <2>2. d * (n \div d) \in Nat /\ d * (MaxLevel + 1) \in Nat
    BY <1>1, <1>3, <1>6
  <2> QED
    BY <2>1, <2>2, <1>3, <1>5, <1>6
<1> QED
  BY <1>1, <1>6, <1>7 DEF Quantize, Level

----------------------------------------------------------------------------
(* Tables and the encoder's operators *)

LEMMA TableOf ==
    ASSUME NEW V, NEW S \in SUBSET Clients, NEW f \in [S -> V]
    PROVE  f \in Tables(V)
BY DEF Tables

LEMMA TableIs ==
    ASSUME NEW V, NEW f \in Tables(V)
    PROVE  DOMAIN f \subseteq Clients /\ f \in [DOMAIN f -> V]
BY DEF Tables

LEMMA QuantizedType ==
    ASSUME NEW view \in Tables(Position)
    PROVE  Quantized(view) \in Tables(Level)
<1>1. DOMAIN view \subseteq Clients /\ view \in [DOMAIN view -> Position]
  BY TableIs
<1>2. Quantized(view) \in [DOMAIN view -> Level]
  BY <1>1, QuantizeType DEF Quantized
<1> QED
  BY <1>1, <1>2, TableOf

LEMMA FilterType ==
    ASSUME NEW e \in Tables(Position), NEW x
    PROVE  FilterAoi(e, x) \in Tables(Position)
<1> DEFINE near == { d \in DOMAIN e : e[d] - x <= Radius /\ x - e[d] <= Radius }
<1>1. DOMAIN e \subseteq Clients /\ e \in [DOMAIN e -> Position]
  BY TableIs
<1>2. near \in SUBSET Clients
  BY <1>1
<1>3. FilterAoi(e, x) \in [near -> Position]
  BY <1>1 DEF FilterAoi
<1> QED
  BY <1>2, <1>3, TableOf

LEMMA DeltaType ==
    ASSUME NEW c \in Clients, NEW t \in 1 .. MaxTick, NEW t0 \in 0 .. MaxTick,
           NEW now \in Tables(Position), NEW then \in Tables(Position)
    PROVE  Delta(c, t, now, t0, then) \in Blob
<1> DEFINE changed == { d \in DOMAIN now : d \in DOMAIN then => now[d] # then[d] }
           part == [d \in changed |-> now[d]]
<1>1. /\ DOMAIN now \subseteq Clients /\ now \in [DOMAIN now -> Position]
      /\ DOMAIN then \subseteq Clients
  BY TableIs
<1>2. changed \in SUBSET Clients /\ part \in [changed -> Position]
  BY <1>1
<1>3. Quantized(part) \in Tables(Level)
  <2> HIDE DEF changed, part
  <2> QED
    BY <1>2, TableOf, QuantizedType
<1>4. DOMAIN then \ DOMAIN now \in SUBSET Clients
  BY <1>1
<1>5. Delta(c, t, now, t0, then) =
        [to |-> c, type |-> "Delta", tick |-> t, baseline_tick |-> t0,
         changed |-> Quantized(part), removed |-> DOMAIN then \ DOMAIN now]
  BY DEF Delta
<1> QED
  BY <1>3, <1>4, <1>5 DEF Blob

RingType == [0 .. Depth - 1 -> [tick : 0 .. MaxTick, entities : Tables(Position)]]

LEMMA RingSlot == \A t \in Nat : t % Depth \in 0 .. Depth - 1
BY SyncAssumption, DivMod

LEMMA EncodeType ==
    ASSUME NEW r \in RingType, NEW c \in Clients,
           NEW t0 \in 0 .. MaxTick, NEW t \in 1 .. MaxTick
    PROVE  EncodeFor(r, c, t0, t) \in Blob
<1>1. \A s \in 0 .. MaxTick : ViewAt(r, s, c) \in Tables(Position)
  <2> SUFFICES ASSUME NEW s \in 0 .. MaxTick
               PROVE  ViewAt(r, s, c) \in Tables(Position)
    OBVIOUS
  <2>1. s % Depth \in 0 .. Depth - 1
    BY RingSlot, SyncAssumption
  <2>2. r[s % Depth].entities \in Tables(Position)
    BY <2>1 DEF RingType
  <2> QED
    BY <2>2, FilterType DEF ViewAt
<1>2. Delta(c, t, ViewAt(r, t, c), t0, ViewAt(r, t0, c)) \in Blob
  BY <1>1, DeltaType, SyncAssumption
<1>3. Keyframe(c, t, ViewAt(r, t, c)) \in Blob
  BY <1>1, QuantizedType, SyncAssumption DEF Keyframe, Blob
<1> QED
  BY <1>2, <1>3 DEF EncodeFor

LEMMA MovedType ==
    ASSUME NEW e \in [x : Position, v : Directions \union {0}], NEW n \in Nat
    PROVE  Moved(e, n) \in [x : Position, v : Directions \union {0}]
<1>1. e.x \in Position /\ e.v \in Directions \union {0}
  OBVIOUS
<1>2. e.x \in Int /\ e.v \in Int
  <2>1. Bound \in Nat /\ Directions \subseteq Int
    BY SyncAssumption
  <2>2. Position \subseteq Int
    BY <2>1 DEF Position
  <2>3. Directions \union {0} \subseteq Int
    BY <2>1
  <2> QED
    BY <1>1, <2>2, <2>3, Zenon
<1>3. n * e.v \in Int
  BY <1>2
<1>4. e.x + n * e.v \in Int
  BY <1>2, <1>3
<1>5. Clamp(e.x + n * e.v) \in Position
  BY <1>4, SyncAssumption DEF Clamp, Position
<1> QED
  BY <1>1, <1>5 DEF Moved

LEMMA PatchType ==
    ASSUME NEW entities \in Tables(Level), NEW b \in Blob
    PROVE  Patch(entities, b) \in Tables(Level)
<1> DEFINE S == (DOMAIN entities \ b.removed) \union DOMAIN b.changed
<1>1. /\ DOMAIN entities \subseteq Clients /\ entities \in [DOMAIN entities -> Level]
      /\ DOMAIN b.changed \subseteq Clients /\ b.changed \in [DOMAIN b.changed -> Level]
  BY TableIs DEF Blob
<1>2. S \in SUBSET Clients /\ Patch(entities, b) \in [S -> Level]
  BY <1>1 DEF Patch
<1> QED
  BY <1>2, TableOf

----------------------------------------------------------------------------
(* Types *)

LEMMA WithPlayerType ==
    ASSUME TypeOK, NEW c \in Clients, NEW x \in Starts
    PROVE  WithPlayer(c, x) \in Tables([x : Position, v : Directions \union {0}])
<1> DEFINE E == [x : Position, v : Directions \union {0}]
           S == Joined \union {c}
<1>1. Joined \subseteq Clients /\ world \in [Joined -> E]
  BY TableIs DEF TypeOK, Joined
<1>2. [x |-> x, v |-> 0] \in E
  BY SyncAssumption
<1>3. S \in SUBSET Clients /\ WithPlayer(c, x) \in [S -> E]
  BY <1>1, <1>2 DEF WithPlayer
<1> QED
  BY <1>3, TableOf

LEMMA TypeInit == Init => TypeOK
<1> SUFFICES ASSUME Init PROVE TypeOK
  OBVIOUS
<1>1. \A V : NoEntities \in Tables(V)
  <2> SUFFICES ASSUME NEW V PROVE NoEntities \in Tables(V)
    OBVIOUS
  <2>1. NoEntities \in [{} -> V]
    BY DEF NoEntities
  <2> QED
    BY <2>1, TableOf
<1>2. 0 \in 0 .. MaxTick
  BY SyncAssumption
<1> QED
  BY <1>1, <1>2 DEF Init, TypeOK

\* What the server's n steps do to the tables.
LEMMA ServerTickType ==
    ASSUME TypeOK, NEW n \in 1 .. MaxSteps, ServerTick(n)
    PROVE  TypeOK'
<1> DEFINE E         == [x : Position, v : Directions \union {0}]
           t         == tick + n
           moved     == [c \in Joined |-> Moved(world[c], n)]
           positions == [c \in Joined |-> moved[c].x]
           pushed    == [ring EXCEPT ![t % Depth] = [tick |-> t, entities |-> positions]]
<1>0. n \in Nat /\ n >= 1 /\ t \in 1 .. MaxTick /\ t \in Nat
  BY SyncAssumption DEF TypeOK, ServerTick
<1>1. Joined \subseteq Clients /\ world \in [Joined -> E]
  BY TableIs DEF TypeOK, Joined
<1>2. moved \in [Joined -> E]
  BY <1>0, <1>1, MovedType
<1>3. positions \in [Joined -> Position]
  BY <1>2
<1>4. moved \in Tables(E) /\ positions \in Tables(Position)
  <2> HIDE DEF moved, positions
  <2> QED
    BY <1>1, <1>2, <1>3, TableOf
<1>5. pushed \in RingType
  <2> HIDE DEF positions, t
  <2>1. t % Depth \in 0 .. Depth - 1
    BY <1>0, RingSlot
  <2> QED
    BY <1>0, <1>4, <2>1 DEF TypeOK, RingType
<1>6. tick' = t /\ world' = moved
  BY DEF ServerTick
<1>7. ring' \in RingType
  BY <1>5 DEF ServerTick, Positions, Pushed, TypeOK, RingType
<1>8. recorded' \in [1 .. MaxTick -> Tables(Position)]
  <2>1. recorded' = recorded \/ recorded' = [recorded EXCEPT ![t] = positions]
    BY DEF ServerTick, Positions, Pushed
  <2> HIDE DEF positions, t
  <2> QED
    BY <2>1, <1>0, <1>4 DEF TypeOK
<1>9. blobs' \subseteq Blob
  <2>1. blobs' = blobs
        \/ blobs' = blobs \union { EncodeFor(pushed, c, last_received[c], t) : c \in Joined }
    BY DEF ServerTick, Positions, Pushed
  <2>2. \A c \in Joined : EncodeFor(pushed, c, last_received[c], t) \in Blob
    <3> HIDE DEF pushed, t
    <3> QED
      BY <1>0, <1>1, <1>5, EncodeType DEF TypeOK
  <2> HIDE DEF pushed, t
  <2> QED
    BY <2>1, <2>2 DEF TypeOK
<1>10. UNCHANGED <<last_received, baseline, inputs, applied>>
  BY DEF ServerTick, Positions, Pushed
<1> HIDE DEF moved, t
<1> QED
  BY <1>0, <1>4, <1>6, <1>7, <1>8, <1>9, <1>10 DEF TypeOK, RingType

LEMMA TypeNext == TypeOK /\ [Next]_vars => TypeOK'
<1> SUFFICES ASSUME TypeOK, [Next]_vars PROVE TypeOK'
  OBVIOUS
<1>1. ASSUME NEW c \in Clients, NEW x \in Starts, Join(c, x) PROVE TypeOK'
  BY <1>1, WithPlayerType DEF Join, TypeOK
<1>2. ASSUME NEW i \in inputs, NEW x \in Starts, Ingest(i, x) PROVE TypeOK'
  <2> DEFINE E == [x : Position, v : Directions \union {0}]
             w == WithPlayer(i.from, x)
  <2>1. i \in Input
    BY DEF TypeOK
  <2>2. i.from \in Clients /\ i.dx \in Directions /\ i.last_received_tick \in 0 .. MaxTick
    BY <2>1 DEF Input
  <2>3. w \in Tables(E)
    BY <2>2, WithPlayerType
  <2>4. DOMAIN w \subseteq Clients /\ w \in [DOMAIN w -> E]
    <3> HIDE DEF w, E
    <3> QED
      BY <2>3, TableIs
  <2>5. [w EXCEPT ![i.from].v = i.dx] \in [DOMAIN w -> E]
    <3> HIDE DEF w
    <3> QED
      BY <2>2, <2>4
  <2>6. world' = [w EXCEPT ![i.from].v = i.dx]
    BY <1>2 DEF Ingest, Steered
  <2>7. world' \in Tables(E)
    <3> HIDE DEF w, E
    <3> QED
      BY <2>4, <2>5, <2>6, TableOf
  <2>8. last_received' \in [Clients -> 0 .. MaxTick]
    BY <1>2, <2>2 DEF Ingest, Steered, TypeOK
  <2> QED
    BY <1>2, <2>7, <2>8 DEF Ingest, Steered, TypeOK
<1>3. ASSUME NEW n \in 1 .. MaxSteps, ServerTick(n) PROVE TypeOK'
  BY <1>3, ServerTickType
<1>4. ASSUME NEW c \in Clients, NEW dx \in Directions, SendInput(c, dx) PROVE TypeOK'
  BY <1>4 DEF SendInput, serverVars, TypeOK, Input
<1>5. ASSUME NEW i \in inputs, LoseInput(i) PROVE TypeOK'
  BY <1>5 DEF LoseInput, serverVars, TypeOK
<1>6. ASSUME NEW b \in blobs, ApplySnapshot(b) PROVE TypeOK'
  <2> DEFINE base == baseline[b.to]
             held == IF b.type = "Keyframe" THEN b.changed ELSE Patch(base.entities, b)
  <2>1. b \in Blob /\ b.to \in Clients /\ b.tick \in 1 .. MaxTick /\ b.tick \in 0 .. MaxTick
    BY SyncAssumption DEF TypeOK, Blob
  <2>2. b.changed \in Tables(Level) /\ base.entities \in Tables(Level)
    BY <2>1 DEF TypeOK, Blob
  <2>3. held \in Tables(Level)
    BY <2>1, <2>2, PatchType
  <2>4. baseline' = [baseline EXCEPT ![b.to] = [tick |-> b.tick, entities |-> held]]
    BY <1>6 DEF ApplySnapshot
  <2>5. baseline' \in [Clients -> [tick : 0 .. MaxTick, entities : Tables(Level)]]
    <3> HIDE DEF held
    <3> QED
      BY <2>1, <2>3, <2>4 DEF TypeOK
  <2>6. applied' \in [Clients -> SUBSET (1 .. MaxTick)]
    BY <1>6, <2>1 DEF ApplySnapshot, TypeOK
  <2> QED
    BY <1>6, <2>5, <2>6 DEF ApplySnapshot, serverVars, TypeOK
<1>7. CASE UNCHANGED vars
  BY <1>7 DEF vars, serverVars, TypeOK
<1> QED
  BY <1>1, <1>2, <1>3, <1>4, <1>5, <1>6, <1>7 DEF Next

\* Every variable keeps its type: positions stay in the world, levels in their
\* 12 bits, and no snapshot names a tick outside the run.
THEOREM TypeCorrect == Spec => []TypeOK
BY TypeInit, TypeNext, PTL DEF Spec

----------------------------------------------------------------------------
(* The client's state is the server's                                      *)

\* Patching the view a delta was made from gives the view it was made for.
LEMMA PatchDelta ==
    ASSUME NEW c, NEW t, NEW now, NEW t0, NEW then
    PROVE  Patch(Quantized(then), Delta(c, t, now, t0, then)) = Quantized(now)
<1> DEFINE b == Delta(c, t, now, t0, then)
           changed == { d \in DOMAIN now : d \in DOMAIN then => now[d] # then[d] }
           S == (DOMAIN Quantized(then) \ b.removed) \union DOMAIN b.changed
<1>1. /\ DOMAIN Quantized(then) = DOMAIN then
      /\ DOMAIN Quantized(now) = DOMAIN now
      /\ \A d \in DOMAIN then : Quantized(then)[d] = Quantize(then[d])
      /\ \A d \in DOMAIN now : Quantized(now)[d] = Quantize(now[d])
  BY DEF Quantized
<1>2. /\ b.removed = DOMAIN then \ DOMAIN now
      /\ DOMAIN b.changed = changed
      /\ \A d \in changed : b.changed[d] = Quantize(now[d])
  BY DEF Delta, Quantized
<1>3. S = DOMAIN now
  BY <1>1, <1>2
<1>4. ASSUME NEW d \in DOMAIN now
      PROVE  (IF d \in DOMAIN b.changed THEN b.changed[d] ELSE Quantized(then)[d])
                = Quantized(now)[d]
  <2>1. CASE d \in changed
    BY <2>1, <1>1, <1>2
  <2>2. CASE d \notin changed
    <3>1. d \in DOMAIN then /\ now[d] = then[d]
      BY <2>2
    <3> QED
      BY <3>1, <2>2, <1>1, <1>2
  <2> QED
    BY <2>1, <2>2
<1>5. Patch(Quantized(then), b)
        = [d \in S |-> IF d \in DOMAIN b.changed THEN b.changed[d]
                                                ELSE Quantized(then)[d]]
  BY DEF Patch
<1>6. Quantized(now) = [d \in DOMAIN now |-> Quantized(now)[d]]
  BY <1>1 DEF Quantized
<1>7. [d \in S |-> IF d \in DOMAIN b.changed THEN b.changed[d] ELSE Quantized(then)[d]]
        = [d \in DOMAIN now |-> Quantized(now)[d]]
  <2> HIDE DEF b, changed, S
  <2> QED
    BY <1>3, <1>4
<1> QED
  BY <1>5, <1>6, <1>7

\* Nothing in the system is dated after the server's tick.
NothingFromTheFuture ==
    /\ \A s \in 0 .. Depth - 1 : ring[s].tick <= tick
    /\ \A b \in blobs : b.tick <= tick /\ b.baseline_tick <= tick
    /\ \A c \in Clients : baseline[c].tick <= tick

RingIsRecorded ==
    \A s \in 0 .. Depth - 1 :
        ring[s].tick # 0 => ring[s].entities = recorded[ring[s].tick]

\* A keyframe is the true view, and a delta is the way from one to another.
TrueBlob(b) ==
    /\ b.to \in DOMAIN recorded[b.tick]
    /\ b.type = "Keyframe" => b.changed = TrueView(b.to, b.tick)
    /\ b.type # "Keyframe" =>
          /\ b.baseline_tick # 0
          /\ Patch(TrueView(b.to, b.baseline_tick), b) = TrueView(b.to, b.tick)

Faithful ==
    /\ NothingFromTheFuture
    /\ RingIsRecorded
    /\ \A b \in blobs : TrueBlob(b)
    /\ ViewConsistency

\* The past is never rewritten.
LEMMA FrozenPast ==
    ASSUME TypeOK, [Next]_vars, NEW s \in 1 .. MaxTick, s <= tick
    PROVE  recorded'[s] = recorded[s] /\ \A c : TrueView(c, s)' = TrueView(c, s)
<1>1. recorded'[s] = recorded[s]
  <2>1. ASSUME NEW n \in 1 .. MaxSteps, ServerTick(n) PROVE recorded'[s] = recorded[s]
    <3>1. n \in Nat /\ n >= 1 /\ tick \in Nat /\ s # tick + n
      BY SyncAssumption DEF TypeOK
    <3>2. recorded' = recorded
          \/ \E p : recorded' = [recorded EXCEPT ![tick + n] = p]
      BY <2>1 DEF ServerTick, Positions, Pushed
    <3> QED
      BY <3>1, <3>2 DEF TypeOK
  <2>2. ASSUME ~ \E n \in 1 .. MaxSteps : ServerTick(n) PROVE recorded' = recorded
    BY <2>2 DEF Next, Join, Ingest, Steered, SendInput, LoseInput, ApplySnapshot,
                serverVars, vars
  <2> QED
    BY <2>1, <2>2
<1> QED
  BY <1>1 DEF TrueView

LEMMA FaithfulInit == Init => Faithful
<1> SUFFICES ASSUME Init PROVE Faithful
  OBVIOUS
<1>1. NothingFromTheFuture
  BY DEF Init, NothingFromTheFuture
<1>2. RingIsRecorded
  BY DEF Init, RingIsRecorded
<1>3. ViewConsistency
  BY DEF Init, ViewConsistency
<1> QED
  BY <1>1, <1>2, <1>3 DEF Init, Faithful

LEMMA ServerTickFaithful ==
    ASSUME TypeOK, Faithful, NEW n \in 1 .. MaxSteps, ServerTick(n)
    PROVE  Faithful'
<1>0. PICK t \in 1 .. MaxTick : t = tick + n
  BY SyncAssumption DEF TypeOK, ServerTick
<1> DEFINE moved     == [c \in Joined |-> Moved(world[c], n)]
           positions == [c \in Joined |-> moved[c].x]
           pushed    == [ring EXCEPT ![t % Depth] = [tick |-> t, entities |-> positions]]
           news      == { EncodeFor(pushed, c, last_received[c], t) : c \in Joined }
<1>1. /\ n \in Nat /\ n >= 1 /\ tick \in Nat /\ tick' = t
      /\ t \in 1 .. MaxTick /\ t > tick /\ t % Depth \in 0 .. Depth - 1
  BY <1>0, RingSlot, SyncAssumption DEF TypeOK, ServerTick, Positions, Pushed
<1>2. baseline' = baseline /\ Joined \subseteq Clients
  BY TableIs DEF ServerTick, Positions, Pushed, TypeOK, Joined
<1>3. ViewConsistency'
  <2> SUFFICES ASSUME NEW c \in Clients, baseline[c].tick # 0
               PROVE  /\ c \in DOMAIN recorded'[baseline[c].tick]
                      /\ baseline[c].entities = TrueView(c, baseline[c].tick)'
    BY <1>2 DEF ViewConsistency, TrueView
  <2>1. baseline[c].tick \in 1 .. MaxTick /\ baseline[c].tick <= tick
    BY DEF TypeOK, Faithful, NothingFromTheFuture
  <2>2. [Next]_vars
    BY DEF Next
  <2> QED
    BY <2>1, <2>2, <1>2, FrozenPast DEF Faithful, ViewConsistency
<1>4. ASSUME NEW b \in blobs PROVE TrueBlob(b)'
  <2>1. b \in Blob /\ b.tick \in 1 .. MaxTick /\ b.tick <= tick /\ b.baseline_tick <= tick
    BY DEF TypeOK, Blob, Faithful, NothingFromTheFuture
  <2>2. b.baseline_tick # 0 => b.baseline_tick \in 1 .. MaxTick
    BY <2>1 DEF Blob
  <2>3. [Next]_vars
    BY DEF Next
  <2>4. /\ recorded'[b.tick] = recorded[b.tick]
        /\ TrueView(b.to, b.tick)' = TrueView(b.to, b.tick)
        /\ b.baseline_tick # 0 =>
              TrueView(b.to, b.baseline_tick)' = TrueView(b.to, b.baseline_tick)
    BY <2>1, <2>2, <2>3, FrozenPast
  <2>5. TrueBlob(b)
    BY DEF Faithful
  <2> QED
    BY <2>4, <2>5 DEF TrueBlob, Patch
<1>5. CASE Joined = {}
  <2>1. UNCHANGED <<ring, recorded, blobs>>
    BY <1>5 DEF ServerTick, Positions, Pushed
  <2>2. NothingFromTheFuture'
    BY <2>1, <1>1, <1>2 DEF Faithful, NothingFromTheFuture, TypeOK, Blob
  <2>3. RingIsRecorded'
    BY <2>1 DEF Faithful, RingIsRecorded
  <2> QED
    BY <2>1, <2>2, <2>3, <1>3, <1>4 DEF Faithful
<1>6. CASE Joined # {}
  <2>1. /\ ring' = pushed
        /\ recorded' = [recorded EXCEPT ![t] = positions]
        /\ blobs' = blobs \union news
    BY <1>0, <1>6 DEF ServerTick, Positions, Pushed
  <2>2. recorded'[t] = positions /\ DOMAIN positions = Joined
    BY <2>1, <1>1 DEF TypeOK
  <2>3. /\ pushed[t % Depth] = [tick |-> t, entities |-> positions]
        /\ \A s \in 0 .. Depth - 1 : s # t % Depth => pushed[s] = ring[s]
    BY <1>1 DEF TypeOK
  <2>4. RingIsRecorded'
    <3> SUFFICES ASSUME NEW s \in 0 .. Depth - 1, pushed[s].tick # 0
                 PROVE  pushed[s].entities = recorded'[pushed[s].tick]
      BY <2>1 DEF RingIsRecorded
    <3>1. CASE s = t % Depth
      BY <3>1, <2>2, <2>3
    <3>2. CASE s # t % Depth
      <4>1. /\ pushed[s] = ring[s] /\ ring[s].tick \in 1 .. MaxTick
            /\ ring[s].tick <= tick
        BY <3>2, <2>3 DEF TypeOK, Faithful, NothingFromTheFuture
      <4>2. [Next]_vars
        BY DEF Next
      <4>3. recorded'[ring[s].tick] = recorded[ring[s].tick]
        BY <4>1, <4>2, FrozenPast
      <4> HIDE DEF pushed
      <4> QED
        BY <4>1, <4>3 DEF Faithful, RingIsRecorded
    <3> QED
      BY <3>1, <3>2
  <2>5. \A s \in 0 .. Depth - 1 : pushed[s].tick <= t
    <3> SUFFICES ASSUME NEW s \in 0 .. Depth - 1 PROVE pushed[s].tick <= t
      OBVIOUS
    <3>1. s # t % Depth => pushed[s].tick \in Nat /\ pushed[s].tick <= tick
      BY <2>3 DEF TypeOK, Faithful, NothingFromTheFuture
    <3>2. s = t % Depth => pushed[s].tick = t
      BY <2>3
    <3> HIDE DEF pushed
    <3> QED
      BY <3>1, <3>2, <1>1
  <2>6. ASSUME NEW b \in news
        PROVE  TrueBlob(b)' /\ b.tick <= t /\ b.baseline_tick <= t
    <3>0. PICK t0 : t0 = last_received[b.to]
      OBVIOUS
    <3> DEFINE now == FilterAoi(positions, positions[b.to])
               then == ViewAt(pushed, t0, b.to)
    <3>1. PICK c \in Joined : b = EncodeFor(pushed, c, last_received[c], t)
      OBVIOUS
    <3>2. b.to = c /\ b.tick = t
      BY <3>1 DEF EncodeFor, Delta, Keyframe
    <3>3. ViewAt(pushed, t, c) = now
      BY <2>3, <3>2 DEF ViewAt
    <3>4. Quantized(now) = TrueView(c, t)'
      BY <2>2, <3>2 DEF TrueView
    <3>5. b.to \in DOMAIN recorded'[b.tick]
      BY <2>2, <3>2
    <3>6. t0 \in 0 .. MaxTick /\ t0 % Depth \in 0 .. Depth - 1
      BY <1>2, <3>0, <3>2, RingSlot, SyncAssumption DEF TypeOK
    <3>7. CASE b = Keyframe(c, t, ViewAt(pushed, t, c))
      <4>1. b.type = "Keyframe" /\ b.changed = Quantized(now) /\ b.baseline_tick = 0
        BY <3>7, <3>3 DEF Keyframe
      <4> HIDE DEF now
      <4> QED
        BY <4>1, <3>2, <3>4, <3>5, <1>1 DEF TrueBlob
    <3>8. CASE Held(pushed, t0) /\ b = Delta(c, t, ViewAt(pushed, t, c), t0, then)
      <4>1. b = Delta(c, t, now, t0, then)
        BY <3>8, <3>3
      <4>2. b.type = "Delta" /\ b.baseline_tick = t0
        <5> HIDE DEF now, then
        <5> QED
          BY <4>1 DEF Delta
      <4>3. t0 # 0 /\ pushed[t0 % Depth].tick = t0
        BY <3>8 DEF Held
      <4>4. t0 <= t
        BY <4>3, <2>5, <3>6
      <4>5. pushed[t0 % Depth].entities = recorded'[t0]
        BY <4>3, <2>4, <2>1, <3>6 DEF RingIsRecorded
      <4>6. Quantized(then) = TrueView(c, t0)'
        BY <4>5, <3>2 DEF ViewAt, TrueView
      <4>7. Patch(Quantized(then), b) = Quantized(now)
        BY <4>1, PatchDelta
      <4> HIDE DEF now, then
      <4>8. Patch(TrueView(c, t0)', b) = TrueView(c, t)'
        BY <4>6, <4>7, <3>4
      <4>9. Patch(TrueView(b.to, b.baseline_tick), b)' = TrueView(b.to, b.tick)'
        BY <4>8, <4>2, <3>2 DEF Patch, TrueView
      <4> QED
        BY <4>2, <4>3, <4>4, <4>9, <3>2, <3>5, <1>1 DEF TrueBlob
    <3> QED
      BY <3>0, <3>1, <3>2, <3>7, <3>8 DEF EncodeFor
  <2>7. NothingFromTheFuture'
    <3>1. \A b \in blobs : b.tick <= t /\ b.baseline_tick <= t
      BY <1>1 DEF Faithful, NothingFromTheFuture, TypeOK, Blob
    <3>2. \A c \in Clients : baseline[c].tick <= t
      BY <1>1 DEF Faithful, NothingFromTheFuture, TypeOK
    <3> HIDE DEF pushed, news
    <3> QED
      BY <3>1, <3>2, <2>1, <2>5, <2>6, <1>1, <1>2 DEF NothingFromTheFuture
  <2>8. \A b \in blobs' : TrueBlob(b)'
    <3> HIDE DEF news
    <3> QED
      BY <1>4, <2>1, <2>6
  <2> QED
    BY <1>3, <2>4, <2>7, <2>8 DEF Faithful
<1> QED
  BY <1>5, <1>6

LEMMA ApplySnapshotFaithful ==
    ASSUME TypeOK, Faithful, NEW b \in blobs, ApplySnapshot(b)
    PROVE  Faithful'
<1> DEFINE base == baseline[b.to]
           held == IF b.type = "Keyframe" THEN b.changed ELSE Patch(base.entities, b)
<1>1. b \in Blob /\ b.to \in Clients /\ b.tick \in 1 .. MaxTick /\ TrueBlob(b)
  BY DEF TypeOK, Blob, Faithful
<1>2. /\ b.type = "Keyframe" \/ base.tick = b.baseline_tick
      /\ baseline' = [baseline EXCEPT ![b.to] = [tick |-> b.tick, entities |-> held]]
      /\ UNCHANGED <<tick, ring, recorded, blobs>>
  BY DEF ApplySnapshot, Accepts, serverVars
<1>3. held = TrueView(b.to, b.tick)
  <2>1. CASE b.type = "Keyframe"
    BY <2>1, <1>1 DEF TrueBlob
  <2>2. CASE b.type # "Keyframe"
    <3>1. base.tick = b.baseline_tick /\ b.baseline_tick # 0
      BY <2>2, <1>1, <1>2 DEF TrueBlob
    <3>2. base.entities = TrueView(b.to, b.baseline_tick)
      BY <3>1, <1>1 DEF Faithful, ViewConsistency
    <3> QED
      BY <2>2, <3>2, <1>1 DEF TrueBlob
  <2> QED
    BY <2>1, <2>2
<1>4. /\ baseline'[b.to] = [tick |-> b.tick, entities |-> held]
      /\ \A c \in Clients : c # b.to => baseline'[c] = baseline[c]
  <2> HIDE DEF held
  <2> QED
    BY <1>1, <1>2 DEF TypeOK
<1> HIDE DEF held
<1>5. ViewConsistency'
  <2> SUFFICES ASSUME NEW c \in Clients, baseline'[c].tick # 0
               PROVE  /\ c \in DOMAIN recorded[baseline'[c].tick]
                      /\ baseline'[c].entities = TrueView(c, baseline'[c].tick)
    BY <1>2 DEF ViewConsistency, TrueView
  <2>1. CASE c = b.to
    BY <2>1, <1>1, <1>3, <1>4 DEF TrueBlob
  <2>2. CASE c # b.to
    BY <2>2, <1>4 DEF Faithful, ViewConsistency
  <2> QED
    BY <2>1, <2>2
<1>6. NothingFromTheFuture'
  <2>1. \A c \in Clients : baseline'[c].tick <= tick
    BY <1>4 DEF Faithful, NothingFromTheFuture
  <2> QED
    BY <1>2, <2>1 DEF Faithful, NothingFromTheFuture
<1> QED
  BY <1>2, <1>5, <1>6 DEF Faithful, RingIsRecorded, TrueBlob, TrueView

LEMMA FaithfulNext == TypeOK /\ Faithful /\ [Next]_vars => Faithful'
<1> SUFFICES ASSUME TypeOK, Faithful, [Next]_vars PROVE Faithful'
  OBVIOUS
<1>1. ASSUME UNCHANGED <<tick, ring, recorded, blobs, baseline>> PROVE Faithful'
  BY <1>1 DEF Faithful, NothingFromTheFuture, RingIsRecorded, TrueBlob, TrueView,
              ViewConsistency
<1>2. ASSUME NEW c \in Clients, NEW x \in Starts, Join(c, x) PROVE Faithful'
  BY <1>1, <1>2 DEF Join
<1>3. ASSUME NEW i \in inputs, NEW x \in Starts, Ingest(i, x) PROVE Faithful'
  BY <1>1, <1>3 DEF Ingest, Steered
<1>4. ASSUME NEW n \in 1 .. MaxSteps, ServerTick(n) PROVE Faithful'
  BY <1>4, ServerTickFaithful
<1>5. ASSUME NEW c \in Clients, NEW dx \in Directions, SendInput(c, dx) PROVE Faithful'
  BY <1>1, <1>5 DEF SendInput, serverVars
<1>6. ASSUME NEW i \in inputs, LoseInput(i) PROVE Faithful'
  BY <1>1, <1>6 DEF LoseInput, serverVars
<1>7. ASSUME NEW b \in blobs, ApplySnapshot(b) PROVE Faithful'
  BY <1>7, ApplySnapshotFaithful
<1>8. CASE UNCHANGED vars
  BY <1>1, <1>8 DEF vars, serverVars
<1> QED
  BY <1>2, <1>3, <1>4, <1>5, <1>6, <1>7, <1>8 DEF Next

\* What a client holds is the server's state of one tick, seen from that client:
\* the delta protocol of encode_for and apply_snapshot loses nothing, whatever
\* the network does, for any number of clients and any depth of the ring.
THEOREM ViewConsistencyHolds == Spec => []ViewConsistency
<1>1. Init => TypeOK /\ Faithful
  BY TypeInit, FaithfulInit
<1>2. TypeOK /\ Faithful /\ [Next]_vars => (TypeOK /\ Faithful)'
  BY TypeNext, FaithfulNext
<1>3. Faithful => ViewConsistency
  BY DEF Faithful
<1> QED
  BY <1>1, <1>2, <1>3, PTL DEF Spec

----------------------------------------------------------------------------
(* What the server diffs against                                           *)

\* Every tick offered as an acknowledgement was applied by the client it is
\* offered for.
AcksAreApplied ==
    /\ \A c \in Clients : baseline[c].tick \in applied[c] \union {0}
    /\ \A i \in inputs : i.last_received_tick \in applied[i.from] \union {0}
    /\ \A c \in Clients : last_received[c] \in applied[c] \union {0}
    /\ DiffsOnlyAgainstApplied

LEMMA AcksNext == TypeOK /\ AcksAreApplied /\ [Next]_vars => AcksAreApplied'
<1> SUFFICES ASSUME TypeOK, AcksAreApplied, [Next]_vars PROVE AcksAreApplied'
  OBVIOUS
<1>1. ASSUME UNCHANGED <<last_received, baseline, inputs, blobs, applied>>
      PROVE  AcksAreApplied'
  BY <1>1 DEF AcksAreApplied, DiffsOnlyAgainstApplied
<1>2. ASSUME NEW c \in Clients, NEW x \in Starts, Join(c, x) PROVE AcksAreApplied'
  BY <1>1, <1>2 DEF Join
<1>3. ASSUME NEW i \in inputs, NEW x \in Starts, Ingest(i, x) PROVE AcksAreApplied'
  <2>1. i \in Input /\ i.from \in Clients
    BY DEF TypeOK, Input
  <2>2. \A c \in Clients : last_received'[c] \in {last_received[c]}
           \union (IF c = i.from THEN {i.last_received_tick} ELSE {})
    BY <1>3, <2>1 DEF Ingest, Steered, TypeOK
  <2> QED
    BY <1>3, <2>2 DEF Ingest, Steered, AcksAreApplied, DiffsOnlyAgainstApplied
<1>4. ASSUME NEW n \in 1 .. MaxSteps, ServerTick(n) PROVE AcksAreApplied'
  <2>1. UNCHANGED <<last_received, baseline, inputs, applied>>
    BY <1>4 DEF ServerTick
  <2>2. Joined \subseteq Clients
    BY TableIs DEF TypeOK, Joined
  <2>3. ASSUME NEW b \in blobs', b \notin blobs, b.type = "Delta"
        PROVE  b.baseline_tick \in applied[b.to]
    <3> DEFINE t      == tick + n
               moved  == [c \in Joined |-> Moved(world[c], n)]
               pushed == Pushed(ring, t, Positions(moved))
    <3>1. blobs' \subseteq blobs
                    \union { EncodeFor(pushed, c, last_received[c], t) : c \in Joined }
      BY <1>4 DEF ServerTick
    <3>2. PICK c \in Joined : b = EncodeFor(pushed, c, last_received[c], t)
      BY <2>3, <3>1
    <3> HIDE DEF pushed
    <3>4. b.to = c /\ b.baseline_tick = last_received[c] /\ last_received[c] # 0
      BY <3>2, <2>3 DEF EncodeFor, Delta, Keyframe, Held
    <3> QED
      BY <3>4, <2>2 DEF AcksAreApplied
  <2> QED
    BY <2>1, <2>3 DEF AcksAreApplied, DiffsOnlyAgainstApplied
<1>5. ASSUME NEW c \in Clients, NEW dx \in Directions, SendInput(c, dx)
      PROVE  AcksAreApplied'
  BY <1>5 DEF SendInput, serverVars, AcksAreApplied, DiffsOnlyAgainstApplied
<1>6. ASSUME NEW i \in inputs, LoseInput(i) PROVE AcksAreApplied'
  BY <1>6 DEF LoseInput, serverVars, AcksAreApplied, DiffsOnlyAgainstApplied
<1>7. ASSUME NEW b \in blobs, ApplySnapshot(b) PROVE AcksAreApplied'
  <2>1. /\ UNCHANGED <<last_received, inputs, blobs>>
        /\ applied' = [applied EXCEPT ![b.to] = @ \union {b.tick}]
    BY <1>7 DEF ApplySnapshot, serverVars
  <2>2. b.to \in Clients /\ \A c \in Clients : baseline'[c].tick =
                             IF c = b.to THEN b.tick ELSE baseline[c].tick
    BY <1>7 DEF ApplySnapshot, TypeOK, Blob
  <2>3. \A c \in Clients : applied[c] \subseteq applied'[c]
    BY <2>1 DEF TypeOK
  <2>4. \A c \in Clients : baseline'[c].tick \in applied'[c] \union {0}
    BY <2>1, <2>2, <2>3 DEF AcksAreApplied, TypeOK
  <2>5. \A i \in inputs : i.from \in Clients
    BY DEF TypeOK, Input
  <2>6. \A d \in blobs : d.to \in Clients
    BY DEF TypeOK, Blob
  <2> QED
    BY <2>1, <2>3, <2>4, <2>5, <2>6 DEF AcksAreApplied, DiffsOnlyAgainstApplied
<1>8. CASE UNCHANGED vars
  BY <1>1, <1>8 DEF vars, serverVars
<1> QED
  BY <1>2, <1>3, <1>4, <1>5, <1>6, <1>7, <1>8 DEF Next

\* The server diffs only against what a client has told it that it applied.
THEOREM DiffsOnlyAgainstAppliedHolds == Spec => []DiffsOnlyAgainstApplied
<1>1. Init => TypeOK /\ AcksAreApplied
  <2>1. Init => AcksAreApplied
    BY DEF Init, AcksAreApplied, DiffsOnlyAgainstApplied
  <2> QED
    BY <2>1, TypeInit
<1>2. TypeOK /\ AcksAreApplied /\ [Next]_vars => (TypeOK /\ AcksAreApplied)'
  BY TypeNext, AcksNext
<1>3. AcksAreApplied => DiffsOnlyAgainstApplied
  BY DEF AcksAreApplied
<1> QED
  BY <1>1, <1>2, <1>3, PTL DEF Spec

----------------------------------------------------------------------------
(* The ring's window                                                       *)

\* Each slot of the ring is empty or holds one of the last Depth ticks, at the
\* index that tick has; before the first client nothing is recorded.
RingIsRecent ==
    /\ \A s \in 0 .. Depth - 1 : ring[s].tick # 0 =>
          /\ Joined # {}
          /\ ring[s].tick % Depth = s
          /\ ring[s].tick > tick - Depth
    /\ AgedOutFallsBack

LEMMA NextLap ==
    ASSUME NEW a \in Nat, NEW b \in Nat, a = b + Depth
    PROVE  a % Depth = b % Depth
<1>1. Depth \in Nat \ {0}
  BY SyncAssumption
<1>2. a % Depth \in 0 .. Depth - 1 /\ b % Depth \in 0 .. Depth - 1
      /\ a \div Depth \in Nat /\ b \div Depth \in Nat
      /\ a = (a \div Depth) * Depth + (a % Depth)
      /\ b = (b \div Depth) * Depth + (b % Depth)
  BY <1>1, DivMod
<1> DEFINE q == (a \div Depth) - (b \div Depth) - 1
<1>3. q \in Int /\ Depth * q = (b % Depth) - (a % Depth)
  BY <1>1, <1>2
<1>4. q = 0
  <2>1. ASSUME q >= 1 PROVE FALSE
    <3>1. Depth * q >= Depth
      BY <2>1, <1>1, <1>3
    <3> QED
      BY <3>1, <1>1, <1>2, <1>3
  <2>2. ASSUME q <= -1 PROVE FALSE
    <3>1. Depth * q <= -Depth
      BY <2>2, <1>1, <1>3
    <3> QED
      BY <3>1, <1>1, <1>2, <1>3
  <2> HIDE DEF q
  <2> QED
    BY <2>1, <2>2, <1>3
<1> HIDE DEF q
<1> QED
  BY <1>1, <1>2, <1>3, <1>4

LEMMA RingIsRecentNext ==
    ASSUME MaxSteps = 1
    PROVE  TypeOK /\ Faithful /\ RingIsRecent /\ [Next]_vars => RingIsRecent'
<1> SUFFICES ASSUME TypeOK, Faithful, RingIsRecent, [Next]_vars PROVE RingIsRecent'
  OBVIOUS
<1>1. ASSUME UNCHANGED <<tick, ring, blobs>>, Joined # {} => Joined' # {}
      PROVE  RingIsRecent'
  BY <1>1 DEF RingIsRecent, AgedOutFallsBack
<1>2. ASSUME NEW c \in Clients, NEW x \in Starts, Join(c, x) PROVE RingIsRecent'
  BY <1>1, <1>2 DEF Join, Joined, WithPlayer
<1>3. ASSUME NEW i \in inputs, NEW x \in Starts, Ingest(i, x) PROVE RingIsRecent'
  BY <1>1, <1>3 DEF Ingest, Steered, Joined, WithPlayer
<1>4. ASSUME NEW n \in 1 .. MaxSteps, ServerTick(n) PROVE RingIsRecent'
  <2> DEFINE moved     == [c \in Joined |-> Moved(world[c], n)]
             positions == [c \in Joined |-> moved[c].x]
  <2>1. PICK t \in 1 .. MaxTick : t = tick + 1
    BY <1>4, SyncAssumption DEF TypeOK, ServerTick, Positions, Pushed
  <2>2. n = 1 /\ tick' = t /\ Joined' = Joined /\ tick \in Nat /\ t % Depth \in 0 .. Depth - 1
    BY <1>4, <2>1, RingSlot DEF TypeOK, ServerTick, Positions, Pushed, Joined
  <2> DEFINE pushed == [ring EXCEPT ![t % Depth] = [tick |-> t, entities |-> positions]]
  <2>3. CASE Joined = {}
    <3>1. UNCHANGED <<ring, blobs>>
      BY <1>4, <2>3 DEF ServerTick, Positions, Pushed
    <3> QED
      BY <3>1, <2>2, <2>3 DEF RingIsRecent, AgedOutFallsBack
  <2>4. CASE Joined # {}
    <3>1. /\ ring' = pushed
          /\ blobs' = blobs \union { EncodeFor(pushed, c, last_received[c], t) : c \in Joined }
      BY <1>4, <2>1, <2>2, <2>4 DEF ServerTick, Positions, Pushed
    <3>2. /\ pushed[t % Depth].tick = t
          /\ \A s \in 0 .. Depth - 1 : s # t % Depth => pushed[s] = ring[s]
      BY <2>2 DEF TypeOK
    <3>3. ASSUME NEW s \in 0 .. Depth - 1, pushed[s].tick # 0
          PROVE  pushed[s].tick % Depth = s /\ pushed[s].tick > t - Depth
      <4>1. CASE s = t % Depth
        BY <4>1, <2>1, <3>2, SyncAssumption
      <4>2. CASE s # t % Depth
        <5>1. /\ pushed[s].tick = ring[s].tick /\ ring[s].tick \in Nat
              /\ ring[s].tick % Depth = s /\ ring[s].tick > tick - Depth
          BY <4>2, <3>2, <3>3 DEF RingIsRecent, TypeOK
        <5>2. ring[s].tick + Depth # t
          BY <4>2, <5>1, NextLap
        <5> HIDE DEF pushed
        <5> QED
          BY <5>1, <5>2, <2>1, <2>2, SyncAssumption
      <4> QED
        BY <4>1, <4>2
    <3>4. ASSUME NEW b \in blobs', b.type = "Delta"
          PROVE  b.tick - b.baseline_tick < Depth
      <4>1. CASE b \in blobs
        BY <4>1, <3>4 DEF RingIsRecent, AgedOutFallsBack
      <4>2. CASE b \notin blobs
        <5>1. PICK c \in Joined : b = EncodeFor(pushed, c, last_received[c], t)
          BY <4>2, <3>1
        <5>2. last_received[c] \in Nat
          BY TableIs DEF TypeOK, Joined
        <5> HIDE DEF pushed
        <5>3. /\ b.tick = t /\ b.baseline_tick = last_received[c]
              /\ last_received[c] # 0
              /\ pushed[last_received[c] % Depth].tick = last_received[c]
          BY <5>1, <3>4 DEF EncodeFor, Delta, Keyframe, Held
        <5>4. last_received[c] > t - Depth
          BY <5>2, <5>3, <3>3, RingSlot
        <5> QED
          BY <5>2, <5>3, <5>4, SyncAssumption
      <4> QED
        BY <4>1, <4>2
    <3> HIDE DEF pushed
    <3> QED
      BY <2>2, <2>4, <3>1, <3>3, <3>4 DEF RingIsRecent, AgedOutFallsBack
  <2> QED
    BY <2>3, <2>4
<1>5. ASSUME NEW c \in Clients, NEW dx \in Directions, SendInput(c, dx)
      PROVE  RingIsRecent'
  BY <1>1, <1>5 DEF SendInput, serverVars, Joined
<1>6. ASSUME NEW i \in inputs, LoseInput(i) PROVE RingIsRecent'
  BY <1>1, <1>6 DEF LoseInput, serverVars, Joined
<1>7. ASSUME NEW b \in blobs, ApplySnapshot(b) PROVE RingIsRecent'
  BY <1>1, <1>7 DEF ApplySnapshot, serverVars, Joined
<1>8. CASE UNCHANGED vars
  BY <1>1, <1>8 DEF vars, serverVars, Joined
<1> QED
  BY <1>2, <1>3, <1>4, <1>5, <1>6, <1>7, <1>8 DEF Next

\* While every iteration of the loop owes one step, a baseline that has left the
\* ring's window is answered with a keyframe (the run StateSyncSkippedSlots shows
\* that the assumption is needed).
THEOREM AgedOutFallsBackHolds ==
    ASSUME MaxSteps = 1
    PROVE  Spec => []AgedOutFallsBack
<1> DEFINE IInv == TypeOK /\ Faithful /\ RingIsRecent
<1>1. Init => IInv
  <2>1. Init => RingIsRecent
    BY DEF Init, RingIsRecent, AgedOutFallsBack
  <2> QED
    BY <2>1, TypeInit, FaithfulInit
<1>2. IInv /\ [Next]_vars => IInv'
  BY TypeNext, FaithfulNext, RingIsRecentNext
<1>3. IInv => AgedOutFallsBack
  BY DEF RingIsRecent
<1> QED
  BY <1>1, <1>2, <1>3, PTL DEF Spec

----------------------------------------------------------------------------
(* The wire.  A writer or a buffer is related to one number, whose binary  *)
(* digits are the bits written so far; fields are parts of that number,    *)
(* and appending to it leaves them where they are.                         *)

----------------------------------------------------------------------------
(* Writing bits *)

\* The i-th byte of the first n bits, read as one number v.
ByteOf(v, n, i) == Low(High(v, n - i * ByteBits), ByteBits)

Writer == [out : Seq(Nat), acc : Nat, nbits : Nat]

\* The writer w has been given n bits, which make up the number v.
Holds(w, v, n) ==
    /\ w \in Writer /\ v \in Nat /\ n \in Nat
    /\ Len(w.out) = n \div ByteBits
    /\ \A i \in 1 .. Len(w.out) : w.out[i] = ByteOf(v, n, i)
    /\ w.nbits = n % ByteBits
    /\ Low(w.acc, w.nbits) = Low(v, w.nbits)

\* The buffer is the beginning of the n bits of the number v.
Spells(data, v, n) ==
    /\ v \in Nat /\ n \in Nat
    /\ data \in Seq(Nat) /\ Len(data) * ByteBits <= n
    /\ \A i \in 1 .. Len(data) : data[i] = ByteOf(v, n, i)

\* A field of the number v of n bits: the bits from position at on.
Field(v, n, at, bits) == Low(High(v, n - at - bits), bits)

\* A new writer has been given nothing.
LEMMA NewWriterHolds == Holds(NewWriter, 0, 0)
<1>1. 0 \div ByteBits = 0 /\ 0 % ByteBits = 0
  BY BitAssumption, DivUnique, 0 * ByteBits + 0 = 0
<1>2. <<>> \in Seq(Nat) /\ Len(<<>>) = 0
  OBVIOUS
<1>3. NewWriter \in Writer
  BY <1>2 DEF NewWriter, Writer
<1> QED
  BY <1>1, <1>2, <1>3 DEF Holds, NewWriter

\* Numbers that agree in their last m bits agree in every part of those.
LEMMA SameLast ==
    ASSUME NEW x \in Nat, NEW y \in Nat, NEW m \in Nat, NEW b \in Nat,
           b <= m, Low(x, m) = Low(y, m)
    PROVE  Low(x, b) = Low(y, b)
<1>1. PICK r \in Nat : m = b + r
  OBVIOUS
<1>2. Low(Low(x, b + r), b) = Low(x, b) /\ Low(Low(y, b + r), b) = Low(y, b)
  BY LowLow
<1> QED
  BY <1>1, <1>2

\* ...as their digits agree, wherever in those they are.
LEMMA SameDigits ==
    ASSUME NEW x \in Nat, NEW y \in Nat, NEW m \in Nat, NEW s \in Nat, NEW b \in Nat,
           s + b <= m, Low(x, m) = Low(y, m)
    PROVE  Low(High(x, s), b) = Low(High(y, s), b)
<1>1. Low(x, s + b) = Low(y, s + b)
  BY SameLast
<1>2. High(Low(x, s + b), s) = Low(High(x, s), b)
  BY HighOfLow
<1>3. High(Low(y, s + b), s) = Low(High(y, s), b)
  BY HighOfLow
<1> QED
  BY <1>1, <1>2, <1>3, Zenon

\* write_bits appends the bits of the value, whatever stale ones acc_ holds above
\* the pending ones: provided it has room for a whole field on top of a byte's rest.
LEMMA WriteHolds ==
    ASSUME NEW w, NEW v, NEW n, Holds(w, v, n), NEW bits \in Nat,
           NEW value \in Nat, value < Pow2[bits], ByteBits - 1 + bits <= AccBits
    PROVE  Holds(WriteBits(w, value, bits), Shifted(v, bits) + value, n + bits)
<1> DEFINE acc   == Low(Shifted(w.acc, bits), AccBits) + Low(value, bits)
           total == w.nbits + bits
           byte(k) == Low(High(acc, total - k * ByteBits), ByteBits)
           v2    == Shifted(v, bits) + value
           q     == n \div ByteBits
           q2    == total \div ByteBits
           ww    == WriteBits(w, value, bits)
<1>1. ByteBits \in Nat \ {0} /\ AccBits \in Nat \ {0}
  BY BitAssumption
<1>2. v \in Nat /\ n \in Nat /\ q \in Nat /\ w.nbits = n % ByteBits
      /\ w.nbits \in 0 .. ByteBits - 1 /\ n = q * ByteBits + w.nbits
  <2>1. v \in Nat /\ n \in Nat /\ w.nbits = n % ByteBits
    BY DEF Holds
  <2>2. q \in Nat /\ n % ByteBits \in Nat /\ n % ByteBits < ByteBits
        /\ n = q * ByteBits + (n % ByteBits)
    BY <1>1, <2>1, DivMod
  <2> QED
    BY <1>1, <2>1, <2>2
<1>3. w.acc \in Nat /\ w.out \in Seq(Nat) /\ Len(w.out) = q
      /\ Low(w.acc, w.nbits) = Low(v, w.nbits)
      /\ \A i \in 1 .. q : w.out[i] = ByteOf(v, n, i)
  BY DEF Holds, Writer
<1> DEFINE more  == [k \in 1 .. q2 |-> byte(k)]
<1>4. ww = [out |-> w.out \o more, acc |-> acc, nbits |-> total % ByteBits]
  BY DEF WriteBits
<1>6. total \in Nat /\ total <= AccBits /\ v2 \in Nat
  <2>1. Shifted(v, bits) \in Nat
    BY <1>2, PartsType
  <2> QED
    BY <1>1, <1>2, <2>1
<1>7. Low(value, bits) = value
  BY SmallIsLow
<1>8. acc \in Nat
  <2>1. Shifted(w.acc, bits) \in Nat
    BY <1>3, PartsType
  <2>2. Low(Shifted(w.acc, bits), AccBits) \in Nat
    BY <1>1, <2>1, PartsType
  <2> QED
    BY <1>7, <2>2
<1>9. Low(acc, total) = Low(v2, total)
  <2>1. PICK t \in Nat, a \in Nat, m \in Nat :
           t = w.nbits /\ a = w.acc /\ m = t + bits /\ Low(a, t) = Low(v, t)
    BY <1>2, <1>3
  <2>2. PICK x \in Nat, y \in Nat : x = Shifted(a, bits) /\ y = Shifted(v, bits)
    BY <1>2, PartsType
  <2>3. PICK z \in Nat : z = Low(x, AccBits)
    BY <1>1, PartsType
  <2>4. Low(x, m) = Low(y, m)
    <3>1. Low(Shifted(a, bits), t + bits) = Shifted(Low(a, t), bits)
      BY LowOfShifted
    <3>2. Low(Shifted(v, bits), t + bits) = Shifted(Low(v, t), bits)
      BY <1>2, LowOfShifted
    <3> QED
      BY <2>1, <2>2, <3>1, <3>2
  <2>5. Low(z, m) = Low(x, m)
    <3>0. m <= AccBits /\ AccBits \in Nat
      BY <1>1, <1>6, <2>1
    <3>1. PICK r \in Nat : AccBits = m + r
      BY <3>0
    <3>2. Low(Low(x, m + r), m) = Low(x, m)
      BY LowLow
    <3> QED
      BY <2>3, <3>1, <3>2
  <2>6. Low(z + value, m) = Low(Low(z, m) + value, m)
    BY LowOfSum
  <2>7. Low(y + value, m) = Low(Low(y, m) + value, m)
    BY LowOfSum
  <2>8. acc = z + value /\ v2 = y + value /\ total = m
    BY <1>7, <2>1, <2>2, <2>3
  <2> HIDE DEF acc, v2, total
  <2> QED
    BY <2>4, <2>5, <2>6, <2>7, <2>8
<1>10. /\ q2 \in Nat /\ total % ByteBits \in Nat /\ total % ByteBits < ByteBits
       /\ total = q2 * ByteBits + (total % ByteBits)
  BY <1>1, <1>6, DivMod
<1> HIDE DEF v2
<1> HIDE DEF acc, total, q, q2
<1>11. (n + bits) \div ByteBits = q + q2 /\ (n + bits) % ByteBits = total % ByteBits
  <2>1. n + bits = (q + q2) * ByteBits + (total % ByteBits)
    BY <1>1, <1>2, <1>10 DEF total
  <2>2. PICK s \in Nat : s = q + q2
    BY <1>2, <1>10
  <2>3. PICK u \in Nat : u = total % ByteBits
    BY <1>10
  <2>4. u < ByteBits /\ n + bits = s * ByteBits + u
    BY <1>10, <2>1, <2>2, <2>3
  <2>5. (s * ByteBits + u) \div ByteBits = s /\ (s * ByteBits + u) % ByteBits = u
    BY <1>1, <2>4, DivUnique
  <2> QED
    BY <2>2, <2>3, <2>4, <2>5
<1>12. ASSUME NEW k \in 1 .. q2
       PROVE  byte(k) \in Nat /\ byte(k) = ByteOf(v2, n + bits, q + k)
  <2>1. PICK s \in Nat : s = total - k * ByteBits
    <3>1. PICK d \in Nat : q2 = k + d
      BY <1>10
    <3>2. q2 * ByteBits = k * ByteBits + d * ByteBits /\ d * ByteBits \in Nat
          /\ k * ByteBits \in Nat
      BY <1>1, <3>1
    <3> QED
      BY <1>10, <3>2
  <2>2. k * ByteBits >= ByteBits
    BY <1>1
  <2>3. s + ByteBits <= total
    BY <1>1, <1>6, <2>1, <2>2
  <2>4. Low(High(acc, s), ByteBits) = Low(High(v2, s), ByteBits)
    BY <1>1, <1>6, <1>8, <1>9, <2>3, SameDigits
  <2>5. n + bits - (q + k) * ByteBits = s
    BY <1>1, <1>2, <2>1 DEF total
  <2>6. Low(High(acc, s), ByteBits) \in Nat
    <3>1. High(acc, s) \in Nat
      BY <1>8, PartsType
    <3> QED
      BY <1>1, <3>1, PartsType
  <2> QED
    BY <1>1, <1>2, <2>1, <2>4, <2>5, <2>6 DEF ByteOf
<1> HIDE DEF byte
<1>13. ASSUME NEW i \in 1 .. q PROVE w.out[i] = ByteOf(v2, n + bits, i)
  <2>1. PICK j \in Nat : j = n - i * ByteBits
    <3>1. PICK d \in Nat : q = i + d
      BY <1>2
    <3>2. q * ByteBits = i * ByteBits + d * ByteBits /\ d * ByteBits \in Nat
          /\ i * ByteBits \in Nat
      BY <1>1, <3>1
    <3> QED
      BY <1>2, <3>2
  <2>2. n + bits - i * ByteBits = bits + j
    BY <1>1, <1>2, <2>1
  <2>3. High(v2, bits + j) = High(v, j)
    BY <1>2, <2>1, HighOfShifted DEF v2
  <2> QED
    <3>1. w.out[i] = ByteOf(v, n, i)
      BY <1>3
    <3>2. ByteOf(v, n, i) = Low(High(v, j), ByteBits)
      BY <2>1 DEF ByteOf
    <3>3. ByteOf(v2, n + bits, i) = Low(High(v2, bits + j), ByteBits)
      BY <1>1, <1>2, <2>1, <2>2 DEF ByteOf
    <3> QED
      BY <2>3, <3>1, <3>2, <3>3
<1>14. more \in Seq(Nat) /\ Len(more) = q2 /\ \A k \in 1 .. q2 : more[k] = ByteOf(v2, n + bits, q + k)
  <2>1. more \in [1 .. q2 -> Nat] /\ \A k \in 1 .. q2 : more[k] = ByteOf(v2, n + bits, q + k)
    BY <1>12
  <2> HIDE DEF more
  <2>2. more \in Seq(Nat) /\ Len(more) = q2
    BY <1>10, <2>1
  <2> QED
    BY <2>1, <2>2
<1> HIDE DEF more, ww
<1>15. /\ ww.out \in Seq(Nat) /\ Len(ww.out) = q + q2
       /\ \A i \in 1 .. q + q2 : ww.out[i] = ByteOf(v2, n + bits, i)
  <2>1. PICK o \in Seq(Nat) : o = w.out
    BY <1>3
  <2>2. Len(o) = q /\ \A i \in 1 .. q : o[i] = ByteOf(v2, n + bits, i)
    BY <1>3, <1>13, <2>1
  <2>5. Len(o) = q /\ more \in Seq(Nat) /\ Len(more) = q2
    BY <1>14, <2>2
  <2>3. /\ o \o more \in Seq(Nat) /\ Len(o \o more) = q + q2
        /\ \A i \in 1 .. q + q2 : (o \o more)[i] = IF i <= q THEN o[i] ELSE more[i - q]
    BY <2>5, ConcatProperties
  <2>4. ASSUME NEW i \in 1 .. q + q2 PROVE (o \o more)[i] = ByteOf(v2, n + bits, i)
    <3>1. CASE i <= q
      <4>1. i \in 1 .. q
        BY <1>2, <1>10, <3>1
      <4> QED
        BY <2>2, <2>3, <3>1, <4>1
    <3>2. CASE ~(i <= q)
      <4>1. PICK k \in 1 .. q2 : i = q + k /\ k = i - q
        BY <1>2, <1>10, <3>2
      <4>2. more[k] = ByteOf(v2, n + bits, q + k)
        BY <1>14
      <4> QED
        BY <2>3, <3>2, <4>1, <4>2
    <3> QED
      BY <3>1, <3>2
  <2> QED
    BY <1>4, <2>1, <2>3, <2>4
<1>16. PICK r \in Nat : r = total % ByteBits /\ r <= total
  <2>1. q2 * ByteBits \in Nat
    BY <1>1, <1>10
  <2> QED
    BY <1>6, <1>10, <2>1
<1>17. Low(acc, r) = Low(v2, r)
  BY <1>6, <1>8, <1>9, <1>16, SameLast
<1>18. n + bits \in Nat
  BY <1>2
<1>19. ww \in Writer
  BY <1>4, <1>8, <1>10, <1>15 DEF Writer
<1>20. Holds(ww, v2, n + bits)
  BY <1>4, <1>6, <1>8, <1>11, <1>15, <1>16, <1>17, <1>18, <1>19 DEF Holds
<1> QED
  BY <1>20 DEF v2, ww

----------------------------------------------------------------------------
(* Taking and reading them *)

\* take hands out every bit that was written, and fewer zeros after them than make
\* a byte.
LEMMA TakeSpells ==
    ASSUME NEW w, NEW v, NEW n, Holds(w, v, n)
    PROVE  \E p \in 0 .. ByteBits - 1 :
             /\ Spells(Take(w), Shifted(v, p), n + p)
             /\ Len(Take(w)) * ByteBits = n + p
<1>1. ByteBits \in Nat \ {0}
  BY BitAssumption
<1>2. v \in Nat /\ n \in Nat
  BY DEF Holds
<1>3. PICK q \in Nat, t \in 0 .. ByteBits - 1 :
         n = q * ByteBits + t /\ Len(w.out) = q /\ w.nbits = t
  <2>1. /\ n \div ByteBits \in Nat /\ n % ByteBits \in Nat /\ n % ByteBits < ByteBits
        /\ n = (n \div ByteBits) * ByteBits + (n % ByteBits)
    BY <1>1, <1>2, DivMod
  <2>2. n % ByteBits \in 0 .. ByteBits - 1
    BY <1>1, <2>1
  <2> QED
    BY <2>1, <2>2 DEF Holds
<1>4. PICK out \in Seq(Nat), acc \in Nat :
         /\ out = w.out /\ acc = w.acc /\ t = w.nbits /\ Len(out) = q
         /\ \A i \in 1 .. q : out[i] = ByteOf(v, n, i)
         /\ Low(acc, t) = Low(v, t)
  BY <1>3 DEF Holds, Writer
<1>5. CASE t = 0
  <2>1. Take(w) = out
    BY <1>4, <1>5 DEF Take
  <2>2. Shifted(v, 0) = v /\ n + 0 = n
    BY <1>2, AtZero
  <2>3. Spells(out, v, n)
    BY <1>1, <1>2, <1>3, <1>4, <1>5 DEF Spells
  <2>4. 0 \in 0 .. ByteBits - 1 /\ Len(out) * ByteBits = n + 0
    BY <1>1, <1>2, <1>3, <1>4, <1>5
  <2> QED
    BY <2>1, <2>2, <2>3, <2>4
<1>6. CASE t # 0
  <2>1. PICK p \in 1 .. ByteBits - 1 : p = ByteBits - t
    BY <1>1, <1>3, <1>6
  <2>2. PICK last \in Nat : last = Low(Shifted(acc, p), ByteBits)
    <3>1. p \in Nat
      BY <1>1
    <3>2. Shifted(acc, p) \in Nat
      BY <3>1, PartsType
    <3> QED
      BY <1>1, <3>2, PartsType
  <2>3. Take(w) = Append(out, last)
    BY <1>4, <1>6, <2>1, <2>2 DEF Take
  <2>4. PICK u \in Nat : u = Shifted(v, p)
    BY <1>2, PartsType
  <2>5. n + p = (q + 1) * ByteBits /\ n + p \in Nat
    BY <1>1, <1>2, <1>3, <2>1
  <2>6. ASSUME NEW i \in 1 .. q PROVE out[i] = ByteOf(u, n + p, i)
    <3>1. PICK j \in Nat : j = n - i * ByteBits
      <4>1. PICK d \in Nat : q = i + d
        BY <1>2
      <4>2. q * ByteBits = i * ByteBits + d * ByteBits /\ d * ByteBits \in Nat
            /\ i * ByteBits \in Nat
        BY <1>1, <4>1
      <4> QED
        BY <1>2, <1>3, <4>2
    <3>2. n + p - i * ByteBits = p + j
      BY <1>1, <1>2, <2>1, <3>1
    <3>3. High(u, p + j) = High(v, j)
      <4>1. 0 < Pow2[p] /\ Shifted(v, p) + 0 = u
        <5>1. p \in Nat /\ Pow2[p] \in Nat \ {0}
          BY Pow2Facts
        <5> QED
          BY <2>4, <5>1
      <4>2. High(Shifted(v, p) + 0, p + j) = High(v, j)
        BY <1>2, <4>1, HighOfShifted
      <4> QED
        BY <4>1, <4>2
    <3>4. ByteOf(v, n, i) = Low(High(v, j), ByteBits)
      BY <3>1 DEF ByteOf
    <3>5. ByteOf(u, n + p, i) = Low(High(u, p + j), ByteBits)
      BY <1>1, <1>2, <3>1, <3>2 DEF ByteOf
    <3> QED
      BY <1>4, <3>3, <3>4, <3>5
  <2>7. last = ByteOf(u, n + p, q + 1)
    <3>1. Low(Shifted(acc, p), t + p) = Shifted(Low(acc, t), p)
      BY LowOfShifted
    <3>2. Low(Shifted(v, p), t + p) = Shifted(Low(v, t), p)
      BY <1>2, LowOfShifted
    <3>3. t + p = ByteBits
      BY <1>1, <1>3, <2>1
    <3>4. last = Low(u, ByteBits)
      BY <1>4, <2>2, <2>4, <3>1, <3>2, <3>3
    <3>5. n + p - (q + 1) * ByteBits = 0
      BY <1>1, <1>2, <2>5
    <3>6. ByteOf(u, n + p, q + 1) = Low(High(u, 0), ByteBits)
      BY <1>1, <1>2, <3>5 DEF ByteOf
    <3> QED
      BY <3>4, <3>6, AtZero
  <2>8. /\ Append(out, last) \in Seq(Nat) /\ Len(Append(out, last)) = q + 1
        /\ \A i \in 1 .. q : Append(out, last)[i] = out[i]
        /\ Append(out, last)[q + 1] = last
    BY <1>4
  <2>9. ASSUME NEW i \in 1 .. q + 1 PROVE Append(out, last)[i] = ByteOf(u, n + p, i)
    BY <2>6, <2>7, <2>8
  <2>10. Spells(Append(out, last), u, n + p)
    BY <1>1, <2>5, <2>8, <2>9 DEF Spells
  <2> QED
    BY <2>1, <2>3, <2>4, <2>5, <2>8, <2>10
<1> QED
  BY <1>5, <1>6

\* The i-th bit of a buffer.
LEMMA BitRead ==
    ASSUME NEW data, NEW v, NEW n, Spells(data, v, n),
           NEW i \in Nat, i < Len(data) * ByteBits
    PROVE  /\ n - 1 - i \in Nat
           /\ BitAt(data, i) = Low(High(v, n - 1 - i), 1)
<1>1. ByteBits \in Nat \ {0}
  BY BitAssumption
<1>2. PICK len \in Nat : /\ len = Len(data) /\ v \in Nat /\ n \in Nat
                          /\ len * ByteBits <= n /\ i < len * ByteBits
  BY DEF Spells
<1>3. PICK q \in Nat, r \in 0 .. ByteBits - 1 :
         /\ q = i \div ByteBits /\ r = i % ByteBits /\ i = q * ByteBits + r
  <2>1. /\ i \div ByteBits \in Nat /\ i % ByteBits \in Nat /\ i % ByteBits < ByteBits
        /\ i = (i \div ByteBits) * ByteBits + (i % ByteBits)
    BY <1>1, DivMod
  <2>2. i % ByteBits \in 0 .. ByteBits - 1
    BY <1>1, <2>1
  <2> QED
    BY <2>1, <2>2
<1>4. PICK d \in Nat : len = q + 1 + d
  <2>1. ASSUME q >= len PROVE FALSE
    <3>1. PICK e \in Nat : q = len + e
      BY <2>1
    <3>2. q * ByteBits = len * ByteBits + e * ByteBits /\ e * ByteBits \in Nat
      BY <1>1, <3>1
    <3>3. q * ByteBits + r < len * ByteBits /\ len * ByteBits \in Nat /\ r \in Nat
      BY <1>1, <1>2, <1>3
    <3> QED
      BY <1>1, <3>2, <3>3
  <2> QED
    BY <2>1
<1>5. PICK s \in Nat, j \in Nat : /\ s = (ByteBits - 1) - r /\ s + (r + 1) = ByteBits
                                  /\ j = n - (q + 1) * ByteBits
  <2>1. len * ByteBits = (q + 1) * ByteBits + d * ByteBits
        /\ d * ByteBits \in Nat /\ (q + 1) * ByteBits \in Nat
    BY <1>1, <1>4
  <2>2. n - (q + 1) * ByteBits \in Nat
    BY <1>1, <1>2, <2>1
  <2>3. (ByteBits - 1) - r \in Nat /\ ((ByteBits - 1) - r) + (r + 1) = ByteBits
    BY <1>1
  <2> QED
    BY <2>2, <2>3
<1>6. j + s = n - 1 - i
  <2>1. PICK start \in Nat : start = q * ByteBits /\ (q + 1) * ByteBits = start + ByteBits
    BY <1>1
  <2>2. i = start + r
    BY <1>3, <2>1
  <2>3. j = n - (start + ByteBits) /\ s + (r + 1) = ByteBits
    BY <1>5, <2>1
  <2>4. n \in Nat
    BY <1>2
  <2> QED
    BY <1>1, <2>2, <2>3, <2>4
<1>7. PICK x \in Nat, y \in Nat : x = High(v, j) /\ y = High(x, s)
  <2>1. High(v, j) \in Nat
    BY <1>2, PartsType
  <2>2. High(High(v, j), s) \in Nat
    BY <2>1, PartsType
  <2> QED
    BY <2>1, <2>2
<1>8. y = High(v, n - 1 - i)
  <2>1. High(High(v, j), s) = High(v, j + s)
    BY <1>2, HighHigh
  <2>2. y = High(v, j + s)
    BY <1>7, <2>1
  <2> QED
    BY <1>6, <2>2
<1>9. data[q + 1] = Low(x, s + (r + 1))
  <2>1. s + (r + 1) = ByteBits
    BY <1>5
  <2>2. q + 1 \in 1 .. Len(data)
    BY <1>2, <1>4
  <2>3. data[q + 1] = Low(High(v, n - (q + 1) * ByteBits), ByteBits)
    BY <2>2 DEF Spells, ByteOf
  <2> QED
    BY <1>5, <1>7, <2>1, <2>3
<1>10. High(Low(x, s + (r + 1)), s) = Low(y, r + 1)
  BY <1>7, HighOfLow
<1>11. Low(Low(y, 1 + r), 1) = Low(y, 1) /\ 1 + r = r + 1
  BY LowLow
<1>12. BitAt(data, i) = High(data[q + 1], s) % 2
  BY <1>3, <1>5 DEF BitAt
<1>13. \A z : Low(z, 1) = z % 2
  BY Pow2Facts, 0 + 1 = 1, 2 * 1 = 2 DEF Low
<1> QED
  BY <1>6, <1>8, <1>9, <1>10, <1>11, <1>12, <1>13

\* A read that stays in the buffer returns the bits at its position.
LEMMA ReadBack ==
    ASSUME NEW data, NEW v, NEW n, Spells(data, v, n),
           NEW at \in Nat, NEW bits \in Nat, InBuffer(data, at, bits)
    PROVE  ReadBits(data, at, bits) = Field(v, n, at, bits)
<1>1. ByteBits \in Nat \ {0}
  BY BitAssumption
<1>2. v \in Nat /\ n \in Nat /\ Len(data) \in Nat /\ Len(data) * ByteBits <= n
      /\ Len(data) * ByteBits \in Nat
  BY <1>1 DEF Spells
<1>3. PICK len \in Nat : len = Len(data) * ByteBits /\ len <= n /\ at + bits <= len
  BY <1>2 DEF InBuffer
<1> DEFINE h == [k \in 0 .. bits |-> Low(High(v, n - at - k), k)]
           Value(f) == f = [k \in 0 .. bits |->
                              IF k = 0 THEN 0 ELSE 2 * f[k - 1] + BitAt(data, at + k - 1)]
<1>4. ASSUME NEW k \in 0 .. bits
      PROVE  /\ h[0] = 0
             /\ k # 0 => h[k] = 2 * h[k - 1] + BitAt(data, at + k - 1)
  <2>1. h[0] = 0
    <3>1. High(v, n - at - 0) \in Nat
      <4>1. PICK j \in Nat : j = n - at - 0
        BY <1>2, <1>3
      <4> QED
        BY <1>2, <4>1, PartsType
    <3> QED
      BY <3>1, AtZero
  <2>2. ASSUME k # 0 PROVE h[k] = 2 * h[k - 1] + BitAt(data, at + k - 1)
    <3>1. PICK j \in Nat, m \in Nat, i \in Nat :
             j = n - at - k /\ m = k - 1 /\ i = at + k - 1
      BY <1>2, <1>3, <2>2
    <3>2. PICK x \in Nat : x = High(v, j)
      BY <1>2, PartsType
    <3>3. PICK y \in Nat : y = Low(x, k)
      BY PartsType
    <3>4. BitAt(data, i) = Low(x, 1)
      <4>1. i < Len(data) * ByteBits /\ n - 1 - i = j
        BY <1>2, <1>3, <3>1
      <4> QED
        BY <3>2, <4>1, BitRead
    <3>5. h[k - 1] = Low(High(x, 1), m)
      <4>1. m \in 0 .. bits /\ n - at - m = j + 1
        BY <1>2, <2>2, <3>1
      <4>2. High(v, j + 1) = High(x, 1)
        BY <1>2, <3>2, HighHigh
      <4> QED
        BY <3>1, <4>1, <4>2
    <3>6. High(y, 1) = Low(High(x, 1), m) /\ Low(y, 1) = Low(x, 1)
      <4>1. k = 1 + m
        BY <3>1
      <4>2. High(Low(x, 1 + m), 1) = Low(High(x, 1), m)
        BY HighOfLow
      <4>3. Low(Low(x, 1 + m), 1) = Low(x, 1)
        BY LowLow
      <4> QED
        BY <3>3, <4>1, <4>2, <4>3
    <3>7. y = 2 * High(y, 1) + Low(y, 1)
      <4>1. y = Shifted(High(y, 1), 1) + Low(y, 1) /\ High(y, 1) \in Nat
        BY PartsType
      <4>2. Pow2[1] = 2
        BY Pow2Facts, 0 + 1 = 1, 2 * 1 = 2
      <4>3. Shifted(High(y, 1), 1) = 2 * High(y, 1)
        BY <4>1, <4>2 DEF Shifted
      <4> QED
        BY <4>1, <4>3
    <3>8. h[k] = y
      BY <3>1, <3>2, <3>3
    <3> QED
      BY <3>1, <3>4, <3>5, <3>6, <3>7, <3>8
  <2> QED
    BY <2>1, <2>2
<1>5. Value(h)
  <2>1. h = [k \in 0 .. bits |-> h[k]]
    OBVIOUS
  <2> HIDE DEF h
  <2>2. \A k \in 0 .. bits :
          h[k] = IF k = 0 THEN 0 ELSE 2 * h[k - 1] + BitAt(data, at + k - 1)
    BY <1>4
  <2> QED
    BY <2>1, <2>2
<1> HIDE DEF h
<1>6. PICK f : Value(f) /\ (InBuffer(data, at, bits) => ReadBits(data, at, bits) = f[bits])
  <2> DEFINE f == CHOOSE f : Value(f)
  <2>1. Value(f)
    BY <1>5
  <2>2. ReadBits(data, at, bits) = IF InBuffer(data, at, bits) THEN f[bits] ELSE 0
    BY DEF ReadBits
  <2> QED
    BY <2>1, <2>2
<1>7. f[bits] = h[bits]
  <2> DEFINE S == { k \in 0 .. bits : f[k] = h[k] }
  <2>1. \A k \in 0 .. bits :
          f[k] = IF k = 0 THEN 0 ELSE 2 * f[k - 1] + BitAt(data, at + k - 1)
    BY <1>6
  <2>2. 0 \in S
    BY <2>1, <1>4
  <2>3. ASSUME NEW k \in 0 .. bits - 1, k \in S PROVE k + 1 \in S
    <3>1. k + 1 \in 0 .. bits /\ k + 1 # 0 /\ (k + 1) - 1 = k
      OBVIOUS
    <3>2. f[k + 1] = 2 * f[k] + BitAt(data, at + (k + 1) - 1)
      BY <2>1, <3>1
    <3>3. h[k + 1] = 2 * h[k] + BitAt(data, at + (k + 1) - 1)
      BY <1>4, <3>1
    <3> QED
      BY <2>3, <3>1, <3>2, <3>3
  <2> HIDE DEF S
  <2>4. bits \in S
    BY <2>2, <2>3, InductionUpTo
  <2> QED
    BY <2>4 DEF S
<1> QED
  BY <1>6, <1>7 DEF h, Field

----------------------------------------------------------------------------
(* Fields *)

FieldBits == {TickBits, CountBits, IdBits, PosBits}

\* The values that a field of so many bits takes.
Fits(bits) == { x \in Nat : x < Pow2[bits] }

\* The number u of m bits begins with what the number v of n bits spells.
Keeps(v, n, u, m) ==
    /\ v \in Nat /\ n \in Nat /\ u \in Nat /\ m \in Nat /\ n <= m
    /\ \A at \in Nat, bits \in Nat :
          at + bits <= n => Field(u, m, at, bits) = Field(v, n, at, bits)

\* The assumptions on the widths, as the proofs use them.
LEMMA Widths ==
    /\ ByteBits \in Nat \ {0} /\ AccBits \in Nat \ {0}
    /\ TickBits \in Nat \ {0} /\ CountBits \in Nat \ {0}
    /\ IdBits \in Nat \ {0} /\ PosBits \in Nat \ {0}
    /\ EntityBits = IdBits + PosBits /\ EntityBits \in Nat \ {0}
    /\ \A bits \in FieldBits : bits \in Nat \ {0} /\ ByteBits - 1 + bits <= AccBits
BY BitAssumption, WireAssumption DEF FieldBits, EntityBits

\* ...and what it begins with, a longer one begins with too.
LEMMA KeepsTrans ==
    ASSUME NEW v, NEW n, NEW u, NEW m, NEW x, NEW k,
           Keeps(v, n, u, m), Keeps(u, m, x, k)
    PROVE  Keeps(v, n, x, k)
BY DEF Keeps

\* Writing more leaves the fields that were written where they are.
LEMMA KeepsMore ==
    ASSUME NEW v \in Nat, NEW n \in Nat, NEW b \in Nat, NEW x \in Fits(b)
    PROVE  Keeps(v, n, Shifted(v, b) + x, n + b)
<1>1. x \in Nat /\ x < Pow2[b]
  BY DEF Fits
<1>2. PICK u \in Nat : u = Shifted(v, b) + x
  <2>1. Shifted(v, b) \in Nat
    BY PartsType
  <2> QED
    BY <1>1, <2>1
<1>3. ASSUME NEW at \in Nat, NEW bits \in Nat, at + bits <= n
      PROVE  Field(u, n + b, at, bits) = Field(v, n, at, bits)
  <2>1. PICK j \in Nat : j = n - at - bits
    BY <1>3
  <2>2. (n + b) - at - bits = b + j
    BY <2>1
  <2>3. High(u, b + j) = High(v, j)
    BY <1>1, <1>2, HighOfShifted
  <2> QED
    BY <2>1, <2>2, <2>3 DEF Field
<1> QED
  BY <1>2, <1>3 DEF Keeps

\* A field that is written holds its value.
LEMMA FieldWritten ==
    ASSUME NEW w, NEW v, NEW n, Holds(w, v, n),
           NEW bits \in FieldBits, NEW x \in Fits(bits)
    PROVE  \E u \in Nat : /\ Holds(WriteBits(w, x, bits), u, n + bits)
                          /\ Keeps(v, n, u, n + bits)
                          /\ Field(u, n + bits, n, bits) = x
<1>1. bits \in Nat /\ ByteBits - 1 + bits <= AccBits
  BY Widths
<1>2. x \in Nat /\ x < Pow2[bits] /\ v \in Nat /\ n \in Nat
  BY DEF Fits, Holds
<1>3. PICK y \in Nat : y = Shifted(v, bits)
  BY <1>1, <1>2, PartsType
<1>4. PICK u \in Nat : u = y + x
  BY <1>2
<1>5. Holds(WriteBits(w, x, bits), u, n + bits)
  BY <1>1, <1>2, <1>3, <1>4, WriteHolds
<1>6. Keeps(v, n, u, n + bits)
  BY <1>1, <1>2, <1>3, <1>4, KeepsMore
<1>7. Field(u, n + bits, n, bits) = x
  <2>1. (n + bits) - n - bits = 0
    BY <1>1, <1>2
  <2>2. Field(u, n + bits, n, bits) = Low(u, bits)
    BY <2>1, AtZero DEF Field
  <2>3. Low(y + x, bits) = Low(Low(y, bits) + x, bits)
    BY <1>1, <1>2, LowOfSum
  <2>4. Low(y, bits) = 0
    <3>1. Low(Shifted(v, bits), 0 + bits) = Shifted(Low(v, 0), bits)
      BY <1>1, <1>2, LowOfShifted
    <3>2. Low(v, 0) = 0 /\ 0 + bits = bits
      BY <1>1, <1>2, AtZero
    <3>3. Shifted(0, bits) = 0
      BY <1>1, Pow2Facts DEF Shifted
    <3> QED
      BY <1>3, <3>1, <3>2, <3>3
  <2>5. Low(0 + x, bits) = x
    BY <1>1, <1>2, SmallIsLow
  <2> QED
    BY <1>4, <2>2, <2>3, <2>4, <2>5
<1> QED
  BY <1>5, <1>6, <1>7

\* Writing needs no more than a value to leave a writer.
LEMMA WriterType ==
    ASSUME NEW w \in Writer, NEW x \in Nat, NEW bits \in FieldBits
    PROVE  WriteBits(w, x, bits) \in Writer
<1>1. bits \in Nat /\ ByteBits \in Nat \ {0} /\ AccBits \in Nat \ {0}
  BY Widths
<1>2. PICK out \in Seq(Nat), a \in Nat, t \in Nat : out = w.out /\ a = w.acc /\ t = w.nbits
  BY DEF Writer
<1>3. PICK acc \in Nat : acc = Low(Shifted(a, bits), AccBits) + Low(x, bits)
  <2>1. Shifted(a, bits) \in Nat /\ Low(x, bits) \in Nat
    BY <1>1, PartsType
  <2>2. Low(Shifted(a, bits), AccBits) \in Nat
    BY <1>1, <2>1, PartsType
  <2> QED
    BY <2>1, <2>2
<1>4. PICK total \in Nat, q \in Nat, r \in Nat :
         /\ total = t + bits /\ q = total \div ByteBits /\ r = total % ByteBits
         /\ total = q * ByteBits + r
  <2>1. t + bits \in Nat
    BY <1>1
  <2> QED
    BY <1>1, <2>1, DivMod
<1> DEFINE byte(k) == Low(High(acc, total - k * ByteBits), ByteBits)
           more == [k \in 1 .. q |-> byte(k)]
<1>5. WriteBits(w, x, bits) = [out |-> out \o more, acc |-> acc, nbits |-> r]
  BY <1>2, <1>3, <1>4 DEF WriteBits
<1>6. ASSUME NEW k \in 1 .. q PROVE byte(k) \in Nat
  <2>1. PICK s \in Nat : s = total - k * ByteBits
    <3>1. PICK d \in Nat : q = k + d
      OBVIOUS
    <3>2. q * ByteBits = k * ByteBits + d * ByteBits /\ d * ByteBits \in Nat
          /\ k * ByteBits \in Nat
      BY <1>1, <3>1
    <3> QED
      BY <1>4, <3>2
  <2>2. High(acc, s) \in Nat
    BY PartsType
  <2> QED
    BY <1>1, <2>1, <2>2, PartsType
<1> HIDE DEF byte
<1>7. more \in Seq(Nat)
  BY <1>6
<1> HIDE DEF more
<1>8. out \o more \in Seq(Nat)
  BY <1>7
<1> QED
  BY <1>5, <1>8 DEF Writer

----------------------------------------------------------------------------
(* Lists *)

Entity == [id : Fits(IdBits), level : Fits(PosBits)]

\* The number u of m bits has, from position n on, the length of the list and
\* its first k entities (or ids).
EntitiesAt(u, m, n, list, k) ==
    /\ Field(u, m, n, CountBits) = Len(list)
    /\ \A j \in 1 .. k :
         LET at == n + CountBits + (j - 1) * EntityBits
         IN  /\ Field(u, m, at, IdBits) = list[j].id
             /\ Field(u, m, at + IdBits, PosBits) = list[j].level

IdsAt(u, m, n, list, k) ==
    /\ Field(u, m, n, CountBits) = Len(list)
    /\ \A j \in 1 .. k : Field(u, m, n + CountBits + (j - 1) * IdBits, IdBits) = list[j]

\* A list stays where it is while more is written after it.
LEMMA EntitiesKept ==
    ASSUME NEW n \in Nat, NEW list, NEW k \in Nat, NEW u, NEW m, NEW x, NEW l,
           EntitiesAt(u, m, n, list, k), Keeps(u, m, x, l),
           n + CountBits + k * EntityBits <= m
    PROVE  EntitiesAt(x, l, n, list, k)
<1>1. m \in Nat /\ \A at \in Nat, bits \in Nat :
                     at + bits <= m => Field(x, l, at, bits) = Field(u, m, at, bits)
  BY DEF Keeps
<1>2. k * EntityBits \in Nat /\ n + CountBits <= m
  BY <1>1, Widths
<1>3. Field(x, l, n, CountBits) = Field(u, m, n, CountBits)
  BY <1>1, <1>2, Widths
<1>4. ASSUME NEW j \in 1 .. k, NEW at, at = n + CountBits + (j - 1) * EntityBits
      PROVE  /\ Field(x, l, at, IdBits) = Field(u, m, at, IdBits)
             /\ Field(x, l, at + IdBits, PosBits) = Field(u, m, at + IdBits, PosBits)
  <2>1. PICK d \in Nat : k = j + d
    OBVIOUS
  <2>2. PICK p \in Nat : p = (j - 1) * EntityBits
    BY Widths
  <2>3. k * EntityBits = p + EntityBits + d * EntityBits /\ d * EntityBits \in Nat
    BY <2>1, <2>2, Widths
  <2>4. at \in Nat /\ at + IdBits \in Nat
        /\ at + IdBits + PosBits <= m /\ at + IdBits <= m
    BY <1>1, <1>4, <2>2, <2>3, Widths
  <2> QED
    BY <1>1, <2>4, Widths
<1> QED
  BY <1>3, <1>4 DEF EntitiesAt

LEMMA IdsKept ==
    ASSUME NEW n \in Nat, NEW list, NEW k \in Nat, NEW u, NEW m, NEW x, NEW l,
           IdsAt(u, m, n, list, k), Keeps(u, m, x, l), n + CountBits + k * IdBits <= m
    PROVE  IdsAt(x, l, n, list, k)
<1>1. m \in Nat /\ \A at \in Nat, bits \in Nat :
                     at + bits <= m => Field(x, l, at, bits) = Field(u, m, at, bits)
  BY DEF Keeps
<1>2. k * IdBits \in Nat /\ n + CountBits <= m
  BY <1>1, Widths
<1>3. Field(x, l, n, CountBits) = Field(u, m, n, CountBits)
  BY <1>1, <1>2, Widths
<1>4. ASSUME NEW j \in 1 .. k, NEW at, at = n + CountBits + (j - 1) * IdBits
      PROVE  Field(x, l, at, IdBits) = Field(u, m, at, IdBits)
  <2>1. PICK d \in Nat : k = j + d
    OBVIOUS
  <2>2. PICK p \in Nat : p = (j - 1) * IdBits
    BY Widths
  <2>3. k * IdBits = p + IdBits + d * IdBits /\ d * IdBits \in Nat
    BY <2>1, <2>2, Widths
  <2>4. at \in Nat /\ at + IdBits <= m
    BY <1>1, <1>4, <2>2, <2>3, Widths
  <2> QED
    BY <1>1, <2>4, Widths
<1> QED
  BY <1>3, <1>4 DEF IdsAt

\* The loop of encode_keyframe and encode_delta over the entities, by induction on
\* their number.
LEMMA EntitiesWritten ==
    ASSUME NEW w, NEW v, NEW n, Holds(w, v, n),
           NEW list \in Seq(Entity), Len(list) \in Fits(CountBits)
    PROVE  \E u \in Nat, m \in Nat :
              /\ m = n + CountBits + Len(list) * EntityBits
              /\ Holds(WriteEntities(w, list), u, m) /\ Keeps(v, n, u, m)
              /\ EntitiesAt(u, m, n, list, Len(list))
<1>0. v \in Nat /\ n \in Nat /\ w \in Writer
  BY DEF Holds
<1>1. PICK L \in Nat : L = Len(list) /\ \A k \in 1 .. L : list[k] \in Entity
  OBVIOUS
<1>2. PICK w0 : w0 = WriteBits(w, L, CountBits)
  OBVIOUS
<1>3. w0 \in Writer
  BY <1>0, <1>2, WriterType DEF FieldBits
<1> DEFINE F == [kx \in (0 .. L - 1) \X Writer |-> WriteEntity(kx[2], list[kx[1] + 1])]
           Value(f) == f = [k \in 0 .. L |-> IF k = 0 THEN w0 ELSE WriteEntity(f[k - 1], list[k])]
<1>4. F \in [(0 .. L - 1) \X Writer -> Writer]
  <2> SUFFICES ASSUME NEW k \in 0 .. L - 1, NEW x \in Writer
               PROVE  WriteEntity(x, list[k + 1]) \in Writer
    OBVIOUS
  <2>1. list[k + 1].id \in Nat /\ list[k + 1].level \in Nat
    BY <1>1 DEF Entity, Fits
  <2>2. WriteBits(x, list[k + 1].id, IdBits) \in Writer
    BY <2>1, WriterType DEF FieldBits
  <2> QED
    BY <2>1, <2>2, WriterType DEF WriteEntity, FieldBits
<1>5. \E h \in [0 .. L -> Writer] : Follows(h, w0, F, L)
  <2> HIDE DEF F
  <2> QED
    BY <1>3, <1>4, FiniteRecursion
<1>6. PICK h \in [0 .. L -> Writer] : Follows(h, w0, F, L)
  BY <1>5
<1>7. ASSUME NEW k \in 0 .. L - 1 PROVE h[k + 1] = WriteEntity(h[k], list[k + 1])
  <2>1. h[k + 1] = F[<<k, h[k]>>]
    BY <1>6 DEF Follows
  <2>2. <<k, h[k]>> \in (0 .. L - 1) \X Writer
    OBVIOUS
  <2> QED
    BY <2>1, <2>2
<1>8. Value(h)
  <2>1. ASSUME NEW k \in 0 .. L
        PROVE  h[k] = IF k = 0 THEN w0 ELSE WriteEntity(h[k - 1], list[k])
    <3>1. CASE k = 0
      BY <1>6, <3>1 DEF Follows
    <3>2. CASE k # 0
      <4>1. k - 1 \in 0 .. L - 1 /\ (k - 1) + 1 = k
        BY <3>2
      <4> QED
        BY <1>7, <3>2, <4>1
    <3> QED
      BY <3>1, <3>2
  <2>2. h = [k \in 0 .. L |-> h[k]]
    OBVIOUS
  <2> QED
    BY <2>1, <2>2
<1>9. PICK f : Value(f) /\ WriteEntities(w, list) = f[L]
  <2> DEFINE f == CHOOSE f : Value(f)
  <2>1. Value(f)
    BY <1>8
  <2>2. WriteEntities(w, list) = f[L]
    BY <1>1, <1>2 DEF WriteEntities
  <2> QED
    BY <2>1, <2>2
<1>10. f[0] = w0 /\ \A k \in 0 .. L - 1 : f[k + 1] = WriteEntity(f[k], list[k + 1])
  <2>1. \A k \in 0 .. L : f[k] = IF k = 0 THEN w0 ELSE WriteEntity(f[k - 1], list[k])
    BY <1>9
  <2>2. ASSUME NEW k \in 0 .. L - 1 PROVE f[k + 1] = WriteEntity(f[k], list[k + 1])
    <3>1. k + 1 \in 0 .. L /\ k + 1 # 0 /\ (k + 1) - 1 = k
      OBVIOUS
    <3> QED
      BY <2>1, <3>1
  <2> QED
    BY <2>1, <2>2
<1> HIDE DEF F, Value
<1> DEFINE Good(k, u, m) == /\ m = n + CountBits + k * EntityBits
                            /\ Holds(f[k], u, m) /\ Keeps(v, n, u, m)
                            /\ EntitiesAt(u, m, n, list, k)
           S == { k \in 0 .. L : \E u \in Nat, m \in Nat : Good(k, u, m) }
<1>11. 0 \in S
  <2>1. L \in Fits(CountBits) /\ CountBits \in FieldBits
    BY <1>1 DEF FieldBits
  <2>2. PICK u \in Nat : /\ Holds(w0, u, n + CountBits) /\ Keeps(v, n, u, n + CountBits)
                         /\ Field(u, n + CountBits, n, CountBits) = L
    BY <1>2, <2>1, FieldWritten
  <2>3. n + CountBits \in Nat /\ n + CountBits = n + CountBits + 0 * EntityBits
    BY <1>0, Widths
  <2>4. EntitiesAt(u, n + CountBits, n, list, 0)
    BY <1>1, <2>2 DEF EntitiesAt
  <2>5. Good(0, u, n + CountBits)
    BY <1>10, <2>2, <2>3, <2>4
  <2> HIDE DEF Good
  <2> QED
    BY <2>3, <2>5
<1>12. ASSUME NEW k \in 0 .. L - 1, k \in S PROVE k + 1 \in S
  <2>1. PICK u \in Nat, m \in Nat : Good(k, u, m)
    BY <1>12
  <2>2. PICK e \in Entity : e = list[k + 1]
    BY <1>1
  <2>3. /\ e.id \in Fits(IdBits) /\ e.level \in Fits(PosBits)
        /\ IdBits \in FieldBits /\ PosBits \in FieldBits
    BY DEF Entity, FieldBits
  <2>4. PICK x \in Nat : /\ Holds(WriteBits(f[k], e.id, IdBits), x, m + IdBits)
                         /\ Keeps(u, m, x, m + IdBits)
                         /\ Field(x, m + IdBits, m, IdBits) = e.id
    BY <2>1, <2>3, FieldWritten
  <2>5. PICK p \in Nat : p = m + IdBits
    BY Widths
  <2>6. PICK y \in Nat : /\ Holds(WriteBits(WriteBits(f[k], e.id, IdBits), e.level, PosBits),
                                  y, p + PosBits)
                         /\ Keeps(x, p, y, p + PosBits)
                         /\ Field(y, p + PosBits, p, PosBits) = e.level
    BY <2>3, <2>4, <2>5, FieldWritten
  <2>7. PICK q \in Nat : q = p + PosBits
    BY Widths
  <2>8. q = n + CountBits + (k + 1) * EntityBits
    BY <1>0, <2>1, <2>5, <2>7, Widths
  <2>9. Holds(f[k + 1], y, q)
    BY <1>10, <2>2, <2>6, <2>7 DEF WriteEntity
  <2>10. Keeps(u, m, y, q) /\ Keeps(x, p, y, q)
    BY <2>4, <2>5, <2>6, <2>7, KeepsTrans
  <2>11. Keeps(v, n, y, q)
    BY <2>1, <2>10, KeepsTrans
  <2>12. EntitiesAt(y, q, n, list, k)
    BY <1>0, <2>1, <2>10, EntitiesKept
  <2>13. Field(y, q, m, IdBits) = e.id
    BY <2>4, <2>5, <2>10, Widths DEF Keeps
  <2>14. Field(y, q, m + IdBits, PosBits) = e.level
    BY <2>5, <2>6, <2>7
  <2>15. EntitiesAt(y, q, n, list, k + 1)
    <3>1. ASSUME NEW j \in 1 .. k + 1, NEW at, at = n + CountBits + (j - 1) * EntityBits
          PROVE  /\ Field(y, q, at, IdBits) = list[j].id
                 /\ Field(y, q, at + IdBits, PosBits) = list[j].level
      <4>1. CASE j = k + 1
        <5>1. (j - 1) * EntityBits = k * EntityBits
          BY <4>1
        <5>2. at = m
          BY <2>1, <3>1, <5>1
        <5> QED
          BY <2>2, <2>13, <2>14, <4>1, <5>2
      <4>2. CASE j # k + 1
        <5>1. j \in 1 .. k
          BY <4>2
        <5> QED
          BY <2>12, <3>1, <5>1 DEF EntitiesAt
      <4> QED
        BY <4>1, <4>2
    <3> QED
      BY <2>12, <3>1 DEF EntitiesAt
  <2>16. Good(k + 1, y, q)
    BY <2>8, <2>9, <2>11, <2>15
  <2> HIDE DEF Good
  <2> QED
    BY <2>16
<1> HIDE DEF S
<1>13. L \in S
  <2>1. \A k \in 0 .. L - 1 : k \in S => k + 1 \in S
    BY <1>12
  <2>2. 0 .. L \subseteq S
    BY <1>11, <2>1, InductionUpTo
  <2> QED
    BY <2>2
<1>14. PICK u \in Nat, m \in Nat : Good(L, u, m)
  BY <1>13 DEF S
<1> QED
  BY <1>1, <1>9, <1>14

\* The loop of encode_delta over the removed ids, likewise.
LEMMA IdsWritten ==
    ASSUME NEW w, NEW v, NEW n, Holds(w, v, n),
           NEW list \in Seq(Fits(IdBits)), Len(list) \in Fits(CountBits)
    PROVE  \E u \in Nat, m \in Nat :
              /\ m = n + CountBits + Len(list) * IdBits
              /\ Holds(WriteIds(w, list), u, m) /\ Keeps(v, n, u, m)
              /\ IdsAt(u, m, n, list, Len(list))
<1>0. v \in Nat /\ n \in Nat /\ w \in Writer
  BY DEF Holds
<1>1. PICK L \in Nat : L = Len(list) /\ \A k \in 1 .. L : list[k] \in Fits(IdBits)
  OBVIOUS
<1>2. PICK w0 : w0 = WriteBits(w, L, CountBits)
  OBVIOUS
<1>3. w0 \in Writer
  BY <1>0, <1>2, WriterType DEF FieldBits
<1> DEFINE F == [kx \in (0 .. L - 1) \X Writer |-> WriteBits(kx[2], list[kx[1] + 1], IdBits)]
           Value(f) == f = [k \in 0 .. L |->
                              IF k = 0 THEN w0 ELSE WriteBits(f[k - 1], list[k], IdBits)]
<1>4. F \in [(0 .. L - 1) \X Writer -> Writer]
  <2> SUFFICES ASSUME NEW k \in 0 .. L - 1, NEW x \in Writer
               PROVE  WriteBits(x, list[k + 1], IdBits) \in Writer
    OBVIOUS
  <2>1. list[k + 1] \in Nat
    BY <1>1 DEF Fits
  <2> QED
    BY <2>1, WriterType DEF FieldBits
<1>5. \E h \in [0 .. L -> Writer] : Follows(h, w0, F, L)
  <2> HIDE DEF F
  <2> QED
    BY <1>3, <1>4, FiniteRecursion
<1>6. PICK h \in [0 .. L -> Writer] : Follows(h, w0, F, L)
  BY <1>5
<1>7. ASSUME NEW k \in 0 .. L - 1 PROVE h[k + 1] = WriteBits(h[k], list[k + 1], IdBits)
  <2>1. h[k + 1] = F[<<k, h[k]>>]
    BY <1>6 DEF Follows
  <2>2. <<k, h[k]>> \in (0 .. L - 1) \X Writer
    OBVIOUS
  <2> QED
    BY <2>1, <2>2
<1>8. Value(h)
  <2>1. ASSUME NEW k \in 0 .. L
        PROVE  h[k] = IF k = 0 THEN w0 ELSE WriteBits(h[k - 1], list[k], IdBits)
    <3>1. CASE k = 0
      BY <1>6, <3>1 DEF Follows
    <3>2. CASE k # 0
      <4>1. k - 1 \in 0 .. L - 1 /\ (k - 1) + 1 = k
        BY <3>2
      <4> QED
        BY <1>7, <3>2, <4>1
    <3> QED
      BY <3>1, <3>2
  <2>2. h = [k \in 0 .. L |-> h[k]]
    OBVIOUS
  <2> QED
    BY <2>1, <2>2
<1>9. PICK f : Value(f) /\ WriteIds(w, list) = f[L]
  <2> DEFINE f == CHOOSE f : Value(f)
  <2>1. Value(f)
    BY <1>8
  <2>2. WriteIds(w, list) = f[L]
    BY <1>1, <1>2 DEF WriteIds
  <2> QED
    BY <2>1, <2>2
<1>10. f[0] = w0 /\ \A k \in 0 .. L - 1 : f[k + 1] = WriteBits(f[k], list[k + 1], IdBits)
  <2>1. \A k \in 0 .. L :
          f[k] = IF k = 0 THEN w0 ELSE WriteBits(f[k - 1], list[k], IdBits)
    BY <1>9
  <2>2. ASSUME NEW k \in 0 .. L - 1 PROVE f[k + 1] = WriteBits(f[k], list[k + 1], IdBits)
    <3>1. k + 1 \in 0 .. L /\ k + 1 # 0 /\ (k + 1) - 1 = k
      OBVIOUS
    <3> QED
      BY <2>1, <3>1
  <2> QED
    BY <2>1, <2>2
<1> HIDE DEF F, Value
<1> DEFINE Good(k, u, m) == /\ m = n + CountBits + k * IdBits
                            /\ Holds(f[k], u, m) /\ Keeps(v, n, u, m)
                            /\ IdsAt(u, m, n, list, k)
           S == { k \in 0 .. L : \E u \in Nat, m \in Nat : Good(k, u, m) }
<1>11. 0 \in S
  <2>1. L \in Fits(CountBits) /\ CountBits \in FieldBits
    BY <1>1 DEF FieldBits
  <2>2. PICK u \in Nat : /\ Holds(w0, u, n + CountBits) /\ Keeps(v, n, u, n + CountBits)
                         /\ Field(u, n + CountBits, n, CountBits) = L
    BY <1>2, <2>1, FieldWritten
  <2>3. n + CountBits \in Nat /\ n + CountBits = n + CountBits + 0 * IdBits
    BY <1>0, Widths
  <2>4. IdsAt(u, n + CountBits, n, list, 0)
    BY <1>1, <2>2 DEF IdsAt
  <2>5. Good(0, u, n + CountBits)
    BY <1>10, <2>2, <2>3, <2>4
  <2> HIDE DEF Good
  <2> QED
    BY <2>3, <2>5
<1>12. ASSUME NEW k \in 0 .. L - 1, k \in S PROVE k + 1 \in S
  <2>1. PICK u \in Nat, m \in Nat : Good(k, u, m)
    BY <1>12
  <2>2. list[k + 1] \in Fits(IdBits) /\ IdBits \in FieldBits
    BY <1>1 DEF FieldBits
  <2>3. PICK q \in Nat : q = m + IdBits
    BY Widths
  <2>4. PICK y \in Nat : /\ Holds(WriteBits(f[k], list[k + 1], IdBits), y, q)
                         /\ Keeps(u, m, y, q)
                         /\ Field(y, q, m, IdBits) = list[k + 1]
    BY <2>1, <2>2, <2>3, FieldWritten
  <2>5. q = n + CountBits + (k + 1) * IdBits
    BY <1>0, <2>1, <2>3, Widths
  <2>6. Holds(f[k + 1], y, q)
    BY <1>10, <2>4
  <2>7. Keeps(v, n, y, q)
    BY <2>1, <2>4, KeepsTrans
  <2>8. IdsAt(y, q, n, list, k)
    BY <1>0, <2>1, <2>4, IdsKept
  <2>9. IdsAt(y, q, n, list, k + 1)
    <3>1. ASSUME NEW j \in 1 .. k + 1, NEW at, at = n + CountBits + (j - 1) * IdBits
          PROVE  Field(y, q, at, IdBits) = list[j]
      <4>1. CASE j = k + 1
        <5>1. (j - 1) * IdBits = k * IdBits
          BY <4>1
        <5>2. at = m
          BY <2>1, <3>1, <5>1
        <5> QED
          BY <2>4, <4>1, <5>2
      <4>2. CASE j # k + 1
        <5>1. j \in 1 .. k
          BY <4>2
        <5> QED
          BY <2>8, <3>1, <5>1 DEF IdsAt
      <4> QED
        BY <4>1, <4>2
    <3> QED
      BY <2>8, <3>1 DEF IdsAt
  <2>10. Good(k + 1, y, q)
    BY <2>5, <2>6, <2>7, <2>9
  <2> HIDE DEF Good
  <2> QED
    BY <2>10
<1> HIDE DEF S
<1>13. L \in S
  <2>1. \A k \in 0 .. L - 1 : k \in S => k + 1 \in S
    BY <1>12
  <2>2. 0 .. L \subseteq S
    BY <1>11, <2>1, InductionUpTo
  <2> QED
    BY <2>2
<1>14. PICK u \in Nat, m \in Nat : Good(L, u, m)
  BY <1>13 DEF S
<1> QED
  BY <1>1, <1>9, <1>14

----------------------------------------------------------------------------
(* The lists are in the order of the ids *)

\* No two clients have the same rank.
LEMMA RankInjective ==
    ASSUME NEW id \in Numberings, NEW S \in SUBSET Clients, IsFiniteSet(S),
           NEW c \in S, NEW d \in S, c # d
    PROVE  Rank(S, id, c) # Rank(S, id, d)
<1> DEFINE Upto(e) == { x \in S : id[x] <= id[e] }
<1>1. Cardinality(Clients) \in Nat
  BY WireAssumption, FS_CardinalityType
<1>2. \A x \in S : id[x] \in Nat
  BY <1>1 DEF Numberings
<1>3. id[c] # id[d]
  BY DEF Numberings, Injective
<1>4. ASSUME NEW x \in S, NEW y \in S, id[x] < id[y]
      PROVE  Cardinality(Upto(x)) # Cardinality(Upto(y))
  <2>1. Upto(x) \in SUBSET Upto(y) /\ y \in Upto(y) /\ y \notin Upto(x)
    BY <1>2, <1>4
  <2>2. Upto(y) \in SUBSET S
    OBVIOUS
  <2>3. IsFiniteSet(Upto(y))
    BY <2>2, FS_Subset
  <2>4. Upto(x) # Upto(y)
    BY <2>1
  <2> HIDE DEF Upto
  <2> QED
    BY <2>1, <2>3, <2>4, FS_Subset
<1>5. CASE id[c] < id[d]
  BY <1>4, <1>5 DEF Rank
<1>6. CASE id[d] < id[c]
  BY <1>4, <1>6 DEF Rank
<1> QED
  BY <1>2, <1>3, <1>5, <1>6

\* There is a client of every rank.
LEMMA RankOnto ==
    ASSUME NEW id \in Numberings, NEW S \in SUBSET Clients, IsFiniteSet(S),
           NEW k \in 1 .. Cardinality(S)
    PROVE  \E c \in S : Rank(S, id, c) = k
<1> DEFINE N == Cardinality(S)
           rank == [c \in S |-> Rank(S, id, c)]
<1>1. N \in Nat
  BY FS_CardinalityType
<1>2. ASSUME NEW c \in S PROVE Rank(S, id, c) \in 1 .. N
  <2> DEFINE T == { x \in S : id[x] <= id[c] }
  <2>0. id[c] \in Nat
    BY WireAssumption, FS_CardinalityType DEF Numberings
  <2>1. T \in SUBSET S /\ c \in T
    BY <2>0
  <2> HIDE DEF T
  <2>2. IsFiniteSet(T) /\ Cardinality(T) \in Nat /\ Cardinality(T) <= N
    BY <2>1, FS_Subset, FS_CardinalityType
  <2>3. Cardinality(T) # 0
    BY <2>1, <2>2, FS_EmptySet
  <2> QED
    BY <1>1, <2>2, <2>3 DEF Rank, T
<1>3. rank \in [S -> 1 .. N]
  BY <1>2
<1>4. \A c, d \in S : rank[c] = rank[d] => c = d
  BY RankInjective
<1> HIDE DEF rank
<1>5. rank \in Injection(S, 1 .. N)
  BY <1>3, <1>4, Fun_IsInj
<1>6. IsFiniteSet(1 .. N) /\ Cardinality(1 .. N) = N
  BY <1>1, FS_Interval
<1>7. rank \in Surjection(S, 1 .. N)
  BY <1>5, <1>6, FS_Injection
<1>8. PICK c \in S : rank[c] = k
  BY <1>7 DEF Surjection
<1> QED
  BY <1>8 DEF rank

\* The list names clients of the set, as many as there are.
LEMMA SortedType ==
    ASSUME NEW id \in Numberings, NEW S \in SUBSET Clients
    PROVE  /\ Cardinality(S) \in Nat
           /\ Cardinality(S) <= Cardinality(Clients)
           /\ Cardinality(Clients) \in Nat
           /\ SortedById(S, id) \in [1 .. Cardinality(S) -> S]
<1>1. IsFiniteSet(Clients)
  BY WireAssumption
<1>2. /\ IsFiniteSet(S) /\ Cardinality(S) \in Nat /\ Cardinality(Clients) \in Nat
      /\ Cardinality(S) <= Cardinality(Clients)
  BY <1>1, FS_Subset, FS_CardinalityType
<1>3. \A k \in 1 .. Cardinality(S) : (CHOOSE c \in S : Rank(S, id, c) = k) \in S
  BY <1>2, RankOnto
<1> QED
  BY <1>2, <1>3 DEF SortedById

----------------------------------------------------------------------------
(* Messages *)

\* What a snapshot says on the wire: a keyframe has neither baseline nor removals.
Message ==
    { s \in [type : {"Keyframe", "Delta"}, tick : Fits(TickBits),
             baseline_tick : Fits(TickBits), changed : Seq(Entity),
             removed : Seq(Fits(IdBits))] :
        /\ Len(s.changed) \in Fits(CountBits) /\ Len(s.removed) \in Fits(CountBits)
        /\ s.type = "Keyframe" => s.baseline_tick = 0 /\ s.removed = <<>> }

\* The bits of a message, and where the fields of each kind are in them.
KeyframeSize(s) == TickBits + CountBits + Len(s.changed) * EntityBits
DeltaSize(s) == TickBits + KeyframeSize(s) + CountBits + Len(s.removed) * IdBits

KeyframeAt(u, m, s) ==
    /\ Field(u, m, 0, TickBits) = s.tick
    /\ EntitiesAt(u, m, TickBits, s.changed, Len(s.changed))

DeltaAt(u, m, s) ==
    /\ Field(u, m, 0, TickBits) = s.tick
    /\ Field(u, m, TickBits, TickBits) = s.baseline_tick
    /\ EntitiesAt(u, m, 2 * TickBits, s.changed, Len(s.changed))
    /\ IdsAt(u, m, TickBits + KeyframeSize(s), s.removed, Len(s.removed))

\* A message, part by part.
LEMMA MessageIs ==
    ASSUME NEW s \in Message
    PROVE  /\ s.type \in {"Keyframe", "Delta"}
           /\ s.tick \in Fits(TickBits) /\ s.baseline_tick \in Fits(TickBits)
           /\ s.changed \in Seq(Entity) /\ Len(s.changed) \in Fits(CountBits)
           /\ s.removed \in Seq(Fits(IdBits)) /\ Len(s.removed) \in Fits(CountBits)
           /\ s = [type |-> s.type, tick |-> s.tick, baseline_tick |-> s.baseline_tick,
                   changed |-> s.changed, removed |-> s.removed]
           /\ s.type = "Keyframe" => s.baseline_tick = 0 /\ s.removed = <<>>
BY DEF Message

LEMMA SizeType ==
    ASSUME NEW s \in Message
    PROVE  /\ Len(s.changed) \in Nat /\ Len(s.removed) \in Nat
           /\ Len(s.changed) * EntityBits \in Nat /\ Len(s.removed) * IdBits \in Nat
           /\ KeyframeSize(s) \in Nat /\ DeltaSize(s) \in Nat
<1>1. Len(s.changed) \in Nat /\ Len(s.removed) \in Nat
  BY MessageIs DEF Fits
<1>2. \A x, y \in Nat : x * y \in Nat
  OBVIOUS
<1>3. EntityBits \in Nat /\ IdBits \in Nat /\ TickBits \in Nat /\ CountBits \in Nat
  BY Widths
<1>4. Len(s.changed) * EntityBits \in Nat /\ Len(s.removed) * IdBits \in Nat
  BY <1>1, <1>2, <1>3
<1>5. KeyframeSize(s) \in Nat
  <2>1. PICK a \in Nat : a = Len(s.changed) * EntityBits
    BY <1>4
  <2>2. TickBits + CountBits + a \in Nat
    BY <1>3
  <2> QED
    BY <2>1, <2>2 DEF KeyframeSize
<1> QED
  BY <1>1, <1>3, <1>4, <1>5 DEF DeltaSize

----------------------------------------------------------------------------
(* Writing a message *)

\* encode_keyframe and encode_delta leave every field where it belongs.
LEMMA KeyframeWritten ==
    ASSUME NEW s \in Message
    PROVE  \E w : \E u \in Nat, m \in Nat :
              /\ EncodeKeyframe(s) = <<TypeByte.Keyframe>> \o Take(w)
              /\ Holds(w, u, m) /\ m = KeyframeSize(s) /\ KeyframeAt(u, m, s)
<1>1. TickBits \in FieldBits /\ s.tick \in Fits(TickBits)
  BY MessageIs DEF FieldBits
<1>2. PICK w0 : w0 = WriteBits(NewWriter, s.tick, TickBits)
  OBVIOUS
<1>3. PICK v \in Nat : Holds(w0, v, TickBits) /\ Field(v, TickBits, 0, TickBits) = s.tick
  <2>1. 0 + TickBits = TickBits
    BY Widths
  <2> QED
    BY <1>1, <1>2, <2>1, NewWriterHolds, FieldWritten
<1>4. PICK w : w = WriteEntities(w0, s.changed)
  OBVIOUS
<1>5. PICK u \in Nat, m \in Nat :
         /\ m = KeyframeSize(s) /\ Holds(w, u, m) /\ Keeps(v, TickBits, u, m)
         /\ EntitiesAt(u, m, TickBits, s.changed, Len(s.changed))
  BY <1>3, <1>4, MessageIs, EntitiesWritten DEF KeyframeSize
<1>6. Field(u, m, 0, TickBits) = s.tick
  BY <1>3, <1>5, Widths DEF Keeps
<1> QED
  BY <1>2, <1>4, <1>5, <1>6 DEF EncodeKeyframe, KeyframeAt

LEMMA DeltaWritten ==
    ASSUME NEW s \in Message
    PROVE  \E w : \E u \in Nat, m \in Nat :
              /\ EncodeDelta(s) = <<TypeByte.Delta>> \o Take(w)
              /\ Holds(w, u, m) /\ m = DeltaSize(s) /\ DeltaAt(u, m, s)
<1>1. TickBits \in FieldBits /\ s.tick \in Fits(TickBits) /\ s.baseline_tick \in Fits(TickBits)
  BY MessageIs DEF FieldBits
<1>2. PICK w0, w1 : /\ w0 = WriteBits(NewWriter, s.tick, TickBits)
                    /\ w1 = WriteBits(w0, s.baseline_tick, TickBits)
  OBVIOUS
<1>3. PICK v \in Nat : Holds(w0, v, TickBits) /\ Field(v, TickBits, 0, TickBits) = s.tick
  <2>1. 0 + TickBits = TickBits
    BY Widths
  <2> QED
    BY <1>1, <1>2, <2>1, NewWriterHolds, FieldWritten
<1>4. PICK x \in Nat, n \in Nat :
         /\ n = TickBits + TickBits /\ Holds(w1, x, n) /\ Keeps(v, TickBits, x, n)
         /\ Field(x, n, TickBits, TickBits) = s.baseline_tick
  BY <1>1, <1>2, <1>3, Widths, FieldWritten
<1>5. PICK w2, w3 : w2 = WriteEntities(w1, s.changed) /\ w3 = WriteIds(w2, s.removed)
  OBVIOUS
<1>6. PICK y \in Nat, k \in Nat :
         /\ k = n + CountBits + Len(s.changed) * EntityBits
         /\ Holds(w2, y, k) /\ Keeps(x, n, y, k)
         /\ EntitiesAt(y, k, n, s.changed, Len(s.changed))
  BY <1>4, <1>5, MessageIs, EntitiesWritten
<1>7. PICK u \in Nat, m \in Nat :
         /\ m = k + CountBits + Len(s.removed) * IdBits
         /\ Holds(w3, u, m) /\ Keeps(y, k, u, m)
         /\ IdsAt(u, m, k, s.removed, Len(s.removed))
  BY <1>5, <1>6, MessageIs, IdsWritten
<1>8. k = TickBits + KeyframeSize(s) /\ m = DeltaSize(s) /\ n = 2 * TickBits
  <2>1. PICK a \in Nat, b \in Nat :
           a = Len(s.changed) * EntityBits /\ b = Len(s.removed) * IdBits
    BY SizeType
  <2>2. TickBits \in Nat /\ CountBits \in Nat
    BY Widths
  <2>3. k = TickBits + (TickBits + CountBits + a)
    BY <1>4, <1>6, <2>1, <2>2
  <2>4. m = k + CountBits + b
    BY <1>7, <2>1
  <2> QED
    BY <1>4, <2>1, <2>2, <2>3, <2>4 DEF KeyframeSize, DeltaSize
<1>9. Keeps(x, n, u, m) /\ Keeps(v, TickBits, u, m)
  BY <1>4, <1>6, <1>7, KeepsTrans
<1>10. Field(u, m, 0, TickBits) = s.tick
  BY <1>3, <1>9, Widths DEF Keeps
<1>11. Field(u, m, TickBits, TickBits) = s.baseline_tick
  <2>1. TickBits \in Nat /\ TickBits + TickBits <= n
    BY <1>4, Widths
  <2> QED
    BY <1>4, <1>9, <2>1 DEF Keeps
<1>12. EntitiesAt(u, m, n, s.changed, Len(s.changed))
  BY <1>6, <1>7, SizeType, EntitiesKept
<1> QED
  BY <1>2, <1>5, <1>7, <1>8, <1>10, <1>11, <1>12 DEF EncodeDelta, DeltaAt

----------------------------------------------------------------------------
(* Padding, and cutting short *)

\* The bytes that are sent spell the bits, and the padding after them.
LEMMA Padded ==
    ASSUME NEW w, NEW u \in Nat, NEW m \in Nat, Holds(w, u, m)
    PROVE  \E x \in Nat, k \in Nat :
              /\ Spells(Take(w), x, k) /\ Len(Take(w)) * ByteBits = k
              /\ Keeps(u, m, x, k) /\ k < m + ByteBits
<1>1. PICK p \in 0 .. ByteBits - 1 : /\ Spells(Take(w), Shifted(u, p), m + p)
                                     /\ Len(Take(w)) * ByteBits = m + p
  BY TakeSpells
<1>2. p \in Nat /\ p < ByteBits
  BY Widths
<1>3. Shifted(u, p) \in Nat
  BY <1>2, PartsType
<1>4. Keeps(u, m, Shifted(u, p), m + p)
  <2>1. 0 \in Fits(p)
    BY <1>2, Pow2Facts DEF Fits
  <2>2. Shifted(u, p) + 0 = Shifted(u, p)
    BY <1>3
  <2>3. Keeps(u, m, Shifted(u, p) + 0, m + p)
    BY <1>2, <2>1, KeepsMore
  <2> QED
    BY <2>2, <2>3
<1>5. m + p \in Nat /\ m + p < m + ByteBits
  BY <1>2, Widths
<1> QED
  BY <1>1, <1>3, <1>4, <1>5

\* A buffer that is cut short spells the same bits, as far as it goes.
LEMMA Prefix ==
    ASSUME NEW data, NEW x, NEW k, Spells(data, x, k), NEW n \in 0 .. Len(data)
    PROVE  /\ Spells(SubSeq(data, 1, n), x, k)
           /\ Len(SubSeq(data, 1, n)) = n
<1>1. data \in Seq(Nat) /\ Len(data) \in Nat /\ x \in Nat /\ k \in Nat
      /\ Len(data) * ByteBits <= k
  BY DEF Spells
<1>2. \A i \in 1 .. n : data[i] \in Nat
  BY <1>1
<1>3. /\ SubSeq(data, 1, n) \in Seq(Nat) /\ Len(SubSeq(data, 1, n)) = n
      /\ \A i \in 1 .. n : SubSeq(data, 1, n)[i] = data[i]
  <2>1. n \in Int /\ 1 \in Int /\ n - 1 + 1 = n /\ (1 <= n \/ n = 0)
        /\ \A i \in 1 .. n : 1 + i - 1 = i
    BY <1>1
  <2> QED
    BY <1>2, <2>1, SubSeqProperties
<1>4. n * ByteBits <= k
  <2>1. PICK d \in Nat : Len(data) = n + d
    BY <1>1
  <2>2. Len(data) * ByteBits = n * ByteBits + d * ByteBits
        /\ n * ByteBits \in Nat /\ d * ByteBits \in Nat
    BY <1>1, <2>1, Widths
  <2> QED
    BY <1>1, <2>2
<1>5. ASSUME NEW i \in 1 .. n PROVE SubSeq(data, 1, n)[i] = ByteOf(x, k, i)
  BY <1>1, <1>3 DEF Spells
<1> QED
  BY <1>1, <1>3, <1>4, <1>5 DEF Spells

\* The byte in front of the bits.
LEMMA Framed ==
    ASSUME NEW data \in Seq(Nat), NEW byte \in Nat, NEW n \in 0 .. Len(data)
    PROVE  LET part == SubSeq(<<byte>> \o data, 1, n + 1)
           IN  part # <<>> /\ Head(part) = byte /\ Tail(part) = SubSeq(data, 1, n)
<1> DEFINE whole == <<byte>> \o data
           part == SubSeq(whole, 1, n + 1)
<1>1. /\ whole \in Seq(Nat) /\ Len(whole) = Len(data) + 1 /\ Len(data) \in Nat
      /\ whole[1] = byte /\ \A i \in 1 .. Len(data) : whole[i + 1] = data[i]
  <2>1. <<byte>> \in Seq(Nat) /\ Len(<<byte>>) = 1 /\ <<byte>>[1] = byte
    OBVIOUS
  <2>2. Len(data) \in Nat /\ 1 + Len(data) = Len(data) + 1
    OBVIOUS
  <2>3. /\ whole \in Seq(Nat) /\ Len(whole) = 1 + Len(data)
        /\ \A i \in 1 .. 1 + Len(data) :
              whole[i] = IF i <= 1 THEN <<byte>>[i] ELSE data[i - 1]
    BY <2>1, ConcatProperties
  <2> HIDE DEF whole
  <2>4. \A i \in 1 .. Len(data) : i + 1 \in 1 .. 1 + Len(data) /\ ~(i + 1 <= 1) /\ (i + 1) - 1 = i
    BY <2>2
  <2> QED
    BY <2>1, <2>2, <2>3, <2>4
<1> HIDE DEF whole
<1>2. 1 \in 1 .. Len(whole) /\ n + 1 \in 1 .. Len(whole) /\ n + 1 \in Int /\ n + 1 >= 1
  BY <1>1
<1>3. Head(part) = byte /\ Tail(part) = SubSeq(whole, 2, n + 1)
  <2>1. Head(SubSeq(whole, 1, n + 1)) = whole[1]
        /\ Tail(SubSeq(whole, 1, n + 1)) = SubSeq(whole, 1 + 1, n + 1)
    BY <1>1, <1>2, HeadTailOfSubSeq
  <2> QED
    BY <1>1, <2>1
<1>4. part # <<>>
  <2>1. Len(part) = n + 1
    <3>1. \A i \in 1 .. n + 1 : whole[i] \in Nat
      BY <1>1
    <3>2. 1 \in Int /\ (n + 1) - 1 + 1 = n + 1 /\ 1 <= n + 1
      BY <1>1
    <3> QED
      BY <1>2, <3>1, <3>2, SubSeqProperties
  <2>2. Len(<<>>) = 0 /\ n + 1 # 0
    BY <1>1
  <2> HIDE DEF part
  <2> QED
    BY <2>1, <2>2
<1>5. SubSeq(whole, 2, n + 1) = SubSeq(data, 1, n)
  <2>1. /\ SubSeq(whole, 2, n + 1) \in Seq(Nat) /\ Len(SubSeq(whole, 2, n + 1)) = n
        /\ \A i \in 1 .. n : SubSeq(whole, 2, n + 1)[i] = whole[i + 1]
    <3>1. \A i \in 2 .. n + 1 : whole[i] \in Nat
      BY <1>1
    <3>2. 2 \in Int /\ (n + 1) - 2 + 1 = n /\ (2 <= n + 1 \/ n = 0)
          /\ \A i \in 1 .. n : 2 + i - 1 = i + 1
      BY <1>1
    <3> QED
      BY <1>2, <3>1, <3>2, SubSeqProperties
  <2>2. /\ SubSeq(data, 1, n) \in Seq(Nat) /\ Len(SubSeq(data, 1, n)) = n
        /\ \A i \in 1 .. n : SubSeq(data, 1, n)[i] = data[i]
    <3>1. n \in Int /\ 1 \in Int /\ n - 1 + 1 = n /\ (1 <= n \/ n = 0)
          /\ \A i \in 1 .. n : 1 + i - 1 = i /\ data[i] \in Nat
      BY <1>1
    <3> QED
      BY <3>1, SubSeqProperties
  <2> QED
    BY <1>1, <2>1, <2>2, SeqEqual, SMTT(30)
<1> QED
  BY <1>3, <1>4, <1>5 DEF whole

----------------------------------------------------------------------------
(* Reading a message *)

\* A field that the buffer has is read; one that it has not is read as 0.
LEMMA InOrOut ==
    ASSUME NEW data, NEW x, NEW k, Spells(data, x, k), NEW at \in Nat, NEW bits \in Nat
    PROVE  /\ Len(data) * ByteBits \in Nat
           /\ at + bits <= Len(data) * ByteBits =>
                 ReadBits(data, at, bits) = Field(x, k, at, bits)
           /\ at + bits > Len(data) * ByteBits => ReadBits(data, at, bits) = 0
<1>1. Len(data) * ByteBits \in Nat
  <2>1. Len(data) \in Nat
    BY DEF Spells
  <2> QED
    BY <2>1, Widths
<1>2. at + bits \in Nat
  OBVIOUS
<1>3. ASSUME at + bits <= Len(data) * ByteBits
      PROVE  ReadBits(data, at, bits) = Field(x, k, at, bits)
  BY <1>3, ReadBack DEF InBuffer
<1>4. ASSUME at + bits > Len(data) * ByteBits
      PROVE  ReadBits(data, at, bits) = 0
  <2>1. ~InBuffer(data, at, bits)
    BY <1>1, <1>2, <1>4 DEF InBuffer
  <2> QED
    BY <2>1 DEF ReadBits
<1> QED
  BY <1>1, <1>3, <1>4

\* The loops of apply_snapshot return the lists.
LEMMA EntitiesRead ==
    ASSUME NEW data, NEW x, NEW k, Spells(data, x, k), NEW n \in Nat,
           NEW list \in Seq(Entity), EntitiesAt(x, k, n, list, Len(list)),
           n + CountBits + Len(list) * EntityBits <= Len(data) * ByteBits
    PROVE  ReadEntities(data, n + CountBits, Len(list)) = list
<1>1. PICK L \in Nat : L = Len(list)
  OBVIOUS
<1>2. PICK len \in Nat : len = Len(data) * ByteBits
  BY n \in Nat, InOrOut
<1>3. PICK a \in Nat : a = n + CountBits /\ a + L * EntityBits <= len
  BY <1>1, <1>2, Widths
<1>4. ASSUME NEW j \in 1 .. L
      PROVE  [id    |-> ReadBits(data, a + (j - 1) * EntityBits, IdBits),
              level |-> ReadBits(data, a + (j - 1) * EntityBits + IdBits, PosBits)] = list[j]
  <2>1. PICK d \in Nat : L = j + d
    OBVIOUS
  <2>2. PICK p \in Nat : p = (j - 1) * EntityBits
    BY Widths
  <2>3. L * EntityBits = p + EntityBits + d * EntityBits /\ d * EntityBits \in Nat
    BY <2>1, <2>2, Widths
  <2>4. PICK at \in Nat : at = a + (j - 1) * EntityBits
    BY <2>2
  <2>5. at + IdBits + PosBits <= len /\ at + IdBits \in Nat
    BY <1>3, <2>2, <2>3, <2>4, Widths
  <2>6. at + IdBits <= len
    BY <2>5, Widths
  <2>7. ReadBits(data, at, IdBits) = Field(x, k, at, IdBits)
    BY <1>2, <2>6, Widths, InOrOut
  <2>8. ReadBits(data, at + IdBits, PosBits) = Field(x, k, at + IdBits, PosBits)
    BY <1>2, <2>5, Widths, InOrOut
  <2>9. /\ Field(x, k, at, IdBits) = list[j].id
        /\ Field(x, k, at + IdBits, PosBits) = list[j].level
    BY <1>1, <1>3, <2>4 DEF EntitiesAt
  <2>10. list[j] = [id |-> list[j].id, level |-> list[j].level]
    <3>1. PICK e \in Entity : e = list[j]
      BY <1>1
    <3>2. e = [id |-> e.id, level |-> e.level]
      BY DEF Entity
    <3> QED
      BY <3>1, <3>2
  <2> QED
    BY <2>4, <2>7, <2>8, <2>9, <2>10
<1>5. list = [j \in 1 .. L |-> list[j]]
  BY <1>1
<1> QED
  BY <1>1, <1>3, <1>4, <1>5 DEF ReadEntities

LEMMA IdsRead ==
    ASSUME NEW data, NEW x, NEW k, Spells(data, x, k), NEW n \in Nat,
           NEW list \in Seq(Fits(IdBits)), IdsAt(x, k, n, list, Len(list)),
           n + CountBits + Len(list) * IdBits <= Len(data) * ByteBits
    PROVE  ReadIds(data, n + CountBits, Len(list)) = list
<1>1. PICK L \in Nat : L = Len(list)
  OBVIOUS
<1>2. PICK len \in Nat : len = Len(data) * ByteBits
  BY n \in Nat, InOrOut
<1>3. PICK a \in Nat : a = n + CountBits /\ a + L * IdBits <= len
  BY <1>1, <1>2, Widths
<1>4. ASSUME NEW j \in 1 .. L PROVE ReadBits(data, a + (j - 1) * IdBits, IdBits) = list[j]
  <2>1. PICK d \in Nat : L = j + d
    OBVIOUS
  <2>2. PICK p \in Nat : p = (j - 1) * IdBits
    BY Widths
  <2>3. L * IdBits = p + IdBits + d * IdBits /\ d * IdBits \in Nat
    BY <2>1, <2>2, Widths
  <2>4. PICK at \in Nat : at = a + (j - 1) * IdBits
    BY <2>2
  <2>5. at + IdBits <= len
    BY <1>3, <2>2, <2>3, <2>4, Widths
  <2>6. ReadBits(data, at, IdBits) = Field(x, k, at, IdBits)
    BY <1>2, <2>5, Widths, InOrOut
  <2>7. Field(x, k, at, IdBits) = list[j]
    BY <1>1, <1>3, <2>4 DEF IdsAt
  <2> QED
    BY <2>4, <2>6, <2>7
<1>5. list = [j \in 1 .. L |-> list[j]]
  BY <1>1
<1> QED
  BY <1>1, <1>3, <1>4, <1>5 DEF ReadIds

\* A keyframe that is whole is read as it was written, and one cut short is not.
LEMMA KeyframeRead ==
    ASSUME NEW data, NEW x, NEW k, Spells(data, x, k),
           NEW s \in Message, s.type = "Keyframe", KeyframeAt(x, k, s)
    PROVE  DecodeKeyframe(data) =
              IF KeyframeSize(s) <= Len(data) * ByteBits THEN s ELSE Refused
<1> DEFINE count == ReadBits(data, TickBits, CountBits)
<1>1. TickBits \in Nat \ {0} /\ CountBits \in Nat \ {0} /\ 0 + TickBits = TickBits
  BY Widths
<1>2. PICK len \in Nat : len = Len(data) * ByteBits
  BY 0 \in Nat, InOrOut
<1>3. PICK L \in Nat, E \in Nat :
         L = Len(s.changed) /\ E = Len(s.changed) * EntityBits
  BY SizeType
<1>4. PICK first \in Nat : first = TickBits + CountBits
  BY <1>1
<1>5. KeyframeSize(s) = first + E
  BY <1>3, <1>4 DEF KeyframeSize
<1>6. CASE first + E <= len
  <2>1. first <= len /\ TickBits <= len
    BY <1>1, <1>4, <1>6
  <2>2. count = L
    <3>1. ReadBits(data, TickBits, CountBits) = Field(x, k, TickBits, CountBits)
      BY <1>1, <1>2, <1>4, <2>1, InOrOut
    <3> QED
      BY <1>3, <3>1 DEF KeyframeAt, EntitiesAt
  <2>3. InBuffer(data, first, count * EntityBits)
    BY <1>2, <1>3, <1>6, <2>2 DEF InBuffer
  <2>4. ReadBits(data, 0, TickBits) = s.tick
    <3>1. ReadBits(data, 0, TickBits) = Field(x, k, 0, TickBits)
      BY <1>1, <1>2, <2>1, InOrOut
    <3> QED
      BY <3>1 DEF KeyframeAt
  <2>5. ReadEntities(data, first, count) = s.changed
    <3>1. ReadEntities(data, TickBits + CountBits, Len(s.changed)) = s.changed
      BY <1>1, <1>2, <1>3, <1>4, <1>6, MessageIs, EntitiesRead DEF KeyframeAt
    <3> QED
      BY <1>3, <1>4, <2>2, <3>1
  <2>6. s = [type |-> "Keyframe", tick |-> s.tick, baseline_tick |-> 0,
             changed |-> s.changed, removed |-> <<>>]
    BY MessageIs
  <2> HIDE DEF count
  <2>7. DecodeKeyframe(data) = s
    BY <1>4, <2>3, <2>4, <2>5, <2>6 DEF DecodeKeyframe, count
  <2> QED
    BY <1>2, <1>5, <1>6, <2>7
<1>7. CASE ~(first + E <= len)
  <2>1. ~InBuffer(data, first, count * EntityBits)
    <3>1. CASE first <= len
      <4>1. ReadBits(data, TickBits, CountBits) = Field(x, k, TickBits, CountBits)
        BY <1>1, <1>2, <1>4, <3>1, InOrOut
      <4>2. count = L
        BY <1>3, <4>1 DEF KeyframeAt, EntitiesAt
      <4> QED
        BY <1>2, <1>3, <1>7, <4>2 DEF InBuffer
    <3>2. CASE first > len
      <4>1. count = 0
        BY <1>1, <1>2, <1>4, <3>2, InOrOut
      <4>2. 0 * EntityBits = 0 /\ first + 0 = first
        BY Widths
      <4> QED
        BY <1>2, <3>2, <4>1, <4>2 DEF InBuffer
    <3> QED
      BY <3>1, <3>2
  <2> HIDE DEF count
  <2>2. DecodeKeyframe(data) = Refused
    BY <1>4, <2>1 DEF DecodeKeyframe, count
  <2> QED
    BY <1>2, <1>5, <1>7, <2>2
<1> QED
  BY <1>6, <1>7

\* ...and so is a delta; a count that the buffer has not is 0, and refused.
LEMMA DeltaRead ==
    ASSUME NEW data, NEW x, NEW k, Spells(data, x, k),
           NEW s \in Message, s.type = "Delta", DeltaAt(x, k, s)
    PROVE  DecodeDelta(data) =
              IF DeltaSize(s) <= Len(data) * ByteBits THEN s ELSE Refused
<1> DEFINE count   == ReadBits(data, 2 * TickBits, CountBits)
           after   == (2 * TickBits + CountBits) + count * EntityBits
           removed == ReadBits(data, after, CountBits)
<1>1. TickBits \in Nat \ {0} /\ CountBits \in Nat \ {0} /\ 2 * TickBits \in Nat
      /\ 0 + TickBits = TickBits /\ TickBits + TickBits = 2 * TickBits
  BY Widths
<1>2. PICK len \in Nat : len = Len(data) * ByteBits
  BY 0 \in Nat, InOrOut
<1>3. PICK L \in Nat, E \in Nat, I \in Nat :
         /\ L = Len(s.changed) /\ E = Len(s.changed) * EntityBits
         /\ I = Len(s.removed) * IdBits
  BY SizeType
<1>4. PICK first \in Nat, mid \in Nat, last \in Nat :
         /\ first = 2 * TickBits + CountBits
         /\ mid = first + E /\ last = mid + CountBits
  BY <1>1
<1>5. mid = TickBits + KeyframeSize(s) /\ DeltaSize(s) = last + I
  <2>1. KeyframeSize(s) = TickBits + CountBits + E
    BY <1>3 DEF KeyframeSize
  <2>2. DeltaSize(s) = TickBits + KeyframeSize(s) + CountBits + I
    BY <1>3 DEF DeltaSize
  <2>3. mid = TickBits + (TickBits + CountBits + E) /\ last = mid + CountBits
    BY <1>1, <1>4
  <2> QED
    BY <1>1, <2>1, <2>2, <2>3
<1>6. /\ Field(x, k, 2 * TickBits, CountBits) = L
      /\ Field(x, k, mid, CountBits) = Len(s.removed)
      /\ EntitiesAt(x, k, 2 * TickBits, s.changed, Len(s.changed))
      /\ IdsAt(x, k, mid, s.removed, Len(s.removed))
  BY <1>3, <1>5 DEF DeltaAt, EntitiesAt, IdsAt
<1>7. ASSUME first <= len PROVE count = L /\ after = mid
  <2>1. ReadBits(data, 2 * TickBits, CountBits) = Field(x, k, 2 * TickBits, CountBits)
    BY <1>1, <1>2, <1>4, <1>7, InOrOut
  <2> QED
    BY <1>3, <1>4, <1>6, <2>1
<1>8. ASSUME last <= len PROVE removed = Len(s.removed)
  <2>1. first <= len
    BY <1>1, <1>4, <1>8
  <2>2. ReadBits(data, mid, CountBits) = Field(x, k, mid, CountBits)
    BY <1>1, <1>2, <1>4, <1>8, InOrOut
  <2> QED
    BY <1>6, <1>7, <2>1, <2>2
<1> HIDE DEF count, after, removed
<1>9. CASE last + I <= len
  <2>1. first <= len /\ mid <= len /\ last <= len /\ 2 * TickBits <= len /\ TickBits <= len
    BY <1>1, <1>4, <1>9
  <2>2. count = L /\ after = mid /\ removed = Len(s.removed)
    BY <1>7, <1>8, <2>1
  <2>3. InBuffer(data, after + CountBits, removed * IdBits)
    BY <1>2, <1>3, <1>4, <1>9, <2>2 DEF InBuffer
  <2>4. ReadBits(data, 0, TickBits) = s.tick
    <3>1. ReadBits(data, 0, TickBits) = Field(x, k, 0, TickBits)
      BY <1>1, <1>2, <2>1, InOrOut
    <3> QED
      BY <3>1 DEF DeltaAt
  <2>5. ReadBits(data, TickBits, TickBits) = s.baseline_tick
    <3>1. ReadBits(data, TickBits, TickBits) = Field(x, k, TickBits, TickBits)
      BY <1>1, <1>2, <2>1, InOrOut
    <3> QED
      BY <3>1 DEF DeltaAt
  <2>6. ReadEntities(data, 2 * TickBits + CountBits, count) = s.changed
    <3>1. ReadEntities(data, 2 * TickBits + CountBits, Len(s.changed)) = s.changed
      BY <1>1, <1>2, <1>3, <1>4, <1>6, <2>1, MessageIs, EntitiesRead
    <3> QED
      BY <1>3, <2>2, <3>1
  <2>7. ReadIds(data, after + CountBits, removed) = s.removed
    <3>1. ReadIds(data, mid + CountBits, Len(s.removed)) = s.removed
      BY <1>1, <1>2, <1>3, <1>4, <1>6, <1>9, MessageIs, IdsRead
    <3> QED
      BY <2>2, <3>1
  <2>8. s = [type |-> "Delta", tick |-> s.tick, baseline_tick |-> s.baseline_tick,
             changed |-> s.changed, removed |-> s.removed]
    BY MessageIs
  <2>9. DecodeDelta(data) = s
    BY <2>3, <2>4, <2>5, <2>6, <2>7, <2>8 DEF DecodeDelta, count, after, removed
  <2> QED
    BY <1>2, <1>5, <1>9, <2>9
<1>10. CASE ~(last + I <= len)
  <2>1. ~InBuffer(data, after + CountBits, removed * IdBits)
    <3>1. CASE last <= len
      <4>1. first <= len
        BY <1>1, <1>4, <3>1
      <4>2. after = mid /\ removed = Len(s.removed)
        BY <1>7, <1>8, <3>1, <4>1
      <4> QED
        BY <1>2, <1>3, <1>4, <1>10, <4>2 DEF InBuffer
    <3>2. ASSUME NEW at \in Nat, after = at, at + CountBits > len
          PROVE  ~InBuffer(data, after + CountBits, removed * IdBits)
      <4>1. removed = 0
        BY <1>1, <1>2, <3>2, InOrOut DEF removed
      <4>2. 0 * IdBits = 0
        BY Widths
      <4> QED
        BY <1>1, <1>2, <3>2, <4>1, <4>2 DEF InBuffer
    <3>3. CASE first <= len /\ last > len
      BY <1>4, <1>7, <3>2, <3>3
    <3>4. CASE first > len
      <4>1. count = 0
        BY <1>1, <1>2, <1>4, <3>4, InOrOut DEF count
      <4>2. 0 * EntityBits = 0
        BY Widths
      <4>3. after = first
        BY <1>4, <4>1, <4>2 DEF after
      <4> QED
        BY <1>1, <3>2, <3>4, <4>3
    <3> QED
      BY <3>1, <3>3, <3>4
  <2>2. DecodeDelta(data) = Refused
    BY <2>1 DEF DecodeDelta, count, after, removed
  <2> QED
    BY <1>2, <1>5, <1>10, <2>2
<1> QED
  BY <1>9, <1>10

----------------------------------------------------------------------------
(* Sending one *)

\* Of the bytes of a writer, only the whole has all the bits that were written.
LEMMA BytesRead ==
    ASSUME NEW w, NEW u \in Nat, NEW m \in Nat, Holds(w, u, m)
    PROVE  \E x \in Nat, k \in Nat :
              /\ Take(w) \in Seq(Nat) /\ Keeps(u, m, x, k)
              /\ \A n \in 0 .. Len(Take(w)) :
                    /\ Spells(SubSeq(Take(w), 1, n), x, k)
                    /\ m <= Len(SubSeq(Take(w), 1, n)) * ByteBits <=> n = Len(Take(w))
<1>1. PICK x \in Nat, k \in Nat :
         /\ Spells(Take(w), x, k) /\ Len(Take(w)) * ByteBits = k
         /\ Keeps(u, m, x, k) /\ k < m + ByteBits
  BY Padded
<1>2. Take(w) \in Seq(Nat) /\ m <= k
  BY <1>1 DEF Spells, Keeps
<1>4. PICK len \in Nat : len = Len(Take(w))
  BY <1>2
<1>3. ASSUME NEW n \in 0 .. Len(Take(w))
      PROVE  /\ Spells(SubSeq(Take(w), 1, n), x, k)
             /\ m <= Len(SubSeq(Take(w), 1, n)) * ByteBits <=> n = Len(Take(w))
  <2>1. Spells(SubSeq(Take(w), 1, n), x, k) /\ Len(SubSeq(Take(w), 1, n)) = n
    BY <1>1, Prefix
  <2>2. ASSUME n # Len(Take(w)) PROVE ~(m <= n * ByteBits)
    <3>0. n \in 0 .. len /\ n # len
      BY <1>4, <2>2
    <3>1. PICK d \in Nat : len = n + 1 + d
      BY <3>0
    <3>2. k = n * ByteBits + ByteBits + d * ByteBits
          /\ n * ByteBits \in Nat /\ d * ByteBits \in Nat
      BY <1>1, <1>4, <3>0, <3>1, Widths
    <3> QED
      BY <1>1, <3>2, Widths
  <2> QED
    BY <1>1, <1>2, <2>1, <2>2
<1> QED
  BY <1>1, <1>2, <1>3

\* A buffer that decodes to s when it is whole and to nothing when it is cut.
LEMMA FramedSurvives ==
    ASSUME NEW s, NEW data \in Seq(Nat), NEW byte \in Nat,
           Encode(s) = <<byte>> \o data,
           \A n \in 0 .. Len(data) :
              Decode(SubSeq(<<byte>> \o data, 1, n + 1))
                 = IF n = Len(data) THEN s ELSE Refused
    PROVE  Survives(s)
<1> DEFINE whole == <<byte>> \o data
<1>1. whole \in Seq(Nat) /\ Len(whole) = Len(data) + 1 /\ Len(data) \in Nat
  <2>1. <<byte>> \in Seq(Nat) /\ Len(<<byte>>) = 1 /\ Len(data) \in Nat
    OBVIOUS
  <2> QED
    BY <2>1, ConcatProperties
<1> HIDE DEF whole
<1>2. \A n \in 0 .. Len(data) :
         Decode(SubSeq(whole, 1, n + 1)) = IF n = Len(data) THEN s ELSE Refused
  BY DEF whole
<1>3. Decode(whole) = s
  <2>1. SubSeq(whole, 1, Len(data) + 1) = whole
    BY <1>1, SubSeqFull
  <2>2. Len(data) \in 0 .. Len(data)
    BY <1>1
  <2>3. Decode(SubSeq(whole, 1, Len(data) + 1)) = s
    BY <1>2, <2>2, Zenon
  <2> QED
    BY <2>1, <2>3
<1>4. ASSUME NEW n \in 0 .. Len(whole) - 1 PROVE Decode(SubSeq(whole, 1, n)) = Refused
  <2>1. CASE n = 0
    <3>1. SubSeq(whole, 1, 0) = <<>>
      BY SubSeqEmpty
    <3> QED
      BY <2>1, <3>1 DEF Decode
  <2>2. CASE n # 0
    <3>1. PICK j \in 0 .. Len(data) : n = j + 1 /\ j # Len(data)
      <4>1. n - 1 \in 0 .. Len(data) /\ n = (n - 1) + 1 /\ n - 1 # Len(data)
        BY <1>1, <2>2
      <4> QED
        BY <4>1
    <3> QED
      BY <1>2, <3>1
  <2> QED
    BY <2>1, <2>2
<1>5. Encode(s) = whole
  BY DEF whole
<1> QED
  BY <1>3, <1>4, <1>5 DEF Survives

\* apply_snapshot reads from the bytes of encode_keyframe and encode_delta what they
\* wrote, and refuses any that were cut short: for every message, of any length, and
\* whatever widths the fields take (snapshot.h:49).
THEOREM MessagesSurvive == \A s \in Message : Survives(s)
<1> SUFFICES ASSUME NEW s \in Message PROVE Survives(s)
  OBVIOUS
<1>0. TypeByte.Keyframe = 0 /\ TypeByte.Delta = 1
  BY DEF TypeByte
<1>1. CASE s.type = "Keyframe"
  <2>1. PICK w : \E u \in Nat, m \in Nat :
           /\ EncodeKeyframe(s) = <<TypeByte.Keyframe>> \o Take(w)
           /\ Holds(w, u, m) /\ m = KeyframeSize(s) /\ KeyframeAt(u, m, s)
    BY KeyframeWritten
  <2>2. PICK u \in Nat, m \in Nat :
           Holds(w, u, m) /\ m = KeyframeSize(s) /\ KeyframeAt(u, m, s)
    BY <2>1
  <2>3. PICK x \in Nat, k \in Nat :
           /\ Take(w) \in Seq(Nat) /\ Keeps(u, m, x, k)
           /\ \A n \in 0 .. Len(Take(w)) :
                 /\ Spells(SubSeq(Take(w), 1, n), x, k)
                 /\ m <= Len(SubSeq(Take(w), 1, n)) * ByteBits <=> n = Len(Take(w))
    BY <2>2, BytesRead
  <2>4. KeyframeAt(x, k, s)
    <3>1. Field(x, k, 0, TickBits) = Field(u, m, 0, TickBits)
      <4>1. 0 + TickBits <= m /\ TickBits \in Nat
        <5>1. PICK E \in Nat : E = Len(s.changed) * EntityBits
          BY SizeType
        <5>2. m = TickBits + CountBits + E
          BY <2>2, <5>1 DEF KeyframeSize
        <5> QED
          BY <5>2, Widths
      <4> QED
        BY <2>3, <4>1 DEF Keeps
    <3>2. EntitiesAt(x, k, TickBits, s.changed, Len(s.changed))
      <4>1. m = TickBits + CountBits + Len(s.changed) * EntityBits
        BY <2>2 DEF KeyframeSize
      <4>2. TickBits \in Nat /\ Len(s.changed) \in Nat
        BY SizeType, Widths
      <4>3. EntitiesAt(u, m, TickBits, s.changed, Len(s.changed))
        BY <2>2 DEF KeyframeAt
      <4> QED
        BY <2>3, <4>1, <4>2, <4>3, EntitiesKept
    <3> QED
      BY <2>2, <3>1, <3>2 DEF KeyframeAt
  <2>5. PICK data \in Seq(Nat) : data = Take(w)
    BY <2>3
  <2>6. ASSUME NEW n \in 0 .. Len(data)
        PROVE  Decode(SubSeq(<<0>> \o data, 1, n + 1)) = IF n = Len(data) THEN s ELSE Refused
    <3>1. DecodeKeyframe(SubSeq(data, 1, n)) = IF n = Len(data) THEN s ELSE Refused
      BY <1>1, <2>2, <2>3, <2>4, <2>5, KeyframeRead
    <3> DEFINE part == SubSeq(<<0>> \o data, 1, n + 1)
    <3>2. part # <<>> /\ Head(part) = 0 /\ Tail(part) = SubSeq(data, 1, n)
      BY Framed
    <3> HIDE DEF part
    <3>3. Decode(part) = DecodeKeyframe(SubSeq(data, 1, n))
      BY <1>0, <3>2 DEF Decode
    <3> QED
      BY <3>1, <3>3 DEF part
  <2>7. Encode(s) = <<0>> \o data
    BY <1>0, <1>1, <2>1, <2>5 DEF Encode
  <2> QED
    BY <2>6, <2>7, FramedSurvives
<1>2. CASE s.type = "Delta"
  <2>1. PICK w : \E u \in Nat, m \in Nat :
           /\ EncodeDelta(s) = <<TypeByte.Delta>> \o Take(w)
           /\ Holds(w, u, m) /\ m = DeltaSize(s) /\ DeltaAt(u, m, s)
    BY DeltaWritten
  <2>2. PICK u \in Nat, m \in Nat :
           Holds(w, u, m) /\ m = DeltaSize(s) /\ DeltaAt(u, m, s)
    BY <2>1
  <2>3. PICK x \in Nat, k \in Nat :
           /\ Take(w) \in Seq(Nat) /\ Keeps(u, m, x, k)
           /\ \A n \in 0 .. Len(Take(w)) :
                 /\ Spells(SubSeq(Take(w), 1, n), x, k)
                 /\ m <= Len(SubSeq(Take(w), 1, n)) * ByteBits <=> n = Len(Take(w))
    BY <2>2, BytesRead
  <2>4. DeltaAt(x, k, s)
    <3>0. PICK E \in Nat, I \in Nat :
             /\ E = Len(s.changed) * EntityBits /\ I = Len(s.removed) * IdBits
      BY SizeType
    <3>1. /\ m = TickBits + TickBits + CountBits + E + CountBits + I
          /\ TickBits \in Nat /\ CountBits \in Nat
      <4>1. TickBits \in Nat /\ CountBits \in Nat
        BY Widths
      <4>2. m = TickBits + (TickBits + CountBits + E) + CountBits + I
        BY <2>2, <3>0 DEF DeltaSize, KeyframeSize
      <4> QED
        BY <4>1, <4>2
    <3>2. /\ Field(x, k, 0, TickBits) = Field(u, m, 0, TickBits)
          /\ Field(x, k, TickBits, TickBits) = Field(u, m, TickBits, TickBits)
      <4>1. 0 + TickBits <= m /\ TickBits + TickBits <= m
        BY <3>1
      <4> QED
        BY <2>3, <3>1, <4>1 DEF Keeps
    <3>3. EntitiesAt(x, k, 2 * TickBits, s.changed, Len(s.changed))
      <4>1. PICK n \in Nat, h \in Nat :
               n = 2 * TickBits /\ h = n + CountBits + Len(s.changed) * EntityBits /\ h <= m
        <5>1. /\ 2 * TickBits \in Nat /\ 2 * TickBits + CountBits + E \in Nat
              /\ 2 * TickBits + CountBits + E <= m
          BY <3>1
        <5> QED
          BY <3>0, <5>1
      <4>2. EntitiesAt(u, m, n, s.changed, Len(s.changed))
        BY <2>2, <4>1 DEF DeltaAt
      <4> QED
        BY <2>3, <4>1, <4>2, SizeType, EntitiesKept
    <3>4. IdsAt(x, k, TickBits + KeyframeSize(s), s.removed, Len(s.removed))
      <4>1. PICK n \in Nat :
               n = TickBits + KeyframeSize(s) /\ m = n + CountBits + Len(s.removed) * IdBits
        BY <2>2, <3>1, SizeType DEF DeltaSize
      <4>2. IdsAt(u, m, n, s.removed, Len(s.removed))
        BY <2>2, <4>1 DEF DeltaAt
      <4> QED
        BY <2>3, <4>1, <4>2, SizeType, IdsKept
    <3> QED
      BY <2>2, <3>2, <3>3, <3>4 DEF DeltaAt
  <2>5. PICK data \in Seq(Nat) : data = Take(w)
    BY <2>3
  <2>6. ASSUME NEW n \in 0 .. Len(data)
        PROVE  Decode(SubSeq(<<1>> \o data, 1, n + 1)) = IF n = Len(data) THEN s ELSE Refused
    <3>1. DecodeDelta(SubSeq(data, 1, n)) = IF n = Len(data) THEN s ELSE Refused
      BY <1>2, <2>2, <2>3, <2>4, <2>5, DeltaRead
    <3> DEFINE part == SubSeq(<<1>> \o data, 1, n + 1)
    <3>2. part # <<>> /\ Head(part) = 1 /\ Tail(part) = SubSeq(data, 1, n)
      BY Framed
    <3> HIDE DEF part
    <3>3. Head(part) # TypeByte.Keyframe /\ Head(part) = TypeByte.Delta
      BY <1>0, <3>2
    <3>4. Decode(part) = DecodeDelta(SubSeq(data, 1, n))
      BY <3>2, <3>3 DEF Decode
    <3> QED
      BY <3>1, <3>4 DEF part
  <2>7. Encode(s) = <<1>> \o data
    BY <1>0, <1>2, <2>1, <2>5 DEF Encode
  <2> QED
    BY <2>6, <2>7, FramedSurvives
<1> QED
  BY <1>1, <1>2, MessageIs

----------------------------------------------------------------------------
(* What the server sends *)

\* What a snapshot says fits the fields of the wire.
LEMMA ContentType ==
    ASSUME NEW b \in Sendable, NEW id \in Numberings
    PROVE  Content(b, id) \in Message
<1> DEFINE s  == Content(b, id)
           D  == DOMAIN b.changed
           R  == b.removed
           cs == SortedById(D, id)
           rs == SortedById(R, id)
           C  == [k \in DOMAIN cs |-> [id |-> id[cs[k]], level |-> b.changed[cs[k]]]]
           N  == [k \in DOMAIN rs |-> id[rs[k]]]
           max == Cardinality(Clients)
<1>1. /\ b \in Blob /\ b.type \in {"Keyframe", "Delta"} /\ b.tick \in 1 .. MaxTick
      /\ b.baseline_tick \in 0 .. MaxTick /\ b.changed \in Tables(Level)
      /\ R \in SUBSET Clients
      /\ b.type = "Keyframe" => b.baseline_tick = 0 /\ R = {}
  BY DEF Sendable, Blob
<1>2. D \in SUBSET Clients /\ b.changed \in [D -> Level]
  BY <1>1, TableIs
<1>3. b.tick \in Fits(TickBits) /\ b.baseline_tick \in Fits(TickBits)
  <2>1. MaxTick \in Nat /\ MaxTick < Pow2[TickBits] /\ Pow2[TickBits] \in Nat
    BY WireAssumption, SyncAssumption, Widths, Pow2Facts
  <2> QED
    BY <1>1, <2>1 DEF Fits
<1>4. \A e \in Level : e \in Fits(PosBits)
  <2>1. MaxLevel \in Nat /\ MaxLevel < Pow2[PosBits] /\ Pow2[PosBits] \in Nat
    BY WireAssumption, SyncAssumption, Widths, Pow2Facts
  <2> QED
    BY <2>1 DEF Fits, Level
<1>5. /\ max \in Nat /\ max < Pow2[CountBits] /\ max < Pow2[IdBits]
      /\ Pow2[CountBits] \in Nat /\ Pow2[IdBits] \in Nat
  BY WireAssumption, Widths, Pow2Facts, FS_CardinalityType
<1>6. \A c \in Clients : id[c] \in Fits(IdBits)
  <2>1. id \in [Clients -> 1 .. max]
    BY DEF Numberings
  <2> HIDE DEF max
  <2> QED
    BY <1>5, <2>1 DEF Fits
<1>7. \A n \in Nat : n <= max => n \in Fits(CountBits)
  <2> HIDE DEF max
  <2> QED
    BY <1>5 DEF Fits
<1>8. /\ Cardinality(D) \in Fits(CountBits) /\ Cardinality(R) \in Fits(CountBits)
      /\ Cardinality(D) \in Nat /\ Cardinality(R) \in Nat
      /\ cs \in [1 .. Cardinality(D) -> D] /\ rs \in [1 .. Cardinality(R) -> R]
  <2>1. /\ Cardinality(D) \in Nat /\ Cardinality(D) <= max
        /\ cs \in [1 .. Cardinality(D) -> D]
    BY <1>2, SortedType
  <2>2. /\ Cardinality(R) \in Nat /\ Cardinality(R) <= max
        /\ rs \in [1 .. Cardinality(R) -> R]
    BY <1>1, SortedType
  <2> HIDE DEF cs, rs, max, D, R
  <2> QED
    BY <1>7, <2>1, <2>2
<1>9. C \in Seq(Entity) /\ Len(C) = Cardinality(D)
  <2> HIDE DEF cs, D
  <2>1. \A k \in 1 .. Cardinality(D) :
           [id |-> id[cs[k]], level |-> b.changed[cs[k]]] \in Entity
    BY <1>2, <1>4, <1>6, <1>8 DEF Entity
  <2>2. DOMAIN cs = 1 .. Cardinality(D)
    BY <1>8
  <2>3. C \in [1 .. Cardinality(D) -> Entity]
    BY <2>1, <2>2
  <2> HIDE DEF C
  <2> QED
    BY <1>8, <2>3
<1>10. N \in Seq(Fits(IdBits)) /\ Len(N) = Cardinality(R)
  <2> HIDE DEF rs, R
  <2>1. \A k \in 1 .. Cardinality(R) : id[rs[k]] \in Fits(IdBits)
    BY <1>1, <1>6, <1>8
  <2>2. DOMAIN rs = 1 .. Cardinality(R)
    BY <1>8
  <2>3. N \in [1 .. Cardinality(R) -> Fits(IdBits)]
    BY <2>1, <2>2
  <2> HIDE DEF N
  <2> QED
    BY <1>8, <2>3
<1>11. s = [type |-> b.type, tick |-> b.tick, baseline_tick |-> b.baseline_tick,
            changed |-> C, removed |-> N]
  BY DEF Content
<1>12. b.type = "Keyframe" => N = <<>>
  <2> SUFFICES ASSUME b.type = "Keyframe" PROVE N = <<>>
    OBVIOUS
  <2>1. Len(N) = 0
    BY <1>1, <1>10, FS_EmptySet
  <2> HIDE DEF N
  <2> QED
    BY <1>10, <2>1, EmptySeq
<1> HIDE DEF s, C, N, cs, rs, D, R
<1>13. s \in Message
  BY <1>1, <1>3, <1>8, <1>9, <1>10, <1>11, <1>12 DEF Message, R
<1> QED
  BY <1>13 DEF s

\* ...which is so of all that a server could send.
THEOREM WireIsLosslessHolds == WireIsLossless
BY ContentType, MessagesSurvive DEF WireIsLossless

KeyframesStandAlone ==
    \A b \in blobs : b.type = "Keyframe" => b.baseline_tick = 0 /\ b.removed = {}

LEMMA StandAloneStep == KeyframesStandAlone /\ [Next]_vars => KeyframesStandAlone'
<1> SUFFICES ASSUME KeyframesStandAlone, [Next]_vars PROVE KeyframesStandAlone'
  OBVIOUS
<1>1. ASSUME NEW n \in 1 .. MaxSteps, ServerTick(n) PROVE KeyframesStandAlone'
  <2> DEFINE t      == tick + n
             moved  == [c \in Joined |-> Moved(world[c], n)]
             pushed == Pushed(ring, t, Positions(moved))
  <2>1. blobs' \subseteq blobs \union
           { EncodeFor(pushed, c, last_received[c], t) : c \in Joined }
    BY <1>1 DEF ServerTick
  <2> HIDE DEF t, moved, pushed
  <2>2. ASSUME NEW c \in Joined
        PROVE  LET b == EncodeFor(pushed, c, last_received[c], t)
               IN  b.type = "Keyframe" => b.baseline_tick = 0 /\ b.removed = {}
    BY DEF EncodeFor, Keyframe, Delta
  <2> QED
    BY <2>1, <2>2 DEF KeyframesStandAlone
<1>2. ASSUME blobs' = blobs PROVE KeyframesStandAlone'
  BY <1>2 DEF KeyframesStandAlone
<1> QED
  BY <1>1, <1>2 DEF Next, Join, Ingest, SendInput, LoseInput, ApplySnapshot, vars

\* Whatever the server does, every snapshot on its way is one that the wire carries
\* unharmed.
THEOREM ReadAsWrittenHolds == Spec => []ReadAsWritten
<1>1. Init => KeyframesStandAlone
  BY DEF Init, KeyframesStandAlone
<1>2. TypeOK /\ KeyframesStandAlone => ReadAsWritten
  BY WireIsLosslessHolds DEF TypeOK, KeyframesStandAlone, ReadAsWritten, Sendable
<1>3. Spec => []KeyframesStandAlone
  BY <1>1, StandAloneStep, PTL DEF Spec
<1> QED
  BY <1>2, <1>3, TypeCorrect, PTL

=============================================================================
