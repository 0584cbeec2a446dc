-------------------------- MODULE ServerLoopProofs --------------------------
(***************************************************************************)
(* Proofs about ServerLoop: the accumulator keeps time, the drain loop     *)
(* leaves nothing in an inbox, every client has one player, and packets    *)
(* hold no more snapshots than fit an interval; for any endpoints, step,   *)
(* cap and intervals.                                                      *)
(***************************************************************************)
EXTENDS ServerLoop, TLAPS

----------------------------------------------------------------------------
(* The accumulator *)

\* Division with remainder by the length of a step.
LEMMA Division ==
    ASSUME NEW b \in Nat
    PROVE  /\ b \div Dt \in Nat
           /\ b % Dt \in 0 .. Dt - 1
           /\ b = (b \div Dt) * Dt + (b % Dt)
BY StepAssumption

\* Multiplication and the order, for steps of length Dt.
LEMMA StepsOrdered ==
    ASSUME NEW j \in Nat, NEW k \in Nat, j <= k
    PROVE  j * Dt <= k * Dt /\ (k - j) * Dt = k * Dt - j * Dt /\ (k - j) * Dt \in Nat
BY StepAssumption

\* advance: so many steps, a rest of less than a step, and what the cap cuts
\* off is a number of whole steps, none if the cap is not exceeded.
LEMMA Advanced ==
    ASSUME NEW b \in Nat
    PROVE  /\ StepsDue(b) \in 0 .. MaxSteps
           /\ Remainder(b) \in 0 .. Dt - 1
           /\ \E k \in Nat : /\ b = StepsDue(b) * Dt + k * Dt + Remainder(b)
                             /\ b < (MaxSteps + 1) * Dt => k = 0
<1>1. b \div Dt \in Nat /\ b % Dt \in 0 .. Dt - 1 /\ b = (b \div Dt) * Dt + (b % Dt)
  BY Division
<1>2. CASE b \div Dt <= MaxSteps
  <2>1. StepsDue(b) = b \div Dt
    BY <1>2 DEF StepsDue
  <2>2. b - StepsDue(b) * Dt = b % Dt
    BY <1>1, <2>1, StepAssumption
  <2>3. Remainder(b) = b % Dt
    BY <1>1, <2>2, StepAssumption DEF Remainder
  <2> QED
    BY <1>1, <1>2, <2>1, <2>3, StepAssumption
<1>3. CASE b \div Dt > MaxSteps
  <2>1. StepsDue(b) = MaxSteps
    BY <1>1, <1>3, StepAssumption DEF StepsDue
  <2> DEFINE q == b \div Dt
             k == q - MaxSteps
  <2>2. q \in Nat /\ k \in Nat /\ k > 0
    BY <1>1, <1>3, StepAssumption
  <2>3. MaxSteps * Dt <= q * Dt /\ k * Dt = q * Dt - MaxSteps * Dt /\ k * Dt \in Nat
    BY <2>2, StepsOrdered, StepAssumption
  <2>4. b - StepsDue(b) * Dt = k * Dt + (b % Dt)
    BY <1>1, <2>1, <2>3, StepAssumption
  <2>5. (k * Dt + (b % Dt)) % Dt = b % Dt
    <3> HIDE DEF k
    <3> DEFINE r == b % Dt
    <3>1. r \in 0 .. Dt - 1
      BY <1>1
    <3> HIDE DEF r
    <3>2. (k * Dt + r) % Dt = r
      BY <2>2, <3>1, StepAssumption
    <3> QED
      BY <3>2 DEF r
  <2>6. Remainder(b) = b % Dt
    BY <2>4, <2>5 DEF Remainder
  <2>7. ~(b < (MaxSteps + 1) * Dt)
    <3>1. MaxSteps + 1 <= q
      BY <1>1, <1>3, StepAssumption
    <3>2. (MaxSteps + 1) * Dt <= q * Dt
      BY <2>2, <3>1, StepsOrdered, StepAssumption
    <3>3. q * Dt \in Nat /\ (MaxSteps + 1) * Dt \in Nat /\ q * Dt <= b
      BY <1>1, <2>2, StepAssumption
    <3> QED
      BY <3>2, <3>3
  <2>8. b = StepsDue(b) * Dt + k * Dt + Remainder(b)
    BY <1>1, <2>1, <2>3, <2>6, StepAssumption
  <2>9. \E j \in Nat : /\ b = StepsDue(b) * Dt + j * Dt + Remainder(b)
                       /\ b < (MaxSteps + 1) * Dt => j = 0
    <3> HIDE DEF k
    <3> QED
      BY <2>2, <2>7, <2>8
  <2>10. StepsDue(b) \in 0 .. MaxSteps
    BY <2>1, StepAssumption
  <2>11. Remainder(b) \in 0 .. Dt - 1
    BY <1>1, <2>6
  <2> QED
    BY <2>9, <2>10, <2>11, Zenon
<1> QED
  BY <1>1, <1>2, <1>3, StepAssumption
----------------------------------------------------------------------------
(* Type correctness *)

LEMMA HeadTailType ==
    ASSUME NEW S, NEW q \in Seq(S), q # <<>>
    PROVE  Head(q) \in S /\ Tail(q) \in Seq(S) /\ Head(q) = q[1]
OBVIOUS

LEMMA FunctionIsSeq ==
    ASSUME NEW S, NEW n \in Nat, NEW f \in [1 .. n -> S]
    PROVE  f \in Seq(S)
OBVIOUS

LEMMA HeardType ==
    ASSUME order \in Seq(Endpoints), NEW e \in Endpoints
    PROVE  Heard(e) \in Seq(Endpoints)
BY DEF Heard

LEMMA WithKeysType ==
    ASSUME TypeOK, NEW keys \in SUBSET Endpoints
    PROVE  /\ DOMAIN WithKeys(keys) = keys \union DOMAIN clients
           /\ WithKeys(keys) \in [DOMAIN WithKeys(keys) -> Nat]
           /\ \A e \in DOMAIN clients : WithKeys(keys)[e] = clients[e]
BY DEF WithKeys, TypeOK, NoEntity

\* The values of the server loop keep their types; the accumulator, for one,
\* never holds a whole step between iterations.
THEOREM TypeCorrect == Spec => []TypeOK
<1>1. ASSUME Init PROVE TypeOK
  <2>1. clients \in [DOMAIN clients -> Nat] /\ DOMAIN clients = {}
    BY <1>1 DEF Init
  <2>2. interval \in [Endpoints -> Intervals]
    BY <1>1 DEF Init, Intervals
  <2>3. /\ untaken \in [Endpoints -> Int] /\ rx \in Seq(Datagram)
        /\ inbox \in [Endpoints -> Seq(Datagram)] /\ order \in Seq(Endpoints)
        /\ conns \subseteq Endpoints
        /\ fresh \subseteq Endpoints
    BY <1>1 DEF Init, ManagerInit
  <2>4. /\ now \in Nat /\ last \in 0 .. now /\ accumulator \in 0 .. Dt - 1
        /\ tick \in Nat /\ next_id \in Nat /\ pending \in [Endpoints -> Nat]
        /\ last_flush \in [Endpoints -> Nat]
    BY <1>1, StepAssumption DEF Init
  <2>7. stalled \in BOOLEAN
    BY <1>1, Zenon DEF Init
  <2>5. incoming \in Seq([from : Endpoints, is_new : BOOLEAN])
    BY <1>1 DEF Init
  <2>6. todo \subseteq Endpoints /\ flushed \subseteq Endpoints /\ pc = "top"
    BY <1>1 DEF Init
  <2> QED
    BY <2>1, <2>2, <2>3, <2>4, <2>5, <2>6, <2>7 DEF TypeOK
<1>2. ASSUME TypeOK, [Next]_vars PROVE TypeOK'
  <2>1. ASSUME NEW e \in Endpoints, Arrive(e), UNCHANGED loopVars PROVE TypeOK'
    <3>1. rx' \in Seq(Datagram)
      BY <1>2, <2>1 DEF Arrive, TypeOK, Datagram
    <3> QED
      BY <1>2, <2>1, <3>1, SMTT(30) DEF Arrive, TypeOK, managerVars, loopVars, clientVars,
                                        timeVars, peerVars
  <2>2. ASSUME NEW t \in now .. MaxTime, Begin(t) PROVE TypeOK'
    BY <1>2, <2>2 DEF Begin, BeginPoll, TypeOK, kernelVars, clientVars, timeVars, peerVars
  <2>3. CASE Drain
    <3> DEFINE d == Head(rx)
    <3>1. d \in Datagram /\ rx' \in Seq(Datagram)
      BY <1>2, <2>3, HeadTailType DEF Drain, Route, TypeOK
    <3>2. d.from \in Endpoints
      BY <3>1 DEF Datagram
    <3>3. order' \in Seq(Endpoints)
      BY <1>2, <2>3, <3>2, HeardType DEF Drain, Route, TypeOK
    <3>4. inbox' \in [Endpoints -> Seq(Datagram)]
      <4>1. Append(inbox[d.from], d) \in Seq(Datagram)
        BY <1>2, <3>1, <3>2 DEF TypeOK
      <4>2. inbox' = [inbox EXCEPT ![d.from] = Append(inbox[d.from], d)]
        BY <2>3 DEF Drain, Route
      <4> QED
        BY <1>2, <4>1, <4>2 DEF TypeOK
    <3>5. fresh' \subseteq Endpoints /\ conns' \subseteq Endpoints
      BY <1>2, <2>3, <3>2 DEF Drain, Route, TypeOK, FreshWith
    <3> QED
      BY <1>2, <2>3, <3>1, <3>3, <3>4, <3>5
         DEF Drain, Route, TypeOK, loopVars, clientVars, timeVars, peerVars
  <2>4. CASE Drained
    <3>1. untaken' \in [Endpoints -> Int] /\ inbox' \in [Endpoints -> Seq(Datagram)]
      BY <1>2, <2>4 DEF Drained, PollPeers, TypeOK
    <3>2. Incoming \in Seq([from : Endpoints, is_new : BOOLEAN])
      <4> DEFINE poll == [i \in DOMAIN order |->
                            [from |-> order[i], is_new |-> order[i] \in fresh]]
      <4>1. order \in Seq(Endpoints)
        BY <1>2 DEF TypeOK
      <4>2. ASSUME NEW i \in DOMAIN order
            PROVE  poll[i] \in [from : Endpoints, is_new : BOOLEAN]
        <5>1. order[i] \in Endpoints
          BY <4>1
        <5>2. (order[i] \in fresh) \in BOOLEAN
          OBVIOUS
        <5> QED
          BY <5>1, <5>2, Zenon
      <4>3. DOMAIN order = 1 .. Len(order) /\ Len(order) \in Nat
        BY <4>1
      <4>4. poll \in [1 .. Len(order) -> [from : Endpoints, is_new : BOOLEAN]]
        BY <4>2, <4>3, Zenon
      <4>5. poll \in Seq([from : Endpoints, is_new : BOOLEAN])
        <5> HIDE DEF poll
        <5> QED
          BY <4>3, <4>4, FunctionIsSeq
      <4> QED
        BY <4>5 DEF Incoming
    <3> QED
      BY <1>2, <2>4, <3>1, <3>2
         DEF Drained, PollPeers, TypeOK, kernelVars, clientVars, timeVars, peerVars
  <2>5. CASE Ingest
    <3> DEFINE in == Head(incoming)
    <3>1. /\ in \in [from : Endpoints, is_new : BOOLEAN]
          /\ incoming' \in Seq([from : Endpoints, is_new : BOOLEAN])
      BY <1>2, <2>5, HeadTailType DEF Ingest, TypeOK
    <3>2. in.from \in Endpoints
      BY <3>1
    <3> DEFINE w == WithKeys({in.from})
    <3>3. DOMAIN w \subseteq Endpoints /\ w \in [DOMAIN w -> Nat]
      BY <1>2, <3>2, WithKeysType DEF TypeOK
    <3>4. clients' = w \/ clients' = [w EXCEPT ![in.from] = next_id]
      BY <2>5 DEF Ingest
    <3>5. next_id' \in Nat
      <4>1. next_id \in Nat
        BY <1>2 DEF TypeOK
      <4>2. next_id' = next_id + 1 \/ next_id' = next_id
        BY <2>5 DEF Ingest
      <4> QED
        BY <4>1, <4>2
    <3>6. DOMAIN clients' \subseteq Endpoints /\ clients' \in [DOMAIN clients' -> Nat]
      <4> HIDE DEF w
      <4>1. next_id \in Nat
        BY <1>2 DEF TypeOK
      <4> QED
        BY <3>3, <3>4, <4>1
    <3> QED
      BY <1>2, <2>5, <3>1, <3>5, <3>6
         DEF Ingest, TypeOK, kernelVars, managerVars, timeVars, peerVars
  <2>6. CASE StepAndBroadcast
    <3> DEFINE banked == accumulator + (now - last)
    <3>1. banked \in Nat
      BY <1>2 DEF TypeOK
    <3>2. tick' \in Nat /\ accumulator' \in 0 .. Dt - 1
      BY <1>2, <2>6, <3>1, Advanced DEF StepAndBroadcast, TypeOK
    <3>3. pending' \in [Endpoints -> Nat]
      <4>1. pending \in [Endpoints -> Nat]
        BY <1>2 DEF TypeOK
      <4> DEFINE moved == StepsDue(banked) > 0 /\ conns # {}
      <4>2. pending' = [e \in Endpoints |->
                          IF moved /\ e \in conns THEN pending[e] + 1 ELSE pending[e]]
        BY <2>6 DEF StepAndBroadcast
      <4> HIDE DEF moved
      <4> QED
        BY <4>1, <4>2
    <3>4. DOMAIN clients' \subseteq Endpoints /\ clients' \in [DOMAIN clients' -> Nat]
      <4>1. conns \in SUBSET Endpoints /\ DOMAIN clients \subseteq Endpoints
            /\ clients \in [DOMAIN clients -> Nat]
        BY <1>2 DEF TypeOK
      <4>2. DOMAIN WithKeys(conns) \subseteq Endpoints
            /\ WithKeys(conns) \in [DOMAIN WithKeys(conns) -> Nat]
        BY <1>2, <4>1, WithKeysType
      <4>3. clients' = WithKeys(conns) \/ clients' = clients
        BY <2>6 DEF StepAndBroadcast
      <4> QED
        BY <4>1, <4>2, <4>3
    <3>5. stalled' \in BOOLEAN
      <4> DEFINE late == now - last > MaxSteps * Dt
      <4>1. late \in BOOLEAN
        OBVIOUS
      <4> HIDE DEF late
      <4>2. (stalled \/ late) \in BOOLEAN
        BY <4>1
      <4> QED
        BY <2>6, <4>2 DEF StepAndBroadcast, late
    <3>6. /\ last' \in 0 .. now' /\ now' \in Nat /\ pc' = "update"
          /\ todo' \subseteq Endpoints /\ next_id' \in Nat
      BY <1>2, <2>6 DEF StepAndBroadcast, TypeOK
    <3> QED
      BY <1>2, <2>6, <3>2, <3>3, <3>4, <3>5, <3>6
         DEF StepAndBroadcast, TypeOK, kernelVars, managerVars
  <2>7. ASSUME NEW e \in Endpoints, UpdatePeer(e) PROVE TypeOK'
    <3>1. /\ pending' \in [Endpoints -> Nat] /\ flushed' \subseteq Endpoints
          /\ last_flush' \in [Endpoints -> Nat]
          /\ interval' \in [Endpoints -> Intervals] /\ todo' \subseteq Endpoints
      <4>1. CASE Due(e)
        <5>1. /\ pending' = [pending EXCEPT ![e] = 0]
              /\ last_flush' = [last_flush EXCEPT ![e] = now]
              /\ flushed' = flushed \union {e}
              /\ \E i \in Intervals : interval' = [interval EXCEPT ![e] = i]
              /\ todo' = todo \ {e}
          BY <2>7, <4>1, Zenon DEF UpdatePeer
        <5>2. now \in Nat /\ pending \in [Endpoints -> Nat]
              /\ last_flush \in [Endpoints -> Nat]
              /\ interval \in [Endpoints -> Intervals]
              /\ flushed \subseteq Endpoints /\ todo \subseteq Endpoints
          BY <1>2 DEF TypeOK
        <5> QED
          BY <5>1, <5>2
      <4>2. CASE ~Due(e)
        BY <1>2, <2>7, <4>2 DEF UpdatePeer, TypeOK, peerVars
      <4> QED
        BY <4>1, <4>2
    <3> QED
      BY <1>2, <2>7, <3>1 DEF UpdatePeer, TypeOK, kernelVars, managerVars,
                              clientVars, timeVars
  <2>8. CASE EndIteration
    BY <1>2, <2>8 DEF EndIteration, TypeOK, kernelVars, managerVars, clientVars,
                      timeVars, peerVars
  <2>9. ASSUME NEW e \in Endpoints, SendFails(e) PROVE TypeOK'
    BY <1>2, <2>9 DEF SendFails, TypeOK, kernelVars, managerVars, clientVars,
                      timeVars, peerVars
  <2>10. CASE UNCHANGED vars
    BY <1>2, <2>10 DEF vars, loopVars, TypeOK, kernelVars, managerVars,
                       clientVars, timeVars, peerVars
  <2> QED
    BY <1>2, <2>1, <2>2, <2>3, <2>4, <2>5, <2>6, <2>7, <2>8, <2>9, <2>10
       DEF Next, ServerStep, DatagramArrives
<1> QED
  BY <1>1, <1>2, PTL DEF Spec

----------------------------------------------------------------------------
(* Time *)

LEMMA Distributes ==
    ASSUME NEW i \in Nat, NEW j \in Nat
    PROVE  i * Dt \in Nat /\ j * Dt \in Nat /\ (i + j) * Dt = i * Dt + j * Dt
BY StepAssumption

\* All the time up to the last iteration is accounted for: as ticks, as the
\* remainder, or as whole steps cut off by the cap.
TimeAccounted ==
    \E k \in Nat : /\ last = tick * Dt + accumulator + k * Dt
                   /\ ~stalled => k = 0

LEMMA AccountedKeepsTime ==
    ASSUME TypeOK, TimeAccounted
    PROVE  KeepsTime
<1>1. PICK k \in Nat : /\ last = tick * Dt + accumulator + k * Dt
                       /\ ~stalled => k = 0
  BY DEF TimeAccounted
<1> DEFINE lag == last - (tick * Dt + accumulator)
<1>2. tick * Dt \in Nat /\ k * Dt \in Nat
  BY Distributes DEF TypeOK
<1>3. lag = k * Dt
  BY <1>1, <1>2 DEF TypeOK
<1>4. (k * Dt) % Dt = 0
  BY StepAssumption
<1>5. k = 0 => k * Dt = 0
  BY StepAssumption
<1> QED
  BY <1>1, <1>2, <1>3, <1>4, <1>5 DEF KeepsTime

\* An iteration's advance keeps the account.
LEMMA StepKeepsAccount ==
    ASSUME TypeOK, TimeAccounted, StepAndBroadcast
    PROVE  TimeAccounted'
<1> DEFINE banked == accumulator + (now - last)
<1>1. /\ banked \in Nat /\ tick \in Nat /\ accumulator \in 0 .. Dt - 1
      /\ now \in Nat /\ last \in 0 .. now
  BY DEF TypeOK
<1>2. /\ tick' = tick + StepsDue(banked) /\ accumulator' = Remainder(banked)
      /\ last' = now
  BY DEF StepAndBroadcast
<1>3. PICK k \in Nat : /\ last = tick * Dt + accumulator + k * Dt
                       /\ ~stalled => k = 0
  BY DEF TimeAccounted
<1>4. /\ StepsDue(banked) \in 0 .. MaxSteps /\ Remainder(banked) \in 0 .. Dt - 1
      /\ \E c \in Nat : /\ banked = StepsDue(banked) * Dt + c * Dt + Remainder(banked)
                        /\ banked < (MaxSteps + 1) * Dt => c = 0
  BY <1>1, Advanced, Zenon
<1>5. PICK c \in Nat : /\ banked = StepsDue(banked) * Dt + c * Dt + Remainder(banked)
                       /\ banked < (MaxSteps + 1) * Dt => c = 0
  BY <1>4
<1> DEFINE s == StepsDue(banked)
           r == Remainder(banked)
<1>6. s \in Nat /\ r \in Nat
  BY <1>4, StepAssumption
<1>7. /\ tick * Dt \in Nat /\ s * Dt \in Nat /\ k * Dt \in Nat /\ c * Dt \in Nat
      /\ (tick + s) * Dt = tick * Dt + s * Dt
      /\ (k + c) * Dt = k * Dt + c * Dt
  BY <1>1, <1>6, Distributes
<1>8. last' = tick' * Dt + accumulator' + (k + c) * Dt
  <2>1. now = last + banked - accumulator
    BY <1>1
  <2> HIDE DEF banked, s, r
  <2>2. banked = s * Dt + c * Dt + r
    BY <1>5 DEF s, r
  <2>3. tick' = tick + s /\ accumulator' = r /\ last' = now
    BY <1>2 DEF s, r
  <2> DEFINE a == tick * Dt
             b == s * Dt
             e == k * Dt
             f == c * Dt
  <2>4. /\ a \in Nat /\ b \in Nat /\ e \in Nat /\ f \in Nat
        /\ (tick + s) * Dt = a + b /\ (k + c) * Dt = e + f
        /\ last = a + accumulator + e /\ banked = b + f + r
    BY <1>3, <1>7, <2>2
  <2> HIDE DEF a, b, e, f
  <2>5. now = a + b + r + (e + f)
    BY <1>1, <1>6, <2>1, <2>4
  <2> QED
    BY <2>3, <2>4, <2>5
<1>9. ~stalled' => k + c = 0
  <2> SUFFICES ASSUME ~stalled' PROVE k + c = 0
    OBVIOUS
  <2>1. stalled' = (stalled \/ now - last > MaxSteps * Dt)
    BY DEF StepAndBroadcast
  <2>2. ~stalled /\ ~(now - last > MaxSteps * Dt)
    BY <2>1
  <2>3. MaxSteps * Dt \in Nat /\ (MaxSteps + 1) * Dt = MaxSteps * Dt + Dt
    BY StepAssumption
  <2>4. banked < (MaxSteps + 1) * Dt
    BY <1>1, <2>2, <2>3, StepAssumption
  <2> QED
    BY <1>3, <1>5, <2>2, <2>4
<1>10. k + c \in Nat
  OBVIOUS
<1> HIDE DEF banked, s, r
<1> QED
  BY <1>8, <1>9, <1>10 DEF TimeAccounted

\* The simulation neither gains nor loses time but by whole steps cut off in a
\* stall, for every step length and cap.
THEOREM KeepsTimeHolds == Spec => []KeepsTime
<1>1. ASSUME Init PROVE TimeAccounted
  <2>1. last = 0 /\ tick = 0 /\ accumulator = 0
    BY <1>1 DEF Init
  <2>2. last = tick * Dt + accumulator + 0 * Dt
    BY <2>1, StepAssumption
  <2> QED
    BY <2>2 DEF TimeAccounted
<1>2. ASSUME TypeOK, TimeAccounted, [Next]_vars PROVE TimeAccounted'
  <2>1. CASE StepAndBroadcast
    BY <1>2, <2>1, StepKeepsAccount
  <2>2. CASE UNCHANGED timeVars
    BY <1>2, <2>2 DEF timeVars, TimeAccounted
  <2>3. StepAndBroadcast \/ UNCHANGED timeVars
    BY <1>2 DEF Next, ServerStep, DatagramArrives, Begin, Drain, Drained, Ingest,
                UpdatePeer, EndIteration, SendFails, vars, loopVars
  <2> QED
    BY <2>1, <2>2, <2>3
<1> QED
  BY <1>1, <1>2, TypeCorrect, AccountedKeepsTime, PTL DEF Spec

----------------------------------------------------------------------------
(* The drain loop *)

\* While poll drains, only the inboxes of endpoints on its list hold anything.
InboxesListed ==
    pc = "drain" => \A e \in Endpoints : inbox[e] # <<>> => e \in Range(order)

LEMMA HeardIsListed ==
    ASSUME order \in Seq(Endpoints), NEW e \in Endpoints
    PROVE  Range(Heard(e)) = Range(order) \union {e}
<1>1. CASE e \in Range(order)
  BY <1>1 DEF Heard
<1>2. CASE e \notin Range(order)
  <2>1. Heard(e) = Append(order, e)
    BY <1>2 DEF Heard
  <2>2. Range(Append(order, e)) = Range(order) \union {e}
    <3> DEFINE o == Append(order, e)
    <3>1. /\ DOMAIN order = 1 .. Len(order) /\ Len(order) \in Nat
          /\ DOMAIN o = 1 .. Len(order) + 1
          /\ \A i \in 1 .. Len(order) : o[i] = order[i]
          /\ o[Len(order) + 1] = e
      OBVIOUS
    <3> HIDE DEF o
    <3> QED
      BY <3>1 DEF Range
  <2> QED
    BY <2>1, <2>2
<1> QED
  BY <1>1, <1>2

\* A datagram drained in a poll is handed over by that poll, for any number of
\* endpoints and any arrivals in between.
THEOREM NothingLeftBehindHolds == Spec => []NothingLeftBehind
<1> DEFINE Inv == NothingLeftBehind /\ InboxesListed
<1>1. ASSUME Init PROVE Inv
  BY <1>1 DEF Init, ManagerInit, NothingLeftBehind, InboxesListed
<1>2. ASSUME TypeOK, Inv, [Next]_vars PROVE Inv'
  <2>1. ASSUME NEW t \in now .. MaxTime, Begin(t) PROVE Inv'
    BY <1>2, <2>1 DEF Begin, BeginPoll, NothingLeftBehind, InboxesListed
  <2>2. CASE Drain
    <3> DEFINE d == Head(rx)
    <3>1. d \in Datagram
      BY <1>2, <2>2, HeadTailType DEF Drain, Route, TypeOK
    <3>2. d.from \in Endpoints
      BY <3>1 DEF Datagram
    <3>3. Range(order') = Range(order) \union {d.from}
      BY <1>2, <2>2, <3>2, HeardIsListed DEF Drain, Route, TypeOK
    <3>4. inbox' = [inbox EXCEPT ![d.from] = Append(inbox[d.from], d)]
      BY <2>2 DEF Drain, Route
    <3>5. inbox \in [Endpoints -> Seq(Datagram)]
      BY <1>2 DEF TypeOK
    <3>6. pc = "drain" /\ pc' = "drain"
      BY <2>2 DEF Drain, loopVars
    <3> HIDE DEF d
    <3> QED
      BY <1>2, <3>2, <3>3, <3>4, <3>5, <3>6 DEF NothingLeftBehind, InboxesListed
  <2>3. CASE Drained
    <3>1. inbox' = [e \in Endpoints |-> IF e \in Range(order) THEN <<>> ELSE inbox[e]]
      BY <2>3 DEF Drained, PollPeers
    <3>2. pc = "drain" /\ pc' = "ingest"
      BY <2>3 DEF Drained
    <3> QED
      BY <1>2, <3>1, <3>2 DEF NothingLeftBehind, InboxesListed
  <2>4. CASE UNCHANGED managerVars /\ pc # "drain" /\ pc' # "drain"
    BY <1>2, <2>4 DEF managerVars, NothingLeftBehind, InboxesListed
  <2>5. CASE UNCHANGED managerVars /\ UNCHANGED pc
    BY <1>2, <2>5 DEF managerVars, NothingLeftBehind, InboxesListed
  <2>6. \/ Drain \/ Drained \/ \E t \in now .. MaxTime : Begin(t)
        \/ UNCHANGED managerVars /\ pc # "drain" /\ pc' # "drain"
        \/ UNCHANGED managerVars /\ UNCHANGED pc
    BY <1>2 DEF Next, ServerStep, DatagramArrives, Arrive, Ingest, StepAndBroadcast,
                UpdatePeer, EndIteration, SendFails, vars, loopVars
  <2> QED
    BY <2>1, <2>2, <2>3, <2>4, <2>5, <2>6
<1>3. Inv => NothingLeftBehind
  OBVIOUS
<1> QED
  BY <1>1, <1>2, <1>3, TypeCorrect, PTL DEF Spec

----------------------------------------------------------------------------
(* Clients and players *)

\* The players the map knows are different, and older than the next one.
PlayersDiffer ==
    /\ next_id >= 1
    /\ \A e \in DOMAIN clients : clients[e] >= 1 /\ clients[e] < next_id
    /\ \A e, f \in DOMAIN clients : clients[e] = clients[f] => e = f

\* No endpoint is twice on the list.
ListedOnce == \A i, j \in DOMAIN order : order[i] = order[j] => i = j

\* What the server's map lacks: the endpoints that are new in this poll, and
\* after it those that incoming still announces as new.
NewcomersAnnounced ==
    /\ DOMAIN clients \subseteq conns
    /\ pc \in {"top", "update"} => conns \subseteq DOMAIN clients
    /\ pc = "drain" =>
         /\ ListedOnce
         /\ Range(order) \subseteq conns
         /\ fresh \subseteq Range(order)
         /\ \A e \in conns : e \in fresh <=> e \notin DOMAIN clients
    /\ pc = "ingest" =>
         /\ \A i \in DOMAIN incoming :
               /\ incoming[i].from \in conns
               /\ incoming[i].is_new <=> incoming[i].from \notin DOMAIN clients
         /\ \A i, j \in DOMAIN incoming : incoming[i].from = incoming[j].from => i = j
         /\ \A e \in conns \ DOMAIN clients :
               \E i \in DOMAIN incoming : incoming[i].from = e

LEMMA DrainAnnounces ==
    ASSUME TypeOK, NewcomersAnnounced, Drain
    PROVE  NewcomersAnnounced'
<1> DEFINE d == Head(rx)
<1>1. d \in Datagram
  BY HeadTailType DEF Drain, Route, TypeOK
<1>2. d.from \in Endpoints /\ order \in Seq(Endpoints)
  BY <1>1 DEF Datagram, TypeOK
<1>3. /\ conns' = conns \union {d.from} /\ fresh' = FreshWith(d.from)
      /\ order' = Heard(d.from)
      /\ clients' = clients /\ pc = "drain" /\ pc' = "drain"
  BY DEF Drain, Route, loopVars, clientVars
<1>4. Range(order') = Range(order) \union {d.from}
  BY <1>2, <1>3, HeardIsListed
<1>5. ListedOnce'
  <2>1. CASE d.from \in Range(order)
    BY <1>3, <2>1 DEF Heard, ListedOnce, NewcomersAnnounced
  <2>2. CASE d.from \notin Range(order)
    <3>1. order' = Append(order, d.from)
      BY <1>3, <2>2 DEF Heard
    <3>2. /\ DOMAIN order = 1 .. Len(order) /\ Len(order) \in Nat
          /\ DOMAIN order' = 1 .. Len(order) + 1
          /\ \A i \in 1 .. Len(order) : order'[i] = order[i]
          /\ order'[Len(order) + 1] = d.from
      BY <1>2, <3>1
    <3>3. \A i \in DOMAIN order : order[i] # d.from
      BY <2>2 DEF Range
    <3>4. ListedOnce
      BY <1>3 DEF NewcomersAnnounced
    <3> HIDE DEF d
    <3> QED
      BY <3>2, <3>3, <3>4 DEF ListedOnce
  <2> QED
    BY <2>1, <2>2
<1> HIDE DEF d
<1>6. \A e \in conns' : e \in fresh' <=> e \notin DOMAIN clients'
  <2>1. d.from \in conns => fresh' = fresh
    BY <1>3 DEF FreshWith
  <2>2. d.from \notin conns => fresh' = fresh \union {d.from} /\ d.from \notin DOMAIN clients
    BY <1>3 DEF FreshWith, NewcomersAnnounced
  <2> QED
    BY <1>3, <2>1, <2>2 DEF NewcomersAnnounced
<1>7. Range(order') \subseteq conns' /\ fresh' \subseteq Range(order')
      /\ DOMAIN clients' \subseteq conns'
  BY <1>3, <1>4 DEF NewcomersAnnounced, FreshWith
<1> QED
  BY <1>3, <1>5, <1>6, <1>7 DEF NewcomersAnnounced

LEMMA PollAnnounces ==
    ASSUME TypeOK, NewcomersAnnounced, Drained
    PROVE  NewcomersAnnounced'
<1>1. /\ clients' = clients /\ conns' = conns /\ pc = "drain" /\ pc' = "ingest"
      /\ incoming' = [i \in DOMAIN order |->
                        [from |-> order[i], is_new |-> order[i] \in fresh]]
  BY DEF Drained, PollPeers, clientVars, Incoming
<1>2. DOMAIN incoming' = DOMAIN order
  BY <1>1
<1>3. ASSUME NEW i \in DOMAIN order
      PROVE  /\ incoming'[i].from = order[i]
             /\ incoming'[i].is_new <=> order[i] \in fresh
  <2>1. incoming'[i] = [from |-> order[i], is_new |-> order[i] \in fresh]
    BY <1>1
  <2>2. incoming'[i].from = order[i]
    BY <2>1
  <2>3. incoming'[i].is_new <=> order[i] \in fresh
    <3>1. (order[i] \in fresh) \in BOOLEAN
      OBVIOUS
    <3> DEFINE new == order[i] \in fresh
    <3>2. incoming'[i] = [from |-> order[i], is_new |-> new] /\ new \in BOOLEAN
      BY <2>1, <3>1
    <3> HIDE DEF new
    <3>3. incoming'[i].is_new = new
      BY <3>2
    <3> QED
      BY <3>3 DEF new
  <2> QED
    BY <2>2, <2>3
<1>4. /\ ListedOnce /\ Range(order) \subseteq conns /\ fresh \subseteq Range(order)
      /\ \A e \in conns : e \in fresh <=> e \notin DOMAIN clients
      /\ DOMAIN clients \subseteq conns
  BY <1>1 DEF NewcomersAnnounced
<1>5. \A i \in DOMAIN order : order[i] \in conns
  BY <1>4 DEF Range
<1>6. \A e \in conns \ DOMAIN clients : \E i \in DOMAIN order : order[i] = e
  BY <1>4 DEF Range
<1>7. \A i \in DOMAIN incoming' :
         /\ incoming'[i].from \in conns
         /\ incoming'[i].is_new <=> incoming'[i].from \notin DOMAIN clients
  BY <1>2, <1>3, <1>4, <1>5
<1>8. \A i, j \in DOMAIN incoming' : incoming'[i].from = incoming'[j].from => i = j
  BY <1>2, <1>3, <1>4 DEF ListedOnce
<1>9. \A e \in conns \ DOMAIN clients : \E i \in DOMAIN incoming' : incoming'[i].from = e
  BY <1>2, <1>3, <1>6
<1> QED
  BY <1>1, <1>4, <1>7, <1>8, <1>9 DEF NewcomersAnnounced

\* An endpoint announced as new is not in the map, and gets the next player;
\* one that is not new is in the map already.
LEMMA IngestGivesPlayer ==
    ASSUME TypeOK, PlayersDiffer, NewcomersAnnounced, Ingest
    PROVE  PlayersDiffer' /\ NewcomersAnnounced'
<1> DEFINE in == Head(incoming)
           f == in.from
<1>1. /\ incoming \in Seq([from : Endpoints, is_new : BOOLEAN]) /\ incoming # <<>>
      /\ incoming' = Tail(incoming) /\ pc = "ingest" /\ pc' = "ingest"
      /\ conns' = conns
  BY DEF TypeOK, Ingest, managerVars
<1>2. /\ Len(incoming) \in Nat /\ Len(incoming) >= 1
      /\ DOMAIN incoming = 1 .. Len(incoming) /\ DOMAIN incoming' = 1 .. Len(incoming) - 1
      /\ \A i \in DOMAIN incoming' : i + 1 \in DOMAIN incoming /\ incoming'[i] = incoming[i + 1]
      /\ in = incoming[1] /\ 1 \in DOMAIN incoming
      /\ in \in [from : Endpoints, is_new : BOOLEAN]
  <2>1. ASSUME NEW S, NEW q \in Seq(S), q # <<>>
        PROVE  /\ Len(q) \in Nat /\ Len(q) >= 1
               /\ DOMAIN q = 1 .. Len(q) /\ DOMAIN Tail(q) = 1 .. Len(q) - 1
               /\ \A i \in DOMAIN Tail(q) : i + 1 \in DOMAIN q /\ Tail(q)[i] = q[i + 1]
               /\ Head(q) = q[1] /\ 1 \in DOMAIN q /\ Head(q) \in S
    BY <2>1
  <2> QED
    BY <1>1, <2>1, Zenon
<1>3. /\ \A i \in DOMAIN incoming :
            /\ incoming[i].from \in conns
            /\ incoming[i].is_new <=> incoming[i].from \notin DOMAIN clients
      /\ \A i, j \in DOMAIN incoming : incoming[i].from = incoming[j].from => i = j
      /\ \A e \in conns \ DOMAIN clients : \E i \in DOMAIN incoming : incoming[i].from = e
  BY <1>1, Zenon DEF NewcomersAnnounced
<1>4. /\ f \in Endpoints /\ f \in conns /\ (in.is_new <=> f \notin DOMAIN clients)
  BY <1>2, <1>3
<1>5. /\ DOMAIN WithKeys({f}) = {f} \union DOMAIN clients
      /\ \A e \in DOMAIN clients : WithKeys({f})[e] = clients[e]
  BY <1>4, WithKeysType
<1>6. IF in.is_new THEN clients' = [WithKeys({f}) EXCEPT ![f] = next_id] /\ next_id' = next_id + 1
                   ELSE clients' = WithKeys({f}) /\ next_id' = next_id
  BY DEF Ingest
<1>7. DOMAIN clients' = {f} \union DOMAIN clients
  BY <1>5, <1>6
<1>8. PlayersDiffer'
  <2>1. next_id \in Nat /\ \A e \in DOMAIN clients : clients[e] \in Nat
    BY DEF TypeOK
  <2>2. CASE in.is_new
    <3>1. /\ clients'[f] = next_id /\ next_id' = next_id + 1
          /\ \A e \in DOMAIN clients : clients'[e] = clients[e]
      BY <1>4, <1>5, <1>6, <2>2
    <3> HIDE DEF f
    <3> QED
      BY <1>7, <2>1, <3>1 DEF PlayersDiffer
  <2>3. CASE ~in.is_new
    <3>1. /\ next_id' = next_id /\ DOMAIN clients' = DOMAIN clients
          /\ \A e \in DOMAIN clients : clients'[e] = clients[e]
      BY <1>4, <1>5, <1>6, <1>7, <2>3
    <3> QED
      BY <2>1, <3>1 DEF PlayersDiffer
  <2> QED
    BY <2>2, <2>3
<1> HIDE DEF in, f
<1>9. \A i \in DOMAIN incoming' :
         /\ incoming'[i].from \in conns /\ incoming'[i].from # in.from
         /\ incoming'[i].is_new <=> incoming'[i].from \notin DOMAIN clients
  BY <1>2, <1>3
<1>10. \A i \in DOMAIN incoming' :
         incoming'[i].is_new <=> incoming'[i].from \notin DOMAIN clients'
  BY <1>7, <1>9 DEF f
<1>11. \A i, j \in DOMAIN incoming' : incoming'[i].from = incoming'[j].from => i = j
  BY <1>2, <1>3
<1>12. \A e \in conns \ DOMAIN clients' : \E i \in DOMAIN incoming' : incoming'[i].from = e
  <2> SUFFICES ASSUME NEW e \in conns \ DOMAIN clients'
               PROVE  \E i \in DOMAIN incoming' : incoming'[i].from = e
    OBVIOUS
  <2>1. PICK i \in DOMAIN incoming : incoming[i].from = e
    BY <1>3, <1>7
  <2>2. i # 1
    BY <1>2, <1>7, <2>1 DEF f
  <2>3. i - 1 \in DOMAIN incoming' /\ incoming'[i - 1] = incoming[i]
    BY <1>2, <2>2
  <2> QED
    BY <2>1, <2>3
<1>13. DOMAIN clients' \subseteq conns
  BY <1>4, <1>7 DEF NewcomersAnnounced
<1>14. NewcomersAnnounced'
  BY <1>1, <1>9, <1>10, <1>11, <1>12, <1>13 DEF NewcomersAnnounced
<1> QED
  BY <1>8, <1>14

\* When the loop broadcasts every client has a player of its own, whatever the
\* order in which known and new endpoints were heard.
THEOREM OnePlayerPerClientHolds == Spec => []OnePlayerPerClient
<1> DEFINE Inv == PlayersDiffer /\ NewcomersAnnounced
<1>1. ASSUME Init PROVE Inv
  BY <1>1 DEF Init, ManagerInit, PlayersDiffer, NewcomersAnnounced
<1>2. ASSUME TypeOK, Inv, [Next]_vars PROVE Inv'
  <2>1. ASSUME NEW t \in now .. MaxTime, Begin(t) PROVE Inv'
    <3>1. PlayersDiffer'
      BY <1>2, <2>1 DEF Begin, PlayersDiffer, clientVars
    <3>2. /\ pc = "top" /\ pc' = "drain" /\ order' = <<>> /\ fresh' = {}
          /\ conns' = conns /\ clients' = clients
      BY <2>1 DEF Begin, BeginPoll, clientVars
    <3>3. ListedOnce' /\ Range(order') = {}
      BY <3>2 DEF ListedOnce, Range
    <3> QED
      BY <1>2, <3>1, <3>2, <3>3 DEF NewcomersAnnounced
  <2>2. CASE Drain
    BY <1>2, <2>2, DrainAnnounces DEF Drain, loopVars, clientVars, PlayersDiffer
  <2>3. CASE Drained
    BY <1>2, <2>3, PollAnnounces DEF Drained, clientVars, PlayersDiffer
  <2>4. CASE Ingest
    BY <1>2, <2>4, IngestGivesPlayer
  <2>5. CASE StepAndBroadcast
    <3>1. /\ pc = "ingest" /\ pc' = "update" /\ incoming = <<>> /\ conns' = conns
          /\ next_id' = next_id
      BY <2>5 DEF StepAndBroadcast, managerVars
    <3>2. DOMAIN clients = conns
      <4>1. DOMAIN incoming = {}
        BY <3>1
      <4>2. /\ DOMAIN clients \subseteq conns
            /\ \A e \in conns \ DOMAIN clients : \E i \in DOMAIN incoming : incoming[i].from = e
        BY <1>2, <3>1, Zenon DEF NewcomersAnnounced
      <4> QED
        BY <4>1, <4>2
    <3>3. /\ DOMAIN WithKeys(conns) = conns \union DOMAIN clients
          /\ \A e \in DOMAIN clients : WithKeys(conns)[e] = clients[e]
      BY <1>2, WithKeysType DEF TypeOK
    <3>4. clients' = WithKeys(conns) \/ clients' = clients
      BY <2>5 DEF StepAndBroadcast
    <3>5. DOMAIN clients' = conns /\ \A e \in DOMAIN clients : clients'[e] = clients[e]
      BY <3>2, <3>3, <3>4
    <3> QED
      BY <1>2, <3>1, <3>2, <3>5 DEF PlayersDiffer, NewcomersAnnounced
  <2>6. CASE UNCHANGED <<clientVars, managerVars, incoming, pc>>
    BY <1>2, <2>6 DEF clientVars, managerVars, PlayersDiffer, NewcomersAnnounced, ListedOnce
  <2>7. CASE /\ UNCHANGED <<clientVars, managerVars, incoming>>
             /\ pc = "update" /\ pc' \in {"top", "dead"}
    BY <1>2, <2>7 DEF clientVars, managerVars, PlayersDiffer, NewcomersAnnounced, ListedOnce
  <2>8. \/ Drain \/ Drained \/ Ingest \/ StepAndBroadcast
        \/ \E t \in now .. MaxTime : Begin(t)
        \/ UNCHANGED <<clientVars, managerVars, incoming, pc>>
        \/ /\ UNCHANGED <<clientVars, managerVars, incoming>>
           /\ pc = "update" /\ pc' \in {"top", "dead"}
    BY <1>2 DEF Next, ServerStep, DatagramArrives, Arrive, UpdatePeer, EndIteration,
                SendFails, vars, loopVars
  <2> QED
    BY <2>1, <2>2, <2>3, <2>4, <2>5, <2>6, <2>7, <2>8
<1>3. ASSUME TypeOK, Inv PROVE OnePlayerPerClient
  <2> SUFFICES ASSUME pc = "update"
               PROVE  /\ DOMAIN clients = conns /\ NoEntity \notin Range(clients)
                      /\ IsInjective(clients)
    BY DEF OnePlayerPerClient
  <2>1. DOMAIN clients = conns
    BY <1>3 DEF NewcomersAnnounced
  <2>2. NoEntity \notin Range(clients)
    BY <1>3 DEF PlayersDiffer, Range, NoEntity
  <2>3. IsInjective(clients)
    BY <1>3 DEF PlayersDiffer, IsInjective
  <2> QED
    BY <2>1, <2>2, <2>3
<1> QED
  BY <1>1, <1>2, <1>3, TypeCorrect, PTL DEF Spec

----------------------------------------------------------------------------
(* Pacing *)

\* What waits for a peer's flush is no more than the steps since its last one,
\* and no peer the loop has been to is left due.
Paced ==
    /\ \A e \in flushed :
          pending[e] * Dt + accumulator <= (last - last_flush[e]) + (Dt - 1)
    /\ pc = "update" => now = last
    /\ pc \in {"update", "top"} =>
          \A e \in conns : \/ pc = "update" /\ e \in todo
                           \/ e \in flushed /\ last - last_flush[e] < interval[e]

LEMMA WholeSteps ==
    ASSUME NEW k \in Nat, NEW b \in Nat, k * Dt <= b
    PROVE  k <= b \div Dt
<1> DEFINE q == b \div Dt
<1>1. q \in Nat /\ b < q * Dt + Dt
  BY Division, StepAssumption
<1> HIDE DEF q
<1>2. CASE k >= q + 1
  <2>1. (q + 1) * Dt <= k * Dt /\ (q + 1) * Dt = q * Dt + Dt
    BY <1>1, <1>2, StepsOrdered, StepAssumption
  <2>2. k * Dt \in Nat /\ q * Dt \in Nat
    BY <1>1, StepAssumption
  <2> QED
    BY <1>1, <2>1, <2>2, StepAssumption
<1>3. CASE k <= q
  BY <1>3 DEF q
<1> QED
  BY <1>1, <1>2, <1>3

LEMMA PacedKeepsSmall ==
    ASSUME TypeOK, Paced
    PROVE  PacketsStaySmall
<1> SUFFICES ASSUME pc = "top", NEW e \in conns
             PROVE  pending[e] <= (interval[e] + Dt - 2) \div Dt
  BY DEF PacketsStaySmall
<1>1. e \in flushed /\ last - last_flush[e] < interval[e]
  BY DEF Paced
<1>2. pending[e] * Dt + accumulator <= (last - last_flush[e]) + (Dt - 1)
  BY <1>1 DEF Paced
<1>3. /\ pending[e] \in Nat /\ last_flush[e] \in Nat /\ interval[e] \in Nat \ {0}
      /\ accumulator \in Nat /\ last \in Nat
  <2>1. e \in Endpoints /\ Intervals \subseteq Nat \ {0}
    BY LoopAssumption DEF TypeOK, Intervals
  <2> QED
    BY <2>1, StepAssumption DEF TypeOK
<1>4. pending[e] * Dt \in Nat
  BY <1>3, Distributes
<1>5. interval[e] + Dt - 2 \in Nat /\ pending[e] * Dt <= interval[e] + Dt - 2
  BY <1>1, <1>2, <1>3, <1>4, StepAssumption
<1> QED
  BY <1>3, <1>5, WholeSteps

\* A step of the simulation adds a snapshot, and at least one step's time.
LEMMA StepKeepsPace ==
    ASSUME TypeOK, Paced, StepAndBroadcast
    PROVE  Paced'
<1> DEFINE banked == accumulator + (now - last)
           s == StepsDue(banked)
           r == Remainder(banked)
<1>1. /\ banked \in Nat /\ accumulator \in 0 .. Dt - 1
      /\ now \in Nat /\ last \in 0 .. now
  BY DEF TypeOK
<1>2. /\ s \in 0 .. MaxSteps /\ r \in 0 .. Dt - 1
      /\ \E c \in Nat : banked = s * Dt + c * Dt + r
  BY <1>1, Advanced
<1>3. PICK c \in Nat : banked = s * Dt + c * Dt + r
  BY <1>2
<1>4. /\ accumulator' = r /\ last' = now /\ pc' = "update" /\ todo' = conns
      /\ conns' = conns /\ now' = now /\ flushed' = flushed
      /\ last_flush' = last_flush /\ interval' = interval
  BY DEF StepAndBroadcast, managerVars
<1>5. ASSUME NEW e \in flushed
      PROVE  pending'[e] * Dt + accumulator' <= (last' - last_flush'[e]) + (Dt - 1)
  <2>1. e \in Endpoints /\ pending[e] \in Nat /\ last_flush[e] \in Nat
    BY DEF TypeOK
  <2>2. pending'[e] = pending[e] \/ (s > 0 /\ pending'[e] = pending[e] + 1)
    BY <2>1 DEF StepAndBroadcast
  <2>3. pending[e] * Dt + accumulator <= (last - last_flush[e]) + (Dt - 1)
    BY DEF Paced
  <2>4. /\ pending[e] * Dt \in Nat /\ (pending[e] + 1) * Dt = pending[e] * Dt + Dt
        /\ s * Dt \in Nat /\ c * Dt \in Nat /\ (s > 0 => s * Dt >= Dt)
    <3>1. /\ pending[e] * Dt \in Nat /\ (pending[e] + 1) * Dt = pending[e] * Dt + 1 * Dt
          /\ s * Dt \in Nat /\ c * Dt \in Nat /\ 1 * Dt = Dt
      <4> DEFINE p == pending[e]
      <4>1. p \in Nat /\ s \in Nat /\ 1 \in Nat
        BY <1>2, <2>1, StepAssumption
      <4>2. 1 * Dt = Dt
        BY StepAssumption
      <4> HIDE DEF p, s
      <4>3. p * Dt \in Nat /\ (p + 1) * Dt = p * Dt + 1 * Dt /\ s * Dt \in Nat /\ c * Dt \in Nat
        BY <4>1, Distributes
      <4> QED
        BY <4>2, <4>3 DEF p
    <3>2. s > 0 => 1 * Dt <= s * Dt
      BY <1>2, StepsOrdered, StepAssumption
    <3> QED
      BY <3>1, <3>2
  <2> DEFINE p == pending[e] * Dt
             sd == s * Dt
             cd == c * Dt
  <2>5. /\ p \in Nat /\ sd \in Nat /\ cd \in Nat /\ (s > 0 => sd >= Dt)
        /\ accumulator + (now - last) = sd + cd + r
        /\ p + accumulator <= (last - last_flush[e]) + (Dt - 1)
        /\ \/ pending'[e] * Dt = p
           \/ s > 0 /\ pending'[e] * Dt = p + Dt
    BY <1>3, <2>2, <2>3, <2>4
  <2> HIDE DEF p, sd, cd, s, r, banked
  <2>6. pending'[e] * Dt + r <= (now - last_flush[e]) + (Dt - 1)
    BY <1>1, <1>2, <2>1, <2>5, StepAssumption
  <2> QED
    BY <1>4, <2>6
<1> HIDE DEF s, r, banked
<1> QED
  BY <1>4, <1>5 DEF Paced

LEMMA FlushKeepsPace ==
    ASSUME TypeOK, Paced, NEW e \in Endpoints, UpdatePeer(e)
    PROVE  Paced'
<1>1. /\ pc = "update" /\ pc' = pc /\ now = last /\ now' = now /\ last' = last
      /\ accumulator' = accumulator /\ conns' = conns /\ todo' = todo \ {e}
  BY DEF UpdatePeer, Paced, managerVars, timeVars
<1>2. /\ now \in Nat /\ accumulator \in 0 .. Dt - 1 /\ pending \in [Endpoints -> Nat]
      /\ last_flush \in [Endpoints -> Nat] /\ interval \in [Endpoints -> Intervals]
      /\ flushed \subseteq Endpoints /\ conns \subseteq Endpoints
  BY <1>1 DEF TypeOK
<1>3. CASE Due(e)
  <2>1. /\ pending' = [pending EXCEPT ![e] = 0] /\ flushed' = flushed \union {e}
        /\ last_flush' = [last_flush EXCEPT ![e] = now]
        /\ \E i \in Intervals : interval' = [interval EXCEPT ![e] = i]
    BY <1>3 DEF UpdatePeer
  <2>2. PICK i \in Intervals : interval' = [interval EXCEPT ![e] = i]
    BY <2>1
  <2>3. i \in Nat /\ i > 0
    BY LoopAssumption DEF Intervals
  <2>4. 0 * Dt = 0
    BY StepAssumption
  <2>5. /\ pending'[e] = 0 /\ last_flush'[e] = now /\ interval'[e] = i
        /\ \A x \in Endpoints \ {e} : /\ pending'[x] = pending[x]
                                      /\ last_flush'[x] = last_flush[x]
                                      /\ interval'[x] = interval[x]
    BY <1>2, <2>1, <2>2
  <2>6. \A x \in flushed' :
           pending'[x] * Dt + accumulator' <= (last' - last_flush'[x]) + (Dt - 1)
    <3> SUFFICES ASSUME NEW x \in flushed'
                 PROVE  pending'[x] * Dt + accumulator' <= (last' - last_flush'[x]) + (Dt - 1)
      OBVIOUS
    <3>1. CASE x = e
      BY <1>1, <1>2, <2>4, <2>5, <3>1, StepAssumption
    <3>2. CASE x # e
      BY <1>1, <1>2, <2>1, <2>5, <3>2 DEF Paced
    <3> QED
      BY <3>1, <3>2
  <2>7. \A x \in conns : \/ x \in todo'
                         \/ x \in flushed' /\ last - last_flush'[x] < interval'[x]
    <3> SUFFICES ASSUME NEW x \in conns, x \notin todo'
                 PROVE  x \in flushed' /\ last - last_flush'[x] < interval'[x]
      OBVIOUS
    <3>1. CASE x = e
      BY <1>1, <1>2, <2>1, <2>3, <2>5, <3>1
    <3>2. CASE x # e
      BY <1>1, <1>2, <2>1, <2>5, <3>2 DEF Paced
    <3> QED
      BY <3>1, <3>2
  <2> QED
    BY <1>1, <2>6, <2>7 DEF Paced
<1>4. CASE ~Due(e)
  <2>1. UNCHANGED peerVars
    BY <1>4 DEF UpdatePeer
  <2>2. e \in flushed /\ now - last_flush[e] < interval[e]
    BY <1>2, <1>4, LoopAssumption DEF Due, Intervals
  <2> QED
    BY <1>1, <2>1, <2>2 DEF Paced, peerVars
<1> QED
  BY <1>3, <1>4

\* A packet carries no more snapshots than the steps that fit in an interval,
\* however slow the iterations are and whatever mode the governor picks.
THEOREM PacketsStaySmallHolds == Spec => []PacketsStaySmall
<1>1. ASSUME Init PROVE Paced
  BY <1>1 DEF Init, ManagerInit, Paced
<1>2. ASSUME TypeOK, Paced, [Next]_vars PROVE Paced'
  <2>1. CASE StepAndBroadcast
    BY <1>2, <2>1, StepKeepsPace
  <2>2. ASSUME NEW e \in Endpoints, UpdatePeer(e) PROVE Paced'
    BY <1>2, <2>2, FlushKeepsPace
  <2>3. CASE EndIteration
    BY <1>2, <2>3 DEF EndIteration, Paced, managerVars, timeVars, peerVars
  <2>4. CASE /\ UNCHANGED <<timeVars, peerVars>>
             /\ pc' \in {"drain", "ingest", "dead"}
    BY <1>2, <2>4 DEF Paced, timeVars, peerVars
  <2>5. CASE UNCHANGED <<timeVars, peerVars, conns, todo, now, pc>>
    BY <1>2, <2>5 DEF Paced, timeVars, peerVars
  <2>6. \/ StepAndBroadcast \/ EndIteration
        \/ \E e \in Endpoints : UpdatePeer(e)
        \/ /\ UNCHANGED <<timeVars, peerVars>>
           /\ pc' \in {"drain", "ingest", "dead"}
        \/ UNCHANGED <<timeVars, peerVars, conns, todo, now, pc>>
    BY <1>2 DEF Next, ServerStep, DatagramArrives, Arrive, Begin, Drain, Drained, Ingest,
                SendFails, vars, loopVars, managerVars
  <2> QED
    BY <2>1, <2>2, <2>3, <2>4, <2>5, <2>6
<1> QED
  BY <1>1, <1>2, TypeCorrect, PacedKeepsSmall, PTL DEF Spec

----------------------------------------------------------------------------
(* The way of a datagram *)

\* The datagram at the head of the socket's queue is the next its sender's
\* inbox is due.
LEMMA RouteKeepsOrder ==
    ASSUME TypeOK, EveryDatagramReachesItsPeer, Route, NEW e \in Endpoints
    PROVE  LET routed  == Len(inbox'[e])
               waiting == { i \in DOMAIN rx' : rx'[i].from = e }
           IN  /\ \A i \in DOMAIN inbox'[e] :
                      inbox'[e][i] = [from |-> e, n |-> i]
               /\ routed <= untaken'[e]
               /\ { rx'[i].n : i \in waiting } = routed + 1 .. untaken'[e]
               /\ \A i, j \in waiting : i < j => rx'[i].n < rx'[j].n
<1> DEFINE d == Head(rx)
           box == inbox[e]   a == untaken[e]   r == Len(box)
           waiting == { i \in DOMAIN rx : rx[i].from = e }
           left == { i \in DOMAIN rx' : rx'[i].from = e }
<1>1. /\ rx # <<>> /\ rx' = Tail(rx) /\ untaken' = untaken
      /\ inbox' = [inbox EXCEPT ![d.from] = Append(inbox[d.from], d)]
  BY DEF Route
<1>2. /\ rx \in Seq(Datagram) /\ box \in Seq(Datagram) /\ a \in Int
      /\ inbox \in [Endpoints -> Seq(Datagram)]
  BY DEF TypeOK
<1>3. /\ Len(rx) \in Nat \ {0} /\ DOMAIN rx = 1 .. Len(rx) /\ d = rx[1]
      /\ DOMAIN rx' = 1 .. Len(rx) - 1 /\ \A i \in DOMAIN rx' : rx'[i] = rx[i + 1]
      /\ \A i \in DOMAIN rx : rx[i] \in Datagram
  BY <1>1, <1>2
<1>4. /\ \A i \in DOMAIN box : box[i] = [from |-> e, n |-> i]
      /\ r <= a
      /\ { rx[i].n : i \in waiting } = r + 1 .. a
      /\ \A i, j \in waiting : i < j => rx[i].n < rx[j].n
  BY DEF EveryDatagramReachesItsPeer
<1>5. /\ \A i \in left : i + 1 \in waiting /\ rx'[i] = rx[i + 1]
      /\ \A i \in waiting : i # 1 => i - 1 \in left /\ rx[i] = rx'[i - 1]
  BY <1>3
<1>6. ASSUME NEW i \in left, NEW j \in left, i < j PROVE rx'[i].n < rx'[j].n
  <2>1. i + 1 \in waiting /\ j + 1 \in waiting /\ i + 1 < j + 1
    BY <1>3, <1>5, <1>6
  <2>2. rx[i + 1].n < rx[j + 1].n
    BY <1>4, <2>1
  <2> QED
    BY <1>5, <2>2
<1>7. /\ r \in Nat /\ DOMAIN box = 1 .. Len(box) /\ Len(box) \in Nat
      /\ \A i \in waiting : rx[i].n \in Int
  BY <1>2, <1>3 DEF Datagram
<1>8. CASE d.from = e
  <2>1. 1 \in waiting
    BY <1>3, <1>8
  <2>2. d.n \in r + 1 .. a
    BY <1>3, <1>4, <2>1
  <2>3. d.n = r + 1
    <3>0. r + 1 \in { rx[i].n : i \in waiting }
      <4>1. r + 1 \in r + 1 .. a
        <5> HIDE DEF r, a
        <5> QED
          BY <1>2, <1>7, <2>2
      <4> QED
        BY <1>4, <4>1
    <3>1. PICK i \in waiting : rx[i].n = r + 1
      BY <3>0
    <3>2. i # 1 => d.n < r + 1
      BY <1>3, <1>4, <2>1, <3>1
    <3> QED
      BY <1>3, <1>7, <2>2, <3>1, <3>2
  <2>4. d = [from |-> e, n |-> r + 1]
    BY <1>3, <1>8, <2>3 DEF Datagram
  <2>5. inbox'[e] = Append(box, d)
    BY <1>1, <1>2, <1>8
  <2>6. /\ Len(inbox'[e]) = Len(box) + 1 /\ DOMAIN inbox'[e] = 1 .. Len(box) + 1
        /\ \A i \in DOMAIN inbox'[e] :
              inbox'[e][i] = IF i = Len(box) + 1 THEN d ELSE box[i]
    BY <1>2, <1>3, <1>7, <2>5
  <2>7. \A i \in DOMAIN inbox'[e] : inbox'[e][i] = [from |-> e, n |-> i]
    <3> SUFFICES ASSUME NEW i \in DOMAIN inbox'[e]
                 PROVE  inbox'[e][i] = [from |-> e, n |-> i]
      OBVIOUS
    <3>1. CASE i = Len(box) + 1
      BY <2>4, <2>6, <3>1
    <3>2. CASE i # Len(box) + 1
      BY <1>4, <1>7, <2>6, <3>2
    <3> QED
      BY <3>1, <3>2
  <2>8. { rx'[i].n : i \in left } = (r + 1) + 1 .. a
    <3>1. ASSUME NEW i \in left PROVE rx'[i].n \in (r + 1) + 1 .. a
      <4>1. i + 1 \in waiting /\ rx'[i] = rx[i + 1] /\ 1 < i + 1
        BY <1>3, <1>5
      <4>2. rx[i + 1].n \in r + 1 .. a /\ r + 1 < rx[i + 1].n
        BY <1>3, <1>4, <2>1, <2>3, <4>1
      <4> QED
        BY <1>2, <1>7, <4>1, <4>2
    <3>2. ASSUME NEW k \in (r + 1) + 1 .. a PROVE \E i \in left : rx'[i].n = k
      <4>0. k \in { rx[i].n : i \in waiting }
        <5>1. k \in r + 1 .. a
          <6> HIDE DEF r, a
          <6> QED
            BY <1>2, <1>7
        <5> QED
          BY <1>4, <5>1
      <4>1. PICK i \in waiting : rx[i].n = k
        BY <4>0
      <4>2. i # 1
        BY <1>3, <1>7, <2>3, <4>1
      <4> QED
        BY <1>5, <4>1, <4>2
    <3> HIDE DEF left
    <3> QED
      BY <3>1, <3>2
  <2>9. (r + 1) <= a /\ Len(inbox'[e]) = r + 1
    BY <1>2, <1>7, <2>2, <2>3, <2>6
  <2> HIDE DEF left, r, a
  <2> QED
    BY <1>1, <1>6, <2>7, <2>8, <2>9 DEF left, a
<1>9. CASE d.from # e
  <2>1. inbox'[e] = box
    BY <1>1, <1>2, <1>9
  <2>2. 1 \notin waiting
    BY <1>3, <1>9
  <2>3. { rx'[i].n : i \in left } = { rx[i].n : i \in waiting }
    <3>1. ASSUME NEW i \in left PROVE rx'[i].n \in { rx[j].n : j \in waiting }
      BY <1>5
    <3>2. ASSUME NEW i \in waiting PROVE rx[i].n \in { rx'[j].n : j \in left }
      <4>1. i - 1 \in left /\ rx'[i - 1].n = rx[i].n
        BY <1>5, <2>2
      <4> QED
        BY <4>1
    <3> HIDE DEF left, waiting
    <3> QED
      BY <3>1, <3>2
  <2> QED
    BY <1>1, <1>4, <1>6, <2>1, <2>3
<1> QED
  BY <1>8, <1>9

LEMMA ArriveKeepsOrder ==
    ASSUME TypeOK, EveryDatagramReachesItsPeer, NEW f \in Endpoints, Arrive(f)
    PROVE  EveryDatagramReachesItsPeer'
<1> SUFFICES ASSUME NEW e \in Endpoints
             PROVE  LET routed  == Len(inbox[e])
                        waiting == { i \in DOMAIN rx' : rx'[i].from = e }
                    IN  /\ \A i \in DOMAIN inbox[e] :
                               inbox[e][i] = [from |-> e, n |-> i]
                        /\ routed <= untaken'[e]
                        /\ { rx'[i].n : i \in waiting } = routed + 1 .. untaken'[e]
                        /\ \A i, j \in waiting : i < j => rx'[i].n < rx'[j].n
  BY DEF Arrive, managerVars, EveryDatagramReachesItsPeer
<1> DEFINE d == [from |-> f, n |-> untaken[f] + 1]
           a == untaken[e]   r == Len(inbox[e])   last_place == Len(rx) + 1
           waiting == { i \in DOMAIN rx : rx[i].from = e }
           more == { i \in DOMAIN rx' : rx'[i].from = e }
<1>1. rx' = Append(rx, d) /\ untaken' = [untaken EXCEPT ![f] = untaken[f] + 1]
  BY DEF Arrive
<1>2. /\ rx \in Seq(Datagram) /\ untaken \in [Endpoints -> Int]
      /\ inbox[e] \in Seq(Datagram)
  BY DEF TypeOK
<1>3. /\ Len(rx) \in Nat /\ DOMAIN rx = 1 .. Len(rx) /\ DOMAIN rx' = 1 .. last_place
      /\ rx'[last_place] = d /\ \A i \in DOMAIN rx : rx'[i] = rx[i]
      /\ \A i \in DOMAIN rx : rx[i] \in Datagram
  BY <1>1, <1>2
<1>4. /\ \A i \in DOMAIN inbox[e] : inbox[e][i] = [from |-> e, n |-> i]
      /\ r <= a
      /\ { rx[i].n : i \in waiting } = r + 1 .. a
      /\ \A i, j \in waiting : i < j => rx[i].n < rx[j].n
  BY DEF EveryDatagramReachesItsPeer
<1>5. r \in Nat /\ a \in Int
  BY <1>2
<1>6. \A i \in waiting : i < last_place /\ i # last_place /\ rx'[i] = rx[i]
  BY <1>3
<1>7. CASE e = f
  <2>1. more = waiting \union {last_place} /\ rx'[last_place].n = a + 1
    BY <1>3, <1>7
  <2>2. untaken'[e] = a + 1
    BY <1>1, <1>2, <1>7
  <2> HIDE DEF a, r, more, waiting, last_place, d
  <2>3. { rx'[i].n : i \in more } = r + 1 .. a + 1
    <3>1. ASSUME NEW i \in more PROVE rx'[i].n \in r + 1 .. a + 1
      <4>1. CASE i \in waiting
        <5>1. rx'[i].n \in r + 1 .. a
          BY <1>4, <1>6, <4>1
        <5> QED
          BY <1>5, <5>1
      <4>2. CASE i = last_place
        BY <1>4, <1>5, <2>1, <4>2
      <4> QED
        BY <2>1, <4>1, <4>2
    <3>2. ASSUME NEW k \in r + 1 .. a + 1 PROVE \E i \in more : rx'[i].n = k
      <4>1. CASE k \in r + 1 .. a
        <5>1. PICK i \in waiting : rx[i].n = k
          BY <1>4, <4>1
        <5> QED
          BY <1>6, <2>1, <5>1
      <4>2. CASE k = a + 1
        BY <2>1, <4>2
      <4> QED
        BY <1>5, <4>1, <4>2
    <3> QED
      BY <3>1, <3>2
  <2>4. ASSUME NEW i \in more, NEW j \in more, i < j PROVE rx'[i].n < rx'[j].n
    <3>1. i \in waiting
      BY <1>3, <1>6, <2>1, <2>4 DEF waiting, last_place
    <3>2. CASE j \in waiting
      BY <1>4, <1>6, <2>4, <3>1, <3>2
    <3>3. CASE j = last_place
      <4>1. rx'[i].n \in r + 1 .. a
        BY <1>4, <1>6, <3>1
      <4> QED
        BY <1>5, <2>1, <3>3, <4>1
    <3> QED
      BY <2>1, <3>2, <3>3
  <2> QED
    BY <1>4, <1>5, <2>2, <2>3, <2>4 DEF more, r
<1>8. CASE e # f
  <2>1. more = waiting /\ untaken'[e] = a
    BY <1>1, <1>2, <1>3, <1>8
  <2> HIDE DEF a, r, more, waiting
  <2>2. { rx'[i].n : i \in more } = { rx[i].n : i \in waiting }
    BY <1>6, <2>1
  <2>3. \A i, j \in more : i < j => rx'[i].n < rx'[j].n
    BY <1>4, <1>6, <2>1
  <2> QED
    BY <1>4, <2>1, <2>2, <2>3 DEF more, r
<1> QED
  BY <1>7, <1>8

LEMMA PollPeersKeepsOrder ==
    ASSUME TypeOK, EveryDatagramReachesItsPeer, PollPeers
    PROVE  EveryDatagramReachesItsPeer'
<1> SUFFICES ASSUME NEW e \in Endpoints
             PROVE  /\ \A i \in DOMAIN inbox'[e] : inbox'[e][i] = [from |-> e, n |-> i]
                    /\ Len(inbox'[e]) = untaken'[e]
  <2>1. DOMAIN rx' = {} /\ TypeOK
    BY DEF PollPeers
  <2>2. \A e \in Endpoints : Len(inbox'[e]) \in Int
    BY DEF PollPeers, TypeOK
  <2> QED
    BY <2>1, <2>2 DEF EveryDatagramReachesItsPeer
<1>1. \/ inbox'[e] = inbox[e] /\ untaken'[e] = untaken[e]
      \/ inbox'[e] = <<>> /\ untaken'[e] = untaken[e] - Len(inbox[e])
  BY DEF PollPeers
<1> DEFINE r == Len(inbox[e])   a == untaken[e]
<1>2. /\ \A i \in DOMAIN inbox[e] : inbox[e][i] = [from |-> e, n |-> i]
      /\ r = a /\ r \in Nat
  <2>1. r \in Nat /\ a \in Int /\ DOMAIN rx = {}
    BY DEF TypeOK, PollPeers
  <2>2. r <= a /\ {} = r + 1 .. a
    BY <2>1 DEF EveryDatagramReachesItsPeer
  <2>3. ASSUME r < a PROVE FALSE
    <3> HIDE DEF r, a
    <3>1. a \in r + 1 .. a
      BY <2>1, <2>3
    <3> QED
      BY <2>2, <3>1
  <2> QED
    BY <2>1, <2>2, <2>3 DEF EveryDatagramReachesItsPeer
<1>3. Len(<<>>) = 0 /\ DOMAIN <<>> = {}
  OBVIOUS
<1> QED
  BY <1>1, <1>2, <1>3

\* Of what the socket accepted the drain loop and the inboxes lose, repeat,
\* reorder and misroute nothing (peer_manager.cpp poll), however many endpoints
\* there are and however long the queue is.
THEOREM EveryDatagramReachesItsPeerHolds == Spec => []EveryDatagramReachesItsPeer
<1>1. ASSUME Init PROVE EveryDatagramReachesItsPeer
  <2>1. /\ DOMAIN rx = {} /\ \A e \in Endpoints : untaken[e] = 0
        /\ \A e \in Endpoints : Len(inbox[e]) = 0 /\ DOMAIN inbox[e] = {}
    BY <1>1 DEF Init, ManagerInit
  <2> QED
    BY <2>1 DEF EveryDatagramReachesItsPeer
<1>2. ASSUME TypeOK, EveryDatagramReachesItsPeer, [Next]_vars
      PROVE  EveryDatagramReachesItsPeer'
  <2>1. CASE Route
    BY <1>2, <2>1, RouteKeepsOrder DEF EveryDatagramReachesItsPeer
  <2>2. CASE UNCHANGED <<kernelVars, inbox>>
    BY <1>2, <2>2 DEF EveryDatagramReachesItsPeer, kernelVars
  <2>3. \/ \E e \in Endpoints : Arrive(e)
        \/ Route \/ PollPeers \/ UNCHANGED <<kernelVars, inbox>>
    BY <1>2 DEF Next, ServerStep, DatagramArrives, Begin, BeginPoll, Drain, Drained,
                Ingest, StepAndBroadcast, UpdatePeer, SendFails, EndIteration,
                managerVars, vars
  <2> QED
    BY <1>2, <2>1, <2>2, <2>3, ArriveKeepsOrder, PollPeersKeepsOrder
<1> QED
  BY <1>1, <1>2, TypeCorrect, PTL DEF Spec

=============================================================================
