------------------------- MODULE RateControlProofs -------------------------
(***************************************************************************)
(* Proofs about RateControl: type correctness, and that a flapping link is *)
(* slowed down, for every interval, penalty and dwell time.                *)
(***************************************************************************)
EXTENDS RateControl, TLAPS

LEMMA Caps ==
    /\ Horizon \in Nat /\ LongestInterval \in Nat /\ Late \in Nat
    /\ MaxPenalty <= Horizon
BY RateAssumption DEF Horizon, LongestInterval, Late, Greater

LEMMA AgedType ==
    ASSUME NEW cap \in Nat, NEW age \in 0 .. cap
    PROVE  Aged(age, cap) \in 0 .. cap /\ Aged(age, cap) >= age
BY DEF Aged, Lesser

LEMMA DoubledType ==
    ASSUME NEW p \in 0 .. MaxPenalty
    PROVE  Doubled(p) \in 0 .. MaxPenalty
BY RateAssumption DEF Doubled, Lesser

LEMMA AfterSampleType ==
    ASSUME NEW a \in Int, NEW b \in Int
    PROVE  AfterSample(a > b) \subseteq BOOLEAN
<1>1. (a > b) \in BOOLEAN
  OBVIOUS
<1>2. ASSUME NEW late \in BOOLEAN PROVE AfterSample(late) \subseteq BOOLEAN
  BY <1>2, Zenon DEF AfterSample
<1> QED
  BY <1>1, <1>2

LEMMA RelapseType == Relapse \in BOOLEAN
BY Zenon DEF Relapse

\* Type correctness for every configuration: the penalty never exceeds its
\* maximum and no age its cap.
THEOREM TypeCorrect == Spec => []TypeOK
<1>1. ASSUME Init PROVE TypeOK
  <2>1. sent_ago \in [Slots -> 0 .. Late]
    BY <1>1, Caps DEF Init
  <2>2. penalty \in 0 .. MaxPenalty /\ entry_penalty \in 0 .. MaxPenalty
    BY <1>1, RateAssumption DEF Init
  <2>3. /\ started \in BOOLEAN /\ flushed_once \in BOOLEAN /\ has_estimate \in BOOLEAN
        /\ congested \in BOOLEAN /\ relapsed \in BOOLEAN
    BY <1>1, Zenon DEF Init
  <2>4. /\ mode \in {"Good", "Bad"} /\ awaiting \subseteq Slots
        /\ good_for \in 0 .. Horizon /\ healthy_for \in 0 .. Horizon
        /\ quiet \in 0 .. Horizon /\ since_flush \in 0 .. LongestInterval
    BY <1>1, Caps DEF Init
  <2> QED
    BY <2>1, <2>2, <2>3, <2>4 DEF TypeOK
<1>2. TypeOK /\ [Next]_vars => TypeOK'
  <2> SUFFICES ASSUME TypeOK, [Next]_vars PROVE TypeOK'
    OBVIOUS
  <2>1. ASSUME NEW s \in Slots, Acked(s) PROVE TypeOK'
    <3> DEFINE ago == sent_ago[s]
    <3>1. ago \in Int /\ Threshold \in Int
      BY RateAssumption DEF TypeOK, Late
    <3> HIDE DEF ago
    <3>2. AfterSample(ago > Threshold) \subseteq BOOLEAN
      BY <3>1, AfterSampleType
    <3> USE DEF ago
    <3>3. congested' \in BOOLEAN
      BY <2>1, <3>2 DEF Acked
    <3> QED
      BY <2>1, <3>3 DEF Acked, governorVars, TypeOK
  <2>2. ASSUME NEW s \in Slots, Flush(s) PROVE TypeOK'
    <3>1. /\ flushed_once' \in BOOLEAN /\ since_flush' \in 0 .. LongestInterval
          /\ sent_ago' \in [Slots -> 0 .. Late] /\ awaiting' \subseteq Slots
          /\ has_estimate' \in BOOLEAN /\ congested' \in BOOLEAN
      BY <2>2, Caps DEF Flush, OnSent, TypeOK
    <3>2. quiet' \in 0 .. Horizon
      BY <2>2, Caps DEF Flush, UpdateGovernor, TypeOK
    <3>3. /\ mode' \in {"Good", "Bad"} /\ started' \in BOOLEAN /\ relapsed' \in BOOLEAN
          /\ penalty' \in 0 .. MaxPenalty /\ entry_penalty' \in 0 .. MaxPenalty
          /\ good_for' \in 0 .. Horizon /\ healthy_for' \in 0 .. Horizon
      <4>1. CASE Seed
        BY <4>1, Caps DEF Seed, TypeOK
      <4>2. CASE Drop
        <5>1. relapsed' \in BOOLEAN
          BY <4>2, RelapseType, Zenon DEF Drop, Dropped, TypeOK
        <5>2. penalty' \in 0 .. MaxPenalty
          BY <4>2, DoubledType DEF Drop, Dropped, TypeOK
        <5> QED
          BY <4>2, <5>1, <5>2, Caps DEF Drop, Dropped, TypeOK
      <4>3. CASE Return
        BY <4>3, Caps DEF Return, TypeOK
      <4>4. CASE Stay
        BY <4>4 DEF Stay, TypeOK
      <4> QED
        BY <2>2, <4>1, <4>2, <4>3, <4>4 DEF Flush, UpdateGovernor
    <3> QED
      BY <3>1, <3>2, <3>3 DEF TypeOK
  <2>3. CASE Tick
    <3>1. sent_ago' \in [Slots -> 0 .. Late]
      BY <2>3, Caps, AgedType DEF Tick, TypeOK
    <3>2. /\ good_for' \in 0 .. Horizon /\ healthy_for' \in 0 .. Horizon
          /\ quiet' \in 0 .. Horizon /\ since_flush' \in 0 .. LongestInterval
      BY <2>3, Caps, AgedType DEF Tick, TypeOK
    <3> QED
      BY <2>3, <3>1, <3>2 DEF Tick, TypeOK
  <2>4. CASE UNCHANGED vars
    BY <2>4 DEF vars, governorVars, rttVars, TypeOK
  <2> QED
    BY <2>1, <2>2, <2>3, <2>4 DEF Next
<1> QED
  BY <1>1, <1>2, PTL DEF Spec

----------------------------------------------------------------------------
\* What the penalty owes to the stay in Good before it.
Owed == IF relapsed THEN Lesser(2 * entry_penalty, MaxPenalty) ELSE entry_penalty

\* In Good the penalty is the one Good was entered with; in Bad it is at least
\* what is owed, the healthy streak is the one no congested flush has broken,
\* and it is no longer than the time since Good was entered.
Served ==
    /\ mode = "Good" => penalty = entry_penalty
    /\ mode = "Bad" => /\ started
                       /\ penalty >= Owed
                       /\ healthy_for = quiet
                       /\ healthy_for <= good_for

LEMMA ServedNext ==
    ASSUME TypeOK, Served, [Next]_vars
    PROVE  Served'
<1>1. ASSUME UNCHANGED governorVars PROVE Served'
  BY <1>1 DEF Served, governorVars, Owed
<1>2. ASSUME NEW s \in Slots, Acked(s) PROVE Served'
  BY <1>1, <1>2 DEF Acked
<1>3. ASSUME NEW s \in Slots, Flush(s) PROVE Served'
  <2>1. UpdateGovernor
    BY <1>3 DEF Flush
  <2>2. CASE Seed
    BY <2>2 DEF Seed, Served, TypeOK
  <2>3. CASE Drop
    <3>1. /\ mode' = "Bad" /\ started' /\ healthy_for' = 0 /\ quiet' = 0
          /\ entry_penalty' = entry_penalty /\ good_for' = good_for
      BY <2>1, <2>3 DEF Drop, Dropped, UpdateGovernor
    <3>2. penalty' >= Owed'
      <4>1. CASE mode = "Good"
        <5>1. /\ relapsed' = Relapse /\ penalty = entry_penalty
              /\ penalty' = IF Relapse THEN Doubled(penalty) ELSE penalty
          BY <2>3, <4>1 DEF Drop, Dropped, Served
        <5>2. penalty \in Nat
          BY DEF TypeOK
        <5> QED
          BY <3>1, <5>1, <5>2, RateAssumption DEF Doubled, Lesser, Owed
      <4>2. CASE mode = "Bad"
        BY <2>3, <3>1, <4>2 DEF Drop, Dropped, Relapse, Owed, Served, TypeOK
      <4> QED
        BY <4>1, <4>2 DEF TypeOK
    <3> QED
      BY <3>1, <3>2 DEF Served, TypeOK
  <2>4. CASE Return
    BY <2>4 DEF Return, Served
  <2>5. CASE Stay
    BY <2>1, <2>5 DEF Stay, UpdateGovernor, Served, Owed
  <2> QED
    BY <2>1, <2>2, <2>3, <2>4, <2>5 DEF UpdateGovernor
<1>4. CASE Tick
  BY <1>4, Caps DEF Tick, Aged, Lesser, Served, Owed, TypeOK
<1>5. CASE UNCHANGED vars
  BY <1>1, <1>5 DEF vars
<1> QED
  BY <1>2, <1>3, <1>4, <1>5 DEF Next

LEMMA OnlyReturnReturns ==
    ASSUME TypeOK, [Next]_vars, Returns
    PROVE  Return
BY DEF Returns, Next, Acked, Flush, UpdateGovernor, Seed, Drop, Dropped, Stay, Tick,
       vars, governorVars

\* Good is entered again only after a penalty's worth of flushes that saw no
\* congestion.
THEOREM EarnedBackHolds == Spec => EarnedBack
<1>1. Init => Served
  BY DEF Init, Served
<1>2. TypeOK /\ Served /\ [Next]_vars => Served'
  BY ServedNext
<1>3. TypeOK /\ Served /\ [Next]_vars => [Returns => quiet >= penalty]_vars
  BY OnlyReturnReturns DEF Returns, Return, Served
<1> QED
  BY <1>1, <1>2, <1>3, TypeCorrect, PTL DEF Spec, EarnedBack

\* Two entries into Good are a penalty apart, a doubled one after a stay that
\* was cut short.
THEOREM FlapsSlowDownHolds == Spec => FlapsSlowDown
<1>1. Init => Served
  BY DEF Init, Served
<1>2. TypeOK /\ Served /\ [Next]_vars => Served'
  BY ServedNext
<1>3. TypeOK /\ Served /\ [Next]_vars =>
        [Returns => good_for >= IF relapsed THEN Lesser(2 * entry_penalty, MaxPenalty)
                                            ELSE entry_penalty]_vars
  <2> SUFFICES ASSUME TypeOK, Served, [Next]_vars, Returns PROVE good_for >= Owed
    BY DEF Owed
  <2>1. mode = "Bad" /\ healthy_for >= penalty
    BY OnlyReturnReturns DEF Return
  <2>2. Owed \in Nat
    BY RateAssumption DEF Owed, Lesser, TypeOK
  <2> QED
    BY <2>1, <2>2 DEF Served, TypeOK
<1> QED
  BY <1>1, <1>2, <1>3, TypeCorrect, PTL DEF Spec, FlapsSlowDown
============================================================================
