---------------------------- MODULE RateControl ----------------------------
(***************************************************************************)
(* How often one end of a link sends: Peer::update paces its flushes by    *)
(* the interval of the RateGovernor, which weighs the smoothed round trip  *)
(* of the RttEstimator against a threshold (src/transport/reliable).       *)
(*                                                                         *)
(* A time stamp t is modelled by its age, now - t, which is all the code   *)
(* ever compares; ages stop at a cap beyond which no comparison changes    *)
(* its answer, so time itself never has to.  The smoothed round trip is    *)
(* modelled by the side of the threshold it is on.                         *)
(***************************************************************************)
EXTENDS Integers

CONSTANTS GoodInterval, BadInterval,  \* RateGovernor::Config, in ticks of the
          Threshold, InitialPenalty,  \*   model's clock
          MaxPenalty, GoodDwell,
          Slots                       \* the RttEstimator's window

ASSUME RateAssumption ==
    /\ GoodInterval \in Nat /\ BadInterval \in Nat /\ Threshold \in Nat
    /\ InitialPenalty \in Nat /\ MaxPenalty \in Nat /\ GoodDwell \in Nat
    /\ InitialPenalty <= MaxPenalty

Lesser(a, b) == IF a <= b THEN a ELSE b
Greater(a, b) == IF a >= b THEN a ELSE b

\* The caps of the ages.
Horizon == Greater(MaxPenalty, GoodDwell)
LongestInterval == Greater(GoodInterval, BadInterval)
Late == Threshold + 1

VARIABLES
    mode,          \* RateGovernor::mode_
    penalty,       \* RateGovernor::penalty_us_
    started,       \* RateGovernor::started_
    good_for,      \* now - good_entered_us_
    healthy_for,   \* now - healthy_since_us_
    since_flush,   \* now - Peer::last_flush_us_
    flushed_once,  \* Peer::flushed_once_
    sent_ago,      \* now - RttEstimator::sent_at_us_, by slot
    awaiting,      \* the slots whose awaiting_ is set
    has_estimate,  \* RttEstimator::has_estimate_
    congested,     \* smoothed_us_ > threshold_us
    quiet,         \* history: time since a flush last saw congestion
    entry_penalty, \* history: the penalty when Good was last entered
    relapsed       \* history: the last stay in Good fell short of GoodDwell

governorVars == <<mode, penalty, started, good_for, healthy_for, quiet,
                  entry_penalty, relapsed>>
rttVars == <<sent_ago, awaiting, has_estimate, congested>>
vars == <<governorVars, since_flush, flushed_once, rttVars>>

Init ==
    /\ mode = "Good" /\ penalty = InitialPenalty /\ started = FALSE
    /\ good_for = 0 /\ healthy_for = 0
    /\ since_flush = 0 /\ flushed_once = FALSE
    /\ sent_ago = [s \in Slots |-> 0] /\ awaiting = {}
    /\ has_estimate = FALSE /\ congested = FALSE
    /\ quiet = 0 /\ entry_penalty = InitialPenalty /\ relapsed = FALSE

----------------------------------------------------------------------------
(* The estimator *)

\* Where the average may be after a sample: the first one replaces it, and
\* later ones pull it towards themselves, across the threshold or not.
AfterSample(late) ==
    IF has_estimate /\ congested # late THEN BOOLEAN ELSE {late}

\* RttEstimator::on_acked for the slot of an acknowledged packet: only the
\* first acknowledgement of a packet takes a sample.
Acked(s) ==
    /\ s \in awaiting
    /\ awaiting' = awaiting \ {s}
    /\ has_estimate' = TRUE
    /\ congested' \in AfterSample(sent_ago[s] > Threshold)
    /\ UNCHANGED <<governorVars, since_flush, flushed_once, sent_ago>>

\* RttEstimator::on_sent; a slot still awaiting its ack is taken over.
OnSent(s) ==
    /\ sent_ago' = [sent_ago EXCEPT ![s] = 0]
    /\ awaiting' = awaiting \union {s}
    /\ UNCHANGED <<has_estimate, congested>>

----------------------------------------------------------------------------
(* The governor *)

\* RateGovernor::send_interval_us.
SendInterval == IF mode = "Good" THEN GoodInterval ELSE BadInterval

\* A mistake: the cap on the penalty is forgotten.
DoubledUncapped(p) == 2 * p

\* A mistake: the penalty stays as it is.
NotDoubled(p) == p

\* What a relapse makes of the penalty.
Doubled(p) == Lesser(2 * p, MaxPenalty)

\* The first update only seeds the time stamps.
Seed ==
    /\ ~started
    /\ started' = TRUE /\ good_for' = 0 /\ healthy_for' = 0
    /\ UNCHANGED <<mode, penalty, entry_penalty, relapsed>>

\* Leaving Good this soon after entering it is a relapse.
Relapse == mode = "Good" /\ good_for < GoodDwell

\* A flush sees congestion and leaves a healthy streak of the given age.
Dropped(streak) ==
    /\ started /\ congested
    /\ mode' = "Bad"
    /\ penalty' = IF Relapse THEN Doubled(penalty) ELSE penalty
    /\ healthy_for' = streak
    /\ relapsed' = IF mode = "Good" THEN Relapse ELSE relapsed
    /\ UNCHANGED <<started, good_for, entry_penalty>>

\* A mistake: only the drop stamps the streak, a congested flush in Bad does not.
DropStampedOnce == Dropped(IF mode = "Good" THEN 0 ELSE healthy_for)

\* A congested flush: whatever the mode was, the healthy streak starts anew.
Drop == Dropped(0)

\* A healthy flush in Bad returns to Good once the streak has served the penalty.
Return ==
    /\ started /\ ~congested
    /\ mode = "Bad" /\ healthy_for >= penalty
    /\ mode' = "Good" /\ good_for' = 0 /\ entry_penalty' = penalty
    /\ UNCHANGED <<penalty, started, healthy_for, relapsed>>

\* A mistake: every healthy flush restarts the streak that it should prolong.
StayRestamped ==
    /\ started /\ ~congested
    /\ mode = "Good" \/ healthy_for < penalty
    /\ healthy_for' = 0
    /\ UNCHANGED <<mode, penalty, started, good_for, entry_penalty, relapsed>>

\* Any other healthy flush changes nothing.
Stay ==
    /\ started /\ ~congested
    /\ mode = "Good" \/ healthy_for < penalty
    /\ UNCHANGED <<mode, penalty, started, good_for, healthy_for, entry_penalty,
                   relapsed>>

\* RateGovernor::update.
UpdateGovernor ==
    /\ Seed \/ Drop \/ Return \/ Stay
    /\ quiet' = IF congested THEN 0 ELSE quiet

\* Peer::update when a flush is due: a packet goes out in slot s of the
\* estimator, and only then is the governor asked again.
Flush(s) ==
    /\ flushed_once => since_flush >= SendInterval
    /\ flushed_once' = TRUE /\ since_flush' = 0
    /\ OnSent(s)
    /\ UpdateGovernor

----------------------------------------------------------------------------
Aged(age, cap) == Lesser(age + 1, cap)

\* The clock moves; nothing else does.
Tick ==
    /\ good_for' = Aged(good_for, Horizon)
    /\ healthy_for' = Aged(healthy_for, Horizon)
    /\ quiet' = Aged(quiet, Horizon)
    /\ since_flush' = Aged(since_flush, LongestInterval)
    /\ sent_ago' = [s \in Slots |-> Aged(sent_ago[s], Late)]
    /\ UNCHANGED <<mode, penalty, started, entry_penalty, relapsed, flushed_once,
                   awaiting, has_estimate, congested>>

Next ==
    \/ \E s \in Slots : Acked(s)
    \/ \E s \in Slots : Flush(s)
    \/ Tick

Spec == Init /\ [][Next]_vars

\* The clock never stops, and the loop that owns the peer (server/main.cpp's,
\* bots/main.cpp's) calls update over and over, so a flush that is due happens.
FairSpec == Spec /\ WF_vars(Tick) /\ WF_vars(\E s \in Slots : Flush(s))

----------------------------------------------------------------------------
TypeOK ==
    /\ mode \in {"Good", "Bad"}
    /\ penalty \in 0 .. MaxPenalty /\ entry_penalty \in 0 .. MaxPenalty
    /\ started \in BOOLEAN /\ flushed_once \in BOOLEAN
    /\ good_for \in 0 .. Horizon /\ healthy_for \in 0 .. Horizon
    /\ quiet \in 0 .. Horizon
    /\ since_flush \in 0 .. LongestInterval
    /\ sent_ago \in [Slots -> 0 .. Late] /\ awaiting \subseteq Slots
    /\ has_estimate \in BOOLEAN /\ congested \in BOOLEAN
    /\ relapsed \in BOOLEAN

Returns == mode = "Bad" /\ mode' = "Good"

\* A link earns its way back to Good: for as long as the penalty no flush has
\* seen it congested (rate_governor.h:47-48, an uninterrupted healthy streak).
EarnedBack == [][Returns => quiet >= penalty]_vars

\* A flapping link cannot thrash the send rate (rate_governor.h:12): two entries
\* into Good are at least a penalty apart, and twice the penalty it came in with,
\* up to the maximum, if the stay between them was cut short.
FlapsSlowDown ==
    [][Returns => good_for >= IF relapsed THEN Lesser(2 * entry_penalty, MaxPenalty)
                                          ELSE entry_penalty]_vars

\* The governor follows the link: once the round trip stays on one side of the
\* threshold, so does the mode, for ever.
FollowsTheLink ==
    /\ <>[]congested => <>[](mode = "Bad")
    /\ <>[]~congested => <>[](mode = "Good")
============================================================================
