--------------------------- MODULE FixedTimestep ---------------------------
(***************************************************************************)
(* sim::FixedTimestep, the accumulator that turns elapsed real time into   *)
(* simulation steps (src/sim/fixed_timestep.cpp).  Time is counted in      *)
(* whole units here; the rounding of the code's doubles is left out.       *)
(***************************************************************************)
EXTENDS Integers

CONSTANTS Dt,       \* fixed_dt_, the length of a step
          MaxSteps  \* max_steps_, the most that one call catches up (8)

ASSUME StepAssumption == Dt \in Nat \ {0} /\ MaxSteps \in Nat \ {0}

\* A mistake: the comparison that ends the loop excludes a full step.
StepsDueLate(banked) ==
    IF banked \div Dt <= MaxSteps
      THEN IF banked % Dt = 0 /\ banked > 0 THEN banked \div Dt - 1 ELSE banked \div Dt
      ELSE MaxSteps

\* The steps the loop of advance takes with so much time banked.
StepsDue(banked) == IF banked \div Dt <= MaxSteps THEN banked \div Dt ELSE MaxSteps

\* A mistake: what the cap left over is kept, and worked off later.
Backlog(banked) == banked - StepsDue(banked) * Dt

\* What stays in the accumulator: the loop subtracts its steps, fmod the rest.
Remainder(banked) == (banked - StepsDue(banked) * Dt) % Dt
============================================================================
