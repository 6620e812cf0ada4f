---------------------------- MODULE Synchronizer ----------------------------
(***************************************************************************)
(* The real time synchronisation service (colibry/src/Synchronizer.cpp):   *)
(* a periodic entry point on the scheduler thread that waits for the clock *)
(* of the host, and an initialisation on the thread that calls             *)
(* Simulator::Run, which has started the scheduler thread before.          *)
(***************************************************************************)
EXTENDS Integers

CONSTANTS
  Period,      \* _periodSmp
  Second,      \* one second of the host's clock
  Threshold,   \* _marginThresh
  StartSec,    \* values of _startSec
  Late,        \* bound: how late a sleeping thread may wake up
  MaxWall      \* bound: last value of the host's clock

ASSUME SynchronizerAssumption ==
  /\ Period \in Nat \ {0} /\ Second \in Nat \ {0} /\ Threshold \in Nat
  /\ StartSec \subseteq BOOLEAN /\ Late \in Nat /\ MaxWall \in Nat

VARIABLES
  wall,      \* the host's clock
  goal,      \* _goal
  starting,  \* epInit: "no", "called", "read", "sleeping" until waking
  waking,    \* the time until which the thread in epInit sleeps
  step,      \* epStep: "no", "called", "sleeping" until goalSeen, "woken"
  goalSeen,  \* the goal that epStep has read
  origin,    \* history: the time at which the last epInit started to count
  steps,     \* history: the steps since
  raced      \* history: a step ran while epInit had not set the goal

syncVars == <<wall, goal, starting, waking, step, goalSeen,
              origin, steps, raced>>

SyncInit ==
  /\ wall = 1 /\ goal = 0
  /\ starting = "no" /\ waking = 0 /\ step = "no" /\ goalSeen = 0
  /\ origin = 0 /\ steps = 0 /\ raced = FALSE

\* Time passes; a thread that sleeps is not late by more than the bound.
Tick ==
  /\ wall < MaxWall
  /\ starting = "sleeping" => wall < waking + Late
  /\ step = "sleeping" => wall < goalSeen + Late
  /\ wall' = wall + 1
  /\ UNCHANGED <<goal, starting, waking, step, goalSeen,
                 origin, steps, raced>>

\* EnterExecuting reaches the Synchronizer, after the Scheduler.
EnterExecuting ==
  /\ starting' = "called"
  /\ UNCHANGED <<wall, goal, waking, step, goalSeen, origin,
                 steps, raced>>

\* epInit reads the clock. With _startSec the count starts at the next second.
epInitReads ==
  /\ starting = "called"
  /\ \E startSec \in StartSec :
       waking' = IF startSec THEN ((wall \div Second) + 1) * Second ELSE wall
  /\ starting' = "read"
  /\ UNCHANGED <<wall, goal, step, goalSeen, origin, steps, raced>>

\* epInit sets the goal, and sleeps until the second that was chosen.
epInitSets ==
  /\ starting = "read"
  /\ goal' = waking + Period
  /\ origin' = waking /\ steps' = 0
  /\ raced' = (step # "no")
  /\ starting' = "sleeping"
  /\ UNCHANGED <<wall, waking, step, goalSeen>>

epInitReturns ==
  /\ starting = "sleeping" /\ wall >= waking
  /\ starting' = "no" /\ waking' = 0
  /\ UNCHANGED <<wall, goal, step, goalSeen, origin, steps, raced>>

\* The scheduler executes the entry point.
epStepCalled ==
  /\ step = "no"
  /\ step' = "called"
  /\ raced' = (raced \/ starting \in {"called", "read"})
  /\ UNCHANGED <<wall, goal, starting, waking, goalSeen,
                 origin, steps>>

\* The margin is read: the thread sleeps until the goal, or there is an
\* overflow (the margin and the overflows are only counted and published).
epStepReads ==
  /\ step = "called"
  /\ IF goal - wall > Threshold
     THEN step' = "sleeping" /\ goalSeen' = goal
     ELSE step' = "woken" /\ UNCHANGED goalSeen
  /\ UNCHANGED <<wall, goal, starting, waking, origin, steps, raced>>

epStepWakes ==
  /\ step = "sleeping" /\ wall >= goalSeen
  /\ step' = "woken"
  /\ UNCHANGED <<wall, goal, starting, waking, goalSeen,
                 origin, steps, raced>>

\* Faulty variant: the next goal is counted from the time of this step.
NextGoal_FromNow == wall + Period

NextGoal == goal + Period

\* The goal of the next step; the entry point returns.
epStepReturns ==
  /\ step = "woken"
  /\ goal' = NextGoal
  /\ steps' = steps + 1
  /\ step' = "no" /\ goalSeen' = 0
  /\ UNCHANGED <<wall, starting, waking, origin, raced>>

SyncStep ==
  \/ epInitReads \/ epInitSets \/ epInitReturns
  \/ epStepReads \/ epStepWakes \/ epStepReturns

-----------------------------------------------------------------------------
(***************************************************************************)
(* Steps that are late, and overflows, do not shift the next ones: when no *)
(* step overlaps with epInit, the goals are the origin plus multiples of   *)
(* the period, and the simulation is never ahead of the host's clock by    *)
(* more than the threshold (Synchronizer::epStep and epInit).              *)
(***************************************************************************)
NoDrift ==
  ~ raced /\ origin > 0 /\ starting \in {"no", "sleeping"} =>
    /\ goal = origin + (steps + 1) * Period
    /\ step = "no" => wall + Threshold >= origin + steps * Period \/ steps = 0

=============================================================================
