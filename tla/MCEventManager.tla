--------------------------- MODULE MCEventManager ---------------------------
(***************************************************************************)
(* Values of the constants of EventManager for TLC.                        *)
(***************************************************************************)
EXTENDS EventManager

CONSTANTS scheduler, front, preExec, custom, recorder, panel

\* The scheduler thread and a front end; an event of the simulator and one
\* created by a model; two subscribers.
TwoThreads     == {scheduler, front}
SimulatorEvent == {preExec}
ModelEvent     == {custom}
TwoSubscribers == {recorder, panel}

=============================================================================
