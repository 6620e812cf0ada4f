---------------------------- MODULE MCScheduler ----------------------------
(***************************************************************************)
(* Values of the constants of Scheduler for TLC.                           *)
(***************************************************************************)
EXTENDS Scheduler

\* Durations from now: none, one and two nanoseconds, and never.
NowSoonNever == {0, 1, Never}

\* Cycle times: 0 is a one-shot event, -1 makes an event aperiodic.
SomeCycles == {-1, 0, 2}

\* Repeat counts: -1 stands for "for ever".
SomeRepeats == {-1, 0, 1}

\* The calls that only add events.
Adding == {"AddImmediateEvent", "AddSimulationTimeEvent", "AddDatedEvent"}

\* The calls that do not lead to undefined behaviour.
Defined == Adding \union {"SetEventSimulationTime", "SetEventCycleTime",
                          "SetEventRepeat", "Hold", "Abort"}

\* Fewer cycles and counts for the runs with calls from every place.
AnyCycles  == {0, 2}
AnyRepeats == {0, 1}

AllCalls == Defined \union {"RemoveEvent"}

\* Client code that runs while the two clocks agree.
InSync == {"exited", "executing", "postExec"}

=============================================================================
