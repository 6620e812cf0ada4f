----------------------------- MODULE FMIBridge -----------------------------
(***************************************************************************)
(* A simulation exported as a co-simulation slave (fmi/src/FMIBridge.cpp): *)
(* the thread of the host that calls the fmi2 functions, and the scheduler *)
(* thread of the exported simulation, which runs from one DoStep to the    *)
(* end of its step. One of its models is an FMILoad, which drives a unit   *)
(* of its own: it is configured, initialised, executed and destroyed with  *)
(* the exported simulation.                                                *)
(*                                                                         *)
(* The queue of the scheduler is kept to the time of the next activation   *)
(* of each model and to the immediate stop events (see Scheduler and       *)
(* RunControl for the rest of it).                                         *)
(***************************************************************************)
EXTENDS FMILoad

CONSTANTS
  Models,      \* the models that have an entry point in the schedule
  Loader,      \* the one of them that is the FMILoad
  Offset,      \* time of the first activation of each
  Period,      \* period of each; 0 if it is activated once
  CommSteps,   \* communication step sizes the host uses
  MaxPoint,    \* bound: last communication point
  MaxHolds     \* bound: number of holds that models ask for

Never == -1

ASSUME FMIBridgeAssumption ==
  /\ Loader \in Models
  /\ Offset \in [Models -> Nat] /\ Period \in [Models -> Nat]
  /\ \E m \in Models : Period[m] > 0     \* the schedule is never empty
  /\ CommSteps \subseteq Nat \ {0}
  /\ MaxPoint \in Nat /\ MaxHolds \in Nat

VARIABLES
  host,        \* where the thread of the host is
  point,       \* the communication point of the host
  size,        \* the size of the step that is being made
  referenced,  \* _fmiRef2Field: fields that have a ValueReference
  end,         \* _endAbsoluteSimTime
  completed,   \* _completed
  state,       \* Simulator::_state of the exported simulation
  th,          \* where its scheduler thread is; "none" if there is none
  time,        \* its simulation time
  due,         \* time of the next activation of each model
  stops,       \* stop events in the queue
  waitingStop, \* Simulator::_waitingStop
  began,       \* history: the simulation time at which the step began
  refused,     \* history: Run was refused, the last run was not over
  holds        \* number of holds asked by models so far

hostVars == <<host, point, size, referenced, began, refused>>
simVars  == <<state, th, time, due, stops, holds>>
vars == <<hostVars, end, completed, simVars, waitingStop, loadVars>>

Init ==
  /\ LoadInit
  /\ host = "none" /\ point = 0 /\ size = 0 /\ referenced = {}
  /\ end = 0 /\ completed = FALSE
  /\ state = "Building" /\ th = "none" /\ time = 0
  /\ due = Offset
  /\ stops = 0 /\ waitingStop = FALSE
  /\ began = 0 /\ refused = FALSE /\ holds = 0

-----------------------------------------------------------------------------
(***************************************************************************)
(* The host. It calls SetupExperiment with a start time of 0, the only one *)
(* that the time keeper accepts before the first run, and it believes that *)
(* every step succeeds: fmi2DoStep returns fmi2OK whatever DoStep returns. *)
(***************************************************************************)

\* getAllFields: the fields that the components of the simulator publish
\* at this time. It is used before setup.lua has added the models.
getAllFields == IF host \in {"none", "new"} THEN {} ELSE Exchanged

\* fmi2Instantiate builds the simulator and the bridge, then runs setup.lua;
\* it returns no instance if the location is no file or if the script fails.
Instantiate ==
  /\ host = "none"
  /\ referenced' = getAllFields
  /\ host' \in {"new", "failed"}
  /\ UNCHANGED <<point, size, began, refused, end, completed, simVars,
                 waitingStop, loadVars>>

\* SetGeneric on the field x: skipped if no ValueReference leads to it.
SetGeneric(x, n) ==
  field' = IF x \in referenced THEN [field EXCEPT ![x] = n] ELSE field

\* fmi2SetReal and the others, between two steps. fmi2OK is returned.
HostSets ==
  /\ host \in {"new", "initialization", "idle"}
  /\ \E x \in Exchanged, n \in Values : SetGeneric(x, n)
  /\ UNCHANGED <<hostVars, end, completed, simVars, waitingStop, loader, setting,
                 curComTime, unit, unitTime, value, misuse, trouble>>

\* fmi2EnterInitializationMode: Publish and Configure.
EnterInitializationMode ==
  /\ host = "new"
  /\ \/ \E d \in Settings : Configure(d) /\ host' = "initialization"
     \/ ConfigureFails /\ host' = "failed"
  /\ UNCHANGED <<point, size, referenced, began, refused, end, completed, simVars, waitingStop>>

\* fmi2ExitInitializationMode: Connect, which ends in Standby and executes
\* the init entry points.
ExitInitializationMode ==
  /\ host = "initialization"
  /\ host' = "idle"
  /\ state' = "Standby"
  /\ Reset
  /\ UNCHANGED <<point, size, referenced, began, refused, end, completed, th, time, due,
                 stops, holds, waitingStop>>

\* Another model writes a field of the FMILoad: in its connect, before the
\* init entry points, or in its entry point.
WriteFields ==
  /\ host = "initialization" \/ th = "executing"
  /\ WriteField
  /\ UNCHANGED <<hostVars, end, completed, simVars, waitingStop>>

\* The imported unit ends a step that it had left pending.
UnitFinishes ==
  /\ th # "dead"
  /\ StepFinished
  /\ UNCHANGED <<hostVars, end, completed, simVars, waitingStop>>

\* DoStep up to the call of Simulator::Run.
DoStep ==
  /\ host = "idle"
  /\ \E h \in CommSteps :
       /\ point + h <= MaxPoint
       /\ size' = h
       /\ end' = point + h
  /\ host' = "run"
  /\ UNCHANGED <<point, referenced, began, refused, completed, simVars, waitingStop, loadVars>>

\* Scheduler::_mutex is only held for long by the host while it joins the
\* previous scheduler thread.
MutexFree == host # "joining"

\* Simulator::Run from Standby, as far as the join of the previous thread.
RunEnters ==
  /\ host = "run"
  /\ state = "Standby"
  /\ state' = "Executing"
  /\ host' = "joining"
  /\ UNCHANGED <<point, size, referenced, began, refused, end, completed, th, time, due,
                 stops, holds, waitingStop, loadVars>>

\* The previous thread has returned: the new one is started.
RunStarts ==
  /\ host = "joining"
  /\ th = "none"
  /\ th' = "step"
  /\ began' = time
  /\ host' = "wait"
  /\ UNCHANGED <<point, size, referenced, refused, end, completed, state, time, due, stops,
                 holds, waitingStop, loadVars>>

\* In any other state Run does nothing, and DoStep does not know.
RunRefused ==
  /\ host = "run"
  /\ state # "Standby"
  /\ refused' = TRUE
  /\ host' = "wait"
  /\ UNCHANGED <<point, size, referenced, began, end, completed, simVars, waitingStop, loadVars>>

\* Faulty variant: DoStep does not wait.
StepReturns_AtOnce ==
  /\ host = "wait"
  /\ completed' = FALSE
  /\ point' = point + size
  /\ host' = "idle"
  /\ UNCHANGED <<size, referenced, began, refused, end, simVars, waitingStop, loadVars>>

\* The end of DoStep, once LeaveExecuting has been emitted.
StepReturns ==
  /\ host = "wait"
  /\ completed
  /\ completed' = FALSE
  /\ point' = point + size
  /\ host' = "idle"
  /\ UNCHANGED <<size, referenced, began, refused, end, simVars, waitingStop, loadVars>>

\* fmi2Terminate: Hold(true), ignored unless the simulation executes.
Terminate ==
  /\ host = "idle"
  /\ IF state = "Executing"
     THEN stops' = stops + 1 /\ waitingStop' = TRUE /\ host' = "terminating"
     ELSE UNCHANGED <<stops, waitingStop>> /\ host' = "terminated"
  /\ UNCHANGED <<point, size, referenced, began, refused, end, completed, state, th, time,
                 due, holds, loadVars>>

TerminateReturns ==
  /\ host = "terminating"
  /\ ~waitingStop
  /\ host' = "terminated"
  /\ UNCHANGED <<point, size, referenced, began, refused, end, completed, simVars,
                 waitingStop, loadVars>>

\* fmi2FreeInstance: the bridge deletes the simulator and its models, which
\* waits for the scheduler thread.
FreeInstance ==
  /\ host \in {"new", "initialization", "idle", "terminated"}
  /\ th = "none"
  /\ host' = "freed"
  /\ state' = IF state = "Standby" THEN "Exiting" ELSE "Aborting"
  /\ Destroy
  /\ UNCHANGED <<point, size, referenced, began, refused, end, completed, th, time, due,
                 stops, holds, waitingStop>>

-----------------------------------------------------------------------------
(***************************************************************************)
(* The scheduler thread.                                                   *)
(***************************************************************************)

\* Some model is due at t and none before.
NextIs(t) ==
  /\ \E m \in Models : due[m] = t
  /\ \A m \in Models : due[m] = Never \/ due[m] >= t
  /\ t # Never

\* Faulty variant: the simulation is held only beyond the end of the step.
onSimTimeChanged_Late == stops' = IF time' > end THEN stops + 1 ELSE stops

\* PostSimTimeChange: Hold(true) from the scheduler thread.
onSimTimeChanged == stops' = IF time' >= end THEN stops + 1 ELSE stops

\* The next activation is later than now: the clock moves to it.
ChangeTime ==
  /\ th = "step"
  /\ stops = 0
  /\ \E t \in Nat \intersect {due[m] : m \in Models} :
       /\ NextIs(t) /\ t > time
       /\ time' = t
  /\ onSimTimeChanged
  /\ UNCHANGED <<hostVars, end, completed, state, th, due, holds, waitingStop, loadVars>>

Reschedule(m) ==
  due' = [due EXCEPT ![m] = IF Period[m] = 0 THEN Never ELSE due[m] + Period[m]]

\* The entry point of a model that is due now; the FMILoad makes its step.
\* An Error of its unit is thrown on the scheduler thread: the process ends.
Execute ==
  /\ th = "step"
  /\ stops = 0
  /\ NextIs(time)
  /\ \E m \in Models :
       /\ due[m] = time
       /\ Reschedule(m)
       /\ IF m = Loader
          THEN \E status \in Statuses :
                 /\ DoStepEP(status)
                 /\ th' = IF status = "Error" THEN "dead" ELSE "executing"
          ELSE th' = "executing" /\ UNCHANGED loadVars
  /\ UNCHANGED <<hostVars, end, completed, state, time, stops, holds, waitingStop>>

\* The entry point asks for a hold before it returns.
ModelHolds ==
  /\ th = "executing"
  /\ holds < MaxHolds
  /\ holds' = holds + 1
  /\ stops' = stops + 1
  /\ UNCHANGED <<hostVars, end, completed, state, th, time, due, waitingStop, loadVars>>

EntryPointReturns ==
  /\ th = "executing"
  /\ th' = "step"
  /\ UNCHANGED <<hostVars, end, completed, state, time, due, stops, holds,
                 waitingStop, loadVars>>

\* Faulty variant: the host is not notified of the end of the run.
LeaveExecuting_Silent ==
  /\ th = "step"
  /\ stops > 0
  /\ stops' = stops - 1
  /\ th' = "leaving"
  /\ UNCHANGED <<hostVars, end, completed, state, time, due, holds, waitingStop, loadVars>>

\* The stop event: LeaveExecuting is emitted, onLeaveExecuting sets
\* _completed and notifies the host; the state has not changed yet.
LeaveExecuting ==
  /\ th = "step"
  /\ stops > 0
  /\ stops' = stops - 1
  /\ completed' = TRUE
  /\ th' = "leaving"
  /\ UNCHANGED <<hostVars, end, state, time, due, holds, waitingStop, loadVars>>

EnterStandby ==
  /\ th = "leaving"
  /\ state' = "Standby"
  /\ th' = "stopped"
  /\ UNCHANGED <<hostVars, end, completed, time, due, stops, holds, waitingStop, loadVars>>

\* epStop wakes up the threads that wait in Hold.
NotifyStopped ==
  /\ th = "stopped"
  /\ waitingStop' = FALSE
  /\ th' = "notified"
  /\ UNCHANGED <<hostVars, end, completed, state, time, due, stops, holds, loadVars>>

\* The end of step takes the mutex, and the thread returns.
ThreadReturns ==
  /\ th = "notified"
  /\ MutexFree
  /\ th' = "none"
  /\ UNCHANGED <<hostVars, end, completed, state, time, due, stops, holds,
                 waitingStop, loadVars>>

ThreadStep ==
  \/ ChangeTime \/ Execute \/ EntryPointReturns
  \/ LeaveExecuting \/ EnterStandby \/ NotifyStopped \/ ThreadReturns

HostReturns ==
  RunEnters \/ RunStarts \/ RunRefused \/ StepReturns \/ TerminateReturns

Next ==
  \/ Instantiate \/ HostSets
  \/ EnterInitializationMode \/ ExitInitializationMode
  \/ WriteFields \/ UnitFinishes
  \/ DoStep \/ Terminate \/ FreeInstance
  \/ HostReturns \/ ThreadStep \/ ModelHolds

Spec == Init /\ [][Next]_vars

\* Both threads are OS threads that keep running, and entry points return.
\* The host is free to call nothing more.
FairSpec == Spec /\ WF_vars(HostReturns) /\ WF_vars(ThreadStep)

-----------------------------------------------------------------------------
(***************************************************************************)
(* Properties.                                                             *)
(***************************************************************************)

\* When DoStep returns, everything that was due before the end of the step
\* has been executed, unless a model held the simulation.
NothingIsSkipped ==
  [][host = "wait" /\ host' = "idle" /\ holds = 0 =>
       \A m \in Models : due[m] = Never \/ due[m] >= end]_vars

\* The clock of the slave is ahead of the host: it is already at the end of
\* the step, or beyond it, when the step begins. A step ends at the first
\* activation time from its end on, which may be far behind it.
AheadOfHost == began >= end

\* A step executes nothing that lies beyond its end unless the clock was
\* ahead of the host, and then only what is due at the very time the clock
\* had reached: the clock passes the end of a step once at most.
NothingBeyondUnlessAhead ==
  [][th = "step" /\ th' = "executing" =>
       IF AheadOfHost THEN time = began ELSE time < end]_vars

\* What a step of the host executes, as far as the bridge keeps to it.
StepsExecuteWhatIsDue == NothingIsSkipped /\ NothingBeyondUnlessAhead

\* While the host is between two steps, and may call the slave without any
\* lock, no entry point runs and no time passes.
HostIsAlone == host = "idle" => th \in {"none", "leaving", "stopped", "notified"}

\* Run came from Standby while the previous thread had not returned: the host
\* waits for it with the mutex that it needs for the end of its step.
RestartedTooEarly == host = "joining" /\ th # "none"

\* DoStep returns, unless it called Run before the previous run was over: the
\* host is notified before the state is Standby (Run is refused), and the
\* state is Standby before the thread returns (RestartedTooEarly). An Error of
\* the imported unit ends the process.
EveryStepReturns ==
  (host \in {"run", "joining", "wait"}) ~>
    (host = "idle" \/ th = "dead" \/ refused \/ RestartedTooEarly)

=============================================================================
