----------------------------- MODULE Scheduler -----------------------------
(***************************************************************************)
(* The SMP scheduler service (kern/src/Scheduler.cpp) together with the    *)
(* part of the time keeper (kern/src/TimeKeeper.cpp) that it drives: the   *)
(* queue of schedules, the loop of the scheduler thread cut at the points  *)
(* where other code runs (event subscribers and entry points), and the     *)
(* IScheduler calls that such code makes on the scheduler thread.          *)
(*                                                                         *)
(* Calls made by other threads at the same time are not part of this       *)
(* module; the only thing another thread does here is Simulator::Abort.    *)
(***************************************************************************)
EXTENDS Integers

CONSTANTS
  DurationMax,   \* DURATION_MAX, the largest Smp::Duration
  MaxEvents,     \* bound: number of event ids ever allocated (_nextId)
  AutoStop,      \* values that the published field autoStop takes
  RelTimes,      \* relative times given to the calls, or that dates lead to
  Cycles,        \* cycle times given to the calls
  Repeats,       \* repeat counts given to the calls
  CallSites,     \* values of pc at which client code calls the scheduler
  Calls,         \* the calls that the client code makes
  RestoreTimes   \* simulation times a breakpoint may hold

Immediate == -2     \* IMMEDIATE_SIMULATION_TIME
Never     == -1     \* time of an event that is kept but never activated
None      == -1     \* nullptr, and the id of a schedule not yet registered

EventId == 0 .. MaxEvents - 1
Time    == {Immediate, Never} \union 0 .. DurationMax - 1

\* Where client code runs: in Standby; in subscribers of PreEventExecute that
\* come before the time keeper's or after it; in subscribers of
\* Pre/PostSimTimeChange; in entry points; in subscribers of PostEventExecute.
Site == {"exited", "preExec", "select", "preChange", "postChange",
         "executing", "postExec"}

(***************************************************************************)
(* A client gives a duration from now, or -1 for "never" (the code does    *)
(* not check that the duration is not negative: it is the caller's duty).  *)
(* The cycle times and repeat counts are any 64 bit numbers.               *)
(***************************************************************************)
ASSUME ConstantsAssumption ==
  /\ DurationMax \in Nat \ {0}
  /\ MaxEvents \in Nat
  /\ AutoStop \subseteq BOOLEAN
  /\ RelTimes \subseteq Nat \union {Never}
  /\ Cycles \subseteq Int
  /\ Repeats \subseteq Int
  /\ CallSites \subseteq Site
  /\ RestoreTimes \subseteq 0 .. DurationMax - 1

VARIABLES
  pc,              \* where the scheduler thread is in run() and step()
  run,             \* _run
  sched,           \* the Schedule objects, by event id
  scheduled,       \* _scheduled: ids in the multiset, ordered by Before
  freed,           \* ids of the Schedule objects that have been deleted
  nextId,          \* _nextId
  currentSchedule, \* _currentSchedule
  simulationTime,  \* Scheduler::_simulationTime, the scheduler's own copy
  simTime,         \* TimeKeeper::_simTime
  nextEventTime,   \* TimeKeeper::_nextEventTime
  aborting         \* Simulator::Abort has been called

queueVars == <<sched, scheduled, freed, nextId>>
timeVars  == <<simulationTime, simTime, nextEventTime>>
vars == <<pc, run, queueVars, currentSchedule, timeVars, aborting>>

Blank == [time |-> Never, period |-> 0, repeat |-> 0,
          completed |-> FALSE, kind |-> "none"]

Init ==
  /\ pc = "exited"
  /\ run = FALSE
  /\ sched = [e \in EventId |-> Blank]
  /\ scheduled = {}
  /\ freed = {}
  /\ nextId = 0
  /\ currentSchedule = None
  /\ simulationTime = 0
  /\ simTime = 0
  /\ nextEventTime = 0
  /\ aborting = FALSE

-----------------------------------------------------------------------------
(***************************************************************************)
(* The queue.                                                              *)
(***************************************************************************)

\* Faulty variant: -1 compared like any other time.
Before_NeverFirst(a, b) ==
  IF sched[a].time = sched[b].time THEN a < b ELSE sched[a].time < sched[b].time

\* Schedule::operator<: by time, Never after every time, ties by event id.
Before(a, b) ==
  IF sched[a].time = sched[b].time
  THEN a < b
  ELSE \/ sched[a].time # Never /\ sched[a].time < sched[b].time
       \/ sched[b].time = Never

\* e is *_scheduled.begin().
IsHead(e) ==
  /\ e \in scheduled
  /\ \A o \in scheduled \ {e} : Before(e, o)

\* What getNextScheduledEventTime returns when e is the head of the queue:
\* an immediate event is due at the time the scheduler believes it is.
HeadTime(e) ==
  IF sched[e].time = Immediate THEN simulationTime ELSE sched[e].time

\* t is the result of getNextScheduledEventTime.
NextTimeIs(t) ==
  \/ scheduled = {} /\ t = Never
  \/ \E e \in scheduled : IsHead(e) /\ t = HeadTime(e)

NextTimes == {Never} \union {HeadTime(e) : e \in scheduled}

\* Faulty variant: getAbsoluteTime without its range check.
HasAbsoluteTime_Unchecked(rel) == TRUE

\* Faulty variant: the duration from now taken for a simulation time.
AbsoluteTime_NotRelative(rel) == rel

\* getAbsoluteTime throws when the sum would not be below DURATION_MAX.
HasAbsoluteTime(rel) == rel = Never \/ rel < DurationMax - simulationTime
AbsoluteTime(rel) == IF rel = Never THEN Never ELSE simulationTime + rel

\* Schedule::setTime: the new time, then schedule(this), which erases the
\* schedule from the multiset, if it is there, and inserts it again.
SetTime(s, e, t) ==
  /\ sched' = [s EXCEPT ![e].time = t]
  /\ scheduled' = scheduled \union {e}

\* schedule(entryPoint, time, cycle, repeat): a new Schedule gets the next
\* id and enters the queue.
Create(kind, time, cycle, repeat) ==
  /\ sched' = [sched EXCEPT ![nextId] =
                 [time |-> time, period |-> cycle, repeat |-> repeat,
                  completed |-> FALSE, kind |-> kind]]
  /\ scheduled' = scheduled \union {nextId}
  /\ nextId' = nextId + 1
  /\ UNCHANGED freed

\* findSchedule: only the current schedule and the queued ones are found.
Found(e) == e = currentSchedule \/ e \in scheduled

-----------------------------------------------------------------------------
(***************************************************************************)
(* The loop of the scheduler thread.                                       *)
(***************************************************************************)

\* while (_run) in Scheduler::run.
Loop == IF run THEN "step" ELSE "exited"

\* A stop was requested before the step read the queue.
StopSeen ==
  /\ pc = "step"
  /\ ~run
  /\ pc' = "exited"
  /\ UNCHANGED <<run, queueVars, currentSchedule, timeVars, aborting>>

\* Without autoStop the thread waits on _monitor while the condition of
\* line 341 holds, which is that the queue does have an event to activate.
Pause ==
  /\ pc = "step"
  /\ run
  /\ FALSE \in AutoStop
  /\ \E next \in NextTimes : NextTimeIs(next) /\ next # Never
  /\ pc' = "waiting"
  /\ UNCHANGED <<run, queueVars, currentSchedule, timeVars, aborting>>

\* A notification or a spurious wake-up: the condition is evaluated again.
WakeUp ==
  /\ pc = "waiting"
  /\ pc' = "step"
  /\ UNCHANGED <<run, queueVars, currentSchedule, timeVars, aborting>>

\* With autoStop and nothing left to activate: Simulator::Hold(true), which
\* queues the simulator's stop entry point as an immediate event.
AutoHold ==
  /\ pc = "step"
  /\ run
  /\ TRUE \in AutoStop
  /\ \E next \in {Never, DurationMax} : NextTimeIs(next)
  /\ nextId < MaxEvents
  /\ Create("stop", Immediate, 0, 0)
  /\ pc' = Loop
  /\ UNCHANGED <<run, currentSchedule, timeVars, aborting>>

\* The step goes on and emits Scheduler_PreEventExecute. It has read autoStop
\* twice, once for each of the two tests.
Proceed ==
  /\ pc = "step"
  /\ run
  /\ \E next \in NextTimes, first, second \in AutoStop :
       /\ NextTimeIs(next)
       /\ first \/ next = Never
       /\ second => next \notin {Never, DurationMax}
  /\ pc' = "preExec"
  /\ UNCHANGED <<run, queueVars, currentSchedule, timeVars, aborting>>

\* Faulty variant: the time of some queued event instead of the next one's.
UpdateTime_AnyEvent ==
  /\ pc = "preExec"
  /\ \E e \in scheduled : sched[e].time > simTime /\ nextEventTime' = sched[e].time
  /\ pc' = "preChange"
  /\ UNCHANGED <<run, queueVars, currentSchedule, simulationTime, simTime,
                 aborting>>

\* TimeKeeper::epUpdateSimulationTime, subscribed to PreEventExecute: when
\* the next event is later than now, PreSimTimeChange is emitted first.
UpdateTime ==
  /\ pc = "preExec"
  /\ \E next \in NextTimes :
       /\ NextTimeIs(next)
       /\ next > simTime
       /\ next # DurationMax
       /\ nextEventTime' = next
  /\ pc' = "preChange"
  /\ UNCHANGED <<run, queueVars, currentSchedule, simulationTime, simTime,
                 aborting>>

\* The next event is due now: the time keeper has nothing to do.
KeepTime ==
  /\ pc = "preExec"
  /\ \E next \in {simTime, DurationMax} : NextTimeIs(next)
  /\ pc' = "select"
  /\ UNCHANGED <<run, queueVars, currentSchedule, timeVars, aborting>>

\* The next event is in the past: the time keeper throws, nothing on the
\* scheduler thread catches, and the process terminates.
RefusePast ==
  /\ pc = "preExec"
  /\ \E next \in NextTimes : NextTimeIs(next) /\ next < simTime
  /\ pc' = "dead"
  /\ UNCHANGED <<run, queueVars, currentSchedule, timeVars, aborting>>

\* Faulty variants: one of the two bounds of SetSimulationTime is missing.
SetSimulationTime_NoUpperBound ==
  /\ pc = "preChange"
  /\ simTime' \in simTime .. DurationMax - 1
  /\ UNCHANGED <<pc, run, queueVars, currentSchedule, simulationTime,
                 nextEventTime, aborting>>

SetSimulationTime_NoLowerBound ==
  /\ pc = "preChange"
  /\ simTime' \in 0 .. nextEventTime
  /\ UNCHANGED <<pc, run, queueVars, currentSchedule, simulationTime,
                 nextEventTime, aborting>>

\* TimeKeeper::SetSimulationTime, accepted from PreSimTimeChange handlers.
SetSimulationTime ==
  /\ pc = "preChange"
  /\ simTime' \in simTime .. nextEventTime
  /\ UNCHANGED <<pc, run, queueVars, currentSchedule, simulationTime,
                 nextEventTime, aborting>>

\* The clock moves to the next event, then PostSimTimeChange is emitted.
ChangeTime ==
  /\ pc = "preChange"
  /\ simTime' = nextEventTime
  /\ pc' = "postChange"
  /\ UNCHANGED <<run, queueVars, currentSchedule, simulationTime,
                 nextEventTime, aborting>>

TimeChanged ==
  /\ pc = "postChange"
  /\ nextEventTime' = 0
  /\ pc' = "select"
  /\ UNCHANGED <<run, queueVars, currentSchedule, simulationTime, simTime,
                 aborting>>

\* The condition under which step() takes the head e out of the queue, once
\* it has refreshed its copy of the time.
Due(e) == run /\ IsHead(e) /\ sched[e].time <= simTime /\ sched[e].time # Never

Select ==
  /\ pc = "select"
  /\ simulationTime' = simTime
  /\ \/ \E e \in scheduled :
          /\ Due(e)
          /\ currentSchedule' = e
          /\ scheduled' = scheduled \ {e}
          /\ pc' = "run"
     \/ /\ ~ \E e \in scheduled : Due(e)
        /\ currentSchedule' = None
        /\ pc' = Loop
        /\ UNCHANGED scheduled
  /\ UNCHANGED <<run, sched, freed, nextId, simTime, nextEventTime, aborting>>

\* Faulty variant: the period counted from the end of the previous one.
NextActivation_Drifts(time, period) ==
  IF time < 0 \/ period >= DurationMax - time - 1
  THEN Never
  ELSE time + period + 1

\* The time of the next activation. Close to the end of time there is none.
\* For an event still marked Immediate, as for every negative time,
\* DURATION_MAX - time wraps round to a negative number, which every period
\* exceeds.
NextActivation(time, period) ==
  IF time < 0 \/ period >= DurationMax - time
  THEN Never
  ELSE time + period

\* Schedule::run up to the call of the entry point: the repeat count and the
\* next activation are updated first. The simulator's stop entry point goes
\* back to Standby, which clears _run.
BeginRun ==
  /\ pc = "run"
  /\ LET e    == currentSchedule
         old  == sched[e]
         last == old.repeat = 0
         upd  == [sched EXCEPT
                    ![e].completed = last,
                    ![e].repeat = IF old.repeat > 0 THEN old.repeat - 1
                                                    ELSE old.repeat]
     IN  /\ IF ~last /\ old.period > 0
            THEN SetTime(upd, e, NextActivation(old.time, old.period))
            ELSE sched' = upd /\ UNCHANGED scheduled
         /\ run' = (run /\ old.kind # "stop")
  /\ pc' = "executing"
  /\ UNCHANGED <<freed, nextId, currentSchedule, timeVars, aborting>>

\* The entry point returns; an event that became aperiodic is unscheduled,
\* the output fields are pushed and PostEventExecute is emitted.
EndRun ==
  /\ pc = "executing"
  /\ LET e == currentSchedule
     IN  IF ~sched[e].completed /\ sched[e].time # Never /\ sched[e].period = -1
         THEN SetTime(sched, e, Never)
         ELSE UNCHANGED <<sched, scheduled>>
  /\ pc' = "postExec"
  /\ UNCHANGED <<run, freed, nextId, currentSchedule, timeVars, aborting>>

\* The end of step(): the copy of the time is refreshed and a completed
\* schedule is deleted.
EndStep ==
  /\ pc = "postExec"
  /\ simulationTime' = simTime
  /\ freed' = IF sched[currentSchedule].completed
              THEN freed \union {currentSchedule} ELSE freed
  /\ currentSchedule' = None
  /\ pc' = Loop
  /\ UNCHANGED <<run, sched, scheduled, nextId, simTime, nextEventTime,
                 aborting>>

ThreadStep ==
  \/ StopSeen \/ Pause \/ WakeUp \/ AutoHold \/ Proceed
  \/ UpdateTime \/ KeepTime \/ RefusePast \/ ChangeTime \/ TimeChanged
  \/ Select \/ BeginRun \/ EndRun \/ EndStep

-----------------------------------------------------------------------------
(***************************************************************************)
(* Calls made by entry points and subscribers on the scheduler thread, or  *)
(* by the main thread while the simulation is in Standby. A call that the  *)
(* code refuses with an exception changes nothing. Clients leave two ids   *)
(* to the simulator's own start and stop events.                           *)
(***************************************************************************)

MayCall(call) == pc \in CallSites /\ call \in Calls
MayAdd == nextId + 2 < MaxEvents

AddImmediateEvent ==
  /\ MayCall("AddImmediateEvent")
  /\ MayAdd
  /\ Create("user", Immediate, 0, 0)
  /\ UNCHANGED <<pc, run, currentSchedule, timeVars, aborting>>

AddSimulationTimeEvent ==
  /\ MayCall("AddSimulationTimeEvent")
  /\ MayAdd
  /\ \E rel \in RelTimes, cycle \in Cycles, repeat \in Repeats :
       /\ ~ (repeat > 0 /\ (cycle < -1 \/ cycle = 0))
       /\ HasAbsoluteTime(rel)
       /\ Create("user", AbsoluteTime(rel), cycle, repeat)
  /\ UNCHANGED <<pc, run, currentSchedule, timeVars, aborting>>

\* AddMissionTimeEvent and AddEpochTimeEvent, for a date that is rel away:
\* they do not check that a repeated event has a cycle time.
AddDated(rel) ==
  /\ MayCall("AddDatedEvent")
  /\ MayAdd
  /\ HasAbsoluteTime(rel)
  /\ \E cycle \in Cycles, repeat \in Repeats :
       Create("user", AbsoluteTime(rel), cycle, repeat)
  /\ UNCHANGED <<pc, run, currentSchedule, timeVars, aborting>>

AddDatedEvent == \E rel \in RelTimes : AddDated(rel)

\* The event whose last activation is running is deleted right after it, even
\* if it has been moved and so is in the queue again: moving it is a call of
\* its own, after which nothing can be said of the queue.
MoveEvent(e, rel) ==
  /\ Found(e)
  /\ sched[e].kind = "user"
  /\ HasAbsoluteTime(rel)
  /\ MayCall(IF sched[e].completed THEN "SetTimeOfCompleted"
                                   ELSE "SetEventSimulationTime")
  /\ SetTime(sched, e, AbsoluteTime(rel))
  /\ UNCHANGED <<pc, run, freed, nextId, currentSchedule, timeVars, aborting>>

SetEventSimulationTime == \E e \in EventId, rel \in RelTimes : MoveEvent(e, rel)

SetEventCycleTime ==
  /\ MayCall("SetEventCycleTime")
  /\ \E e \in EventId, cycle \in Cycles :
       /\ ~ (cycle < -1 \/ cycle = 0)
       /\ Found(e)
       /\ sched[e].kind = "user"
       /\ sched' = [sched EXCEPT ![e].period = cycle]
  /\ UNCHANGED <<pc, run, scheduled, freed, nextId, currentSchedule, timeVars,
                 aborting>>

SetEventRepeat ==
  /\ MayCall("SetEventRepeat")
  /\ \E e \in EventId, repeat \in Repeats :
       /\ Found(e)
       /\ sched[e].kind = "user"
       /\ sched' = [sched EXCEPT ![e].repeat = repeat]
  /\ UNCHANGED <<pc, run, scheduled, freed, nextId, currentSchedule, timeVars,
                 aborting>>

\* After the erase the loop increments the erased iterator, which is
\* undefined: the build goes on or the process crashes.
RemoveEvent ==
  /\ MayCall("RemoveEvent")
  /\ \E e \in scheduled :
       /\ sched[e].kind = "user"
       /\ scheduled' = scheduled \ {e}
  /\ pc' \in {pc, "crashed"}
  /\ UNCHANGED <<run, sched, freed, nextId, currentSchedule, timeVars,
                 aborting>>

\* Simulator::Hold from the scheduler thread: the stop entry point is queued
\* for now, or for one nanosecond after now.
Hold ==
  /\ MayCall("Hold")
  /\ run
  /\ MayAdd
  /\ \/ Create("stop", Immediate, 0, 0)
     \/ HasAbsoluteTime(1) /\ Create("stop", AbsoluteTime(1), 0, 0)
  /\ UNCHANGED <<pc, run, currentSchedule, timeVars, aborting>>

\* Simulator::Run from Standby: the start entry point is queued, and the new
\* scheduler thread sets _run and reads the time.
Run ==
  /\ pc = "exited"
  /\ ~aborting
  /\ nextId + 1 < MaxEvents
  /\ Create("start", Immediate, 0, 0)
  /\ run' = TRUE
  /\ simulationTime' = simTime
  /\ pc' = "step"
  /\ UNCHANGED <<currentSchedule, simTime, nextEventTime, aborting>>

\* Simulator::Restore in Standby: the published state field simTime of the
\* time keeper takes its stored value; the queue is not part of the state.
Restore ==
  /\ pc = "exited"
  /\ simTime' \in RestoreTimes
  /\ UNCHANGED <<pc, run, queueVars, currentSchedule, simulationTime,
                 nextEventTime, aborting>>

\* Simulator::Abort from another thread: LeaveExecuting is emitted and
\* epLeaveExecuting clears _run under the lock, and notifies.
Abort ==
  /\ "Abort" \in Calls
  /\ pc \notin {"exited", "dead", "crashed"}
  /\ ~aborting
  /\ aborting' = TRUE
  /\ run' = FALSE
  /\ UNCHANGED <<pc, queueVars, currentSchedule, timeVars>>

UndatedCall ==
  \/ AddImmediateEvent \/ AddSimulationTimeEvent
  \/ SetEventSimulationTime \/ SetEventCycleTime \/ SetEventRepeat
  \/ RemoveEvent \/ Hold \/ SetSimulationTime \/ Run \/ Restore \/ Abort

ClientCall == UndatedCall \/ AddDatedEvent

Next == ThreadStep \/ ClientCall

Spec == Init /\ [][Next]_vars

(***************************************************************************)
(* The scheduler thread is a running OS thread, and the entry points it    *)
(* calls return: it keeps taking steps. Clients promise nothing.           *)
(***************************************************************************)
FairSpec == Spec /\ WF_vars(ThreadStep)

-----------------------------------------------------------------------------
(***************************************************************************)
(* What the properties below may need of the clients.                      *)
(***************************************************************************)

\* Clients call the scheduler only while its copy of the time is the time
\* keeper's, and no breakpoint moves the clock under the queue.
ClientsInSync ==
  /\ CallSites \intersect {"preChange", "postChange", "select"} = {}
  /\ RestoreTimes = {}

\* Furthermore no client takes the last event away between the step's first
\* look at the queue and the time keeper's.
ClientsLetStepsFinish ==
  /\ ClientsInSync
  /\ "preExec" \notin CallSites

-----------------------------------------------------------------------------
(***************************************************************************)
(* Properties.                                                             *)
(***************************************************************************)

\* The type invariant. In particular no activation time ever reaches
\* DURATION_MAX, so that the sums of Schedule::run and getAbsoluteTime do
\* not overflow.
TypeOK ==
  /\ pc \in Site \union {"step", "waiting", "run", "dead", "crashed"}
  /\ run \in BOOLEAN
  /\ sched \in [EventId -> [time : Time, period : Int, repeat : Int,
                            completed : BOOLEAN,
                            kind : {"none", "user", "start", "stop"}]]
  /\ scheduled \subseteq EventId
  /\ freed \subseteq EventId
  /\ nextId \in 0 .. MaxEvents
  /\ currentSchedule \in EventId \union {None}
  /\ simulationTime \in 0 .. DurationMax - 1
  /\ simTime \in 0 .. DurationMax - 1
  /\ nextEventTime \in 0 .. DurationMax - 1
  /\ aborting \in BOOLEAN

\* No event of the queue is behind the clock: whatever sequence of calls the
\* entry points make, the queue never holds an event whose time has gone by.
NoPastEvent ==
  \A e \in scheduled : sched[e].time \in {Immediate, Never}
                        \/ sched[e].time >= simTime

\* The clock never jumps over an event: when TimeKeeper changes the time, no
\* immediate event is pending and no queued event is due before the new time.
TimeNeverSkips ==
  [][simTime' # simTime =>
       \A e \in scheduled : sched[e].time = Never \/ sched[e].time >= simTime']_vars

\* The simulation time of the time keeper never goes back during execution.
TimeNeverGoesBack ==
  [][simTime' < simTime => pc = "exited"]_vars

\* An event is taken out of the queue exactly at the time it is scheduled
\* for, or as an immediate event: never early and never late.
RunsOnTime ==
  [][currentSchedule = None /\ currentSchedule' # None =>
       sched[currentSchedule'].time \in {Immediate, simTime}]_vars

\* Whatever the clients do, an event never runs before its time, and an
\* event set to Never does not run.
NeverEarly ==
  [][currentSchedule = None /\ currentSchedule' # None =>
       /\ sched[currentSchedule'].time # Never
       /\ sched[currentSchedule'].time <= simTime]_vars

\* The time keeper never finds the next event in the past, the condition on
\* which epUpdateSimulationTime throws on the scheduler thread.
NeverDies == pc # "dead"

\* However the clients move and re-time events, nothing in the queue is left
\* behind the clock, and the scheduler thread does not die of it.
QueueIsAhead == NoPastEvent /\ NeverDies

\* Whatever the time keeper is told, the clock stops at every event, and
\* whatever becomes of the queue each event runs when the clock is there.
StepsAreOnTime == TimeNeverSkips /\ RunsOnTime

\* Whatever the clients do and wherever they do it, no event runs early, and
\* the clock never goes back while the simulation executes.
TimeIsKept == NeverEarly /\ TimeNeverGoesBack

=============================================================================
