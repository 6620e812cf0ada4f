------------------------------ MODULE Colibry ------------------------------
(***************************************************************************)
(* A simulation with services of the colibry library: the meta scheduler,  *)
(* a Tracker that is an EventTrigger, a Tracker that is a SimControl, the  *)
(* Synchronizer and a field recorder, run by the loop of the SMP           *)
(* scheduler. Which of them are installed is chosen when the simulation is *)
(* built.                                                                  *)
(*                                                                         *)
(* The queue of the scheduler is never empty: one event executes an entry  *)
(* point of a model periodically. Calls on the services come from this     *)
(* entry point, from those of the schedules, and, in Standby, from the     *)
(* thread that assembles the simulation.                                   *)
(***************************************************************************)
EXTENDS MetaScheduler, Synchronizer, FieldRecorder

CONSTANTS
  Installations,  \* sets of services that simulations are built with
  TriggerAt,      \* when the EventTrigger evaluates: by an "event" of the
                  \* scheduler, or at each "change" of the simulation time
  Emitted,        \* the events whose names the EventTrigger was given
  Values,         \* values of the fields in the expressions
  MaxTime,        \* bound: last simulation time
  MaxCalls,       \* bound: calls of the clients
  MaxRuns         \* bound: calls of Simulator::Run

Service == {"meta", "trigger", "control", "synchronizer", "recorder"}
Tracker == {"trigger", "control"}
Condition == {"true", "becomeTrue", "becomeFalse", "changed"}

\* What events of the scheduler execute besides schedules.
OtherJob == {"none", "model", "evaluate", "step", "record", "start", "stop"}

ASSUME ColibryAssumption ==
  /\ \A i \in Installations : i \subseteq Service
  /\ TriggerAt \in {"event", "change"}
  /\ DOMAIN Emitted \subseteq Condition
  /\ \A c \in DOMAIN Emitted : Emitted[c] \in Event
  /\ Values \subseteq Nat /\ 0 \in Values
  /\ MaxTime \in Nat /\ MaxCalls \in Nat /\ MaxRuns \in Nat
  \* Schedules are named apart from the other entry points, there is room for
  \* the events that components schedule in connect, and at most one tracker
  \* is evaluated at each change of the time.
  /\ Schedules \intersect OtherJob = {} /\ MaxEvents >= 4
  /\ TriggerAt = "event" \/ \A i \in Installations : ~ Tracker \subseteq i

VARIABLES
  installed,  \* the services of this simulation
  state,      \* Simulator::_state
  pc,         \* where the scheduler thread is in its loop
  field,      \* the field in the expression of each tracker
  tracker,    \* _out and _changed of each tracker
  emitting,   \* the conditions the EventTrigger has still to look at
  announced,  \* history: whether becomeTrue was emitted after becomeFalse
  holdAt,     \* history: when a SimControl asked for the hold to come; None
  calls, runs \* number of calls of the clients and of Run

trackerVars == <<field, tracker, emitting, announced, holdAt>>
vars == <<metaVars, syncVars, trackerVars, recorderVars, installed, state, pc, calls, runs>>

\* The period at which the simulation has its recorder called.
RecordPeriod == 1

\* The events that the components schedule in connect, or have scheduled.
Connected(services) ==
  LET model   == Added(Empty, "model", 0, 1, -1)
      trigger == IF "trigger" \in services /\ TriggerAt = "event"
                 THEN Added(model, "evaluate", 0, 1, -1) ELSE model
      pace    == IF "synchronizer" \in services
                 THEN Added(trigger, "step", 0, 1, -1) ELSE trigger
  IN IF "recorder" \in services
     THEN Added(pace, "record", 0, RecordPeriod, -1) ELSE pace

Init ==
  /\ installed \in Installations
  /\ MetaInit(Connected(installed)) /\ SyncInit
  /\ IF "recorder" \in installed THEN RecorderInit ELSE RecorderAbsent
  /\ state = IF "recorder" \in installed THEN "Initialising" ELSE "Standby"
  /\ pc = "exited"
  /\ field = [t \in Tracker |-> 0]
  /\ tracker = [t \in Tracker |-> [out |-> 0, changed |-> FALSE]]
  /\ emitting = <<>> /\ announced = FALSE /\ holdAt = None
  /\ calls = 0 /\ runs = 0

-----------------------------------------------------------------------------
(***************************************************************************)
(* The trackers.                                                           *)
(***************************************************************************)

\* Faulty variant: the result is stored before it is compared.
Evaluated_StoredFirst(t) ==
  [tracker EXCEPT ![t] = [out |-> field[t], changed |-> FALSE]]

\* Tracker::epEvaluate, before onEvaluate.
Evaluated(t) ==
  [tracker EXCEPT ![t] = [out |-> field[t], changed |-> field[t] # @.out]]

\* The EventTrigger evaluates; onEvaluate looks at the conditions in order.
EvaluateTrigger ==
  /\ tracker' = Evaluated("trigger")
  /\ emitting' = <<"true", "becomeTrue", "becomeFalse", "changed">>

Holds(c) ==
  LET t == tracker["trigger"]
  IN CASE c = "true"        -> t.out # 0
       [] c = "becomeTrue"  -> t.changed /\ t.out # 0
       [] c = "becomeFalse" -> t.changed /\ t.out = 0
       [] c = "changed"     -> t.changed

\* EventTrigger::onEvaluate, one condition: its event is emitted if it has one.
EmitNext ==
  /\ emitting # <<>>
  /\ LET c == Head(emitting)
     IN /\ IF Holds(c) /\ c \in DOMAIN Emitted THEN Emit(Emitted[c])
           ELSE UNCHANGED <<queue, object, index, subscribed, off, phase>>
        /\ announced' = IF ~ Holds(c) THEN announced
                        ELSE CASE c = "becomeTrue"  -> TRUE
                               [] c = "becomeFalse" -> FALSE
                               [] OTHER             -> announced
  /\ emitting' = Tail(emitting)
  /\ UNCHANGED <<current, schedTime, now, notified, syncVars, recorderVars,
                 field, tracker, holdAt, installed, state, pc, calls, runs>>

\* Faulty variant: Simulator::Hold without its argument, which is not immediate.
Hold_Later == Added(queue, "stop", schedTime + 1, 0, 0)

\* Simulator::Hold(true), in the state Executing.
Hold == Added(queue, "stop", Immediate, 0, 0)

\* The SimControl evaluates; onEvaluate holds the simulation if the result
\* changed and is not zero.
EvaluateControl ==
  LET t == Evaluated("control")["control"]
  IN /\ tracker' = Evaluated("control")
     /\ IF t.changed /\ t.out # 0 /\ state = "Executing"
        THEN /\ queue.next < MaxEvents
             /\ queue' = Hold
             /\ holdAt' = now
        ELSE UNCHANGED <<queue, holdAt>>

-----------------------------------------------------------------------------
(***************************************************************************)
(* The loop of the scheduler. It ends in Standby, and Run is called again  *)
(* once it has ended (RunControl has the other cases).                     *)
(***************************************************************************)
loopRest == <<installed, calls, recorderVars>>
quietMeta == <<object, index, notified, subscribed, off, phase>>

\* Simulator::Initialise executes the entry points that were added for it; an
\* exception of one of them leaves the simulator in the state Initialising.
Initialise ==
  /\ state = "Initialising" /\ ~ file.open
  /\ RecorderOpens
  /\ state' = IF InitFails THEN "Initialising" ELSE "Standby"
  /\ UNCHANGED <<metaVars, syncVars, trackerVars, pc, runs, installed, calls>>

\* Simulator::Exit disconnects the components.
ExitSimulation ==
  /\ state = "Standby" /\ pc = "exited" /\ "recorder" \in installed
  /\ Close
  /\ state' = "Exiting"
  /\ UNCHANGED <<metaVars, syncVars, trackerVars, pc, runs, installed, calls>>

\* The event SMP_LeaveExecuting, on the thread of the scheduler.
LeaveExecuting == IF "recorder" \in installed THEN Flush ELSE UNCHANGED recorderVars

\* Simulator::Run: the start event, and EnterExecuting, which starts the
\* thread of the scheduler and then reaches the Synchronizer.
Run ==
  /\ state = "Standby" /\ pc = "exited" /\ starting = "no"
  /\ runs < MaxRuns /\ queue.next < MaxEvents
  /\ queue' = Added(queue, "start", Immediate, 0, 0)
  /\ state' = "Executing" /\ pc' = "step"
  /\ schedTime' = now
  /\ runs' = runs + 1
  /\ IF "synchronizer" \in installed THEN EnterExecuting ELSE UNCHANGED syncVars
  /\ UNCHANGED <<current, now, quietMeta, trackerVars, loopRest>>

\* The time of the next event, as the scheduler tells it to the time keeper.
NextTimeIs(t) ==
  \E e \in queue.waiting :
    /\ IsHead(queue, e)
    /\ t = IF queue.event[e].time = Immediate THEN schedTime ELSE queue.event[e].time

\* The time keeper moves the time to that of the next event, or throws on the
\* scheduler thread if it is past, which ends the process.
UpdateTime ==
  /\ pc = "step" /\ state = "Executing"
  /\ \E t \in {queue.event[e].time : e \in queue.waiting} \union {schedTime} :
       /\ NextTimeIs(t) /\ t <= MaxTime
       /\ now' = IF t > now THEN t ELSE now
       /\ pc' = IF t > now THEN "change" ELSE IF t = now THEN "preExec" ELSE "dead"
  /\ UNCHANGED <<queue, current, schedTime, quietMeta, syncVars, trackerVars,
                 state, runs, loopRest>>

\* PostSimTimeChange reaches the trackers that are subscribed to it.
ChangeTime ==
  /\ pc = "change"
  /\ IF "trigger" \in installed /\ TriggerAt = "change"
     THEN EvaluateTrigger /\ UNCHANGED <<queue, holdAt>>
     ELSE /\ UNCHANGED emitting
          /\ IF "control" \in installed THEN EvaluateControl
             ELSE UNCHANGED <<queue, tracker, holdAt>>
  /\ pc' = "preExec"
  /\ UNCHANGED <<current, schedTime, now, quietMeta, syncVars, field, announced,
                 state, runs, loopRest>>

\* PreEventExecute reaches the meta scheduler after the time keeper.
PreExec ==
  /\ pc = "preExec" /\ emitting = <<>>
  /\ IF "meta" \in installed THEN epPreEpExec ELSE UNCHANGED <<index, notified>>
  /\ pc' = "select"
  /\ UNCHANGED <<queue, current, schedTime, now, object, subscribed, off, phase,
                 syncVars, trackerVars, state, runs, loopRest>>

\* Scheduler::Schedule::run, before the entry point.
Updated(q, e) ==
  LET r    == q.event[e]
      done == r.repeat = 0
      left == [q EXCEPT !.event[e] =
                 [r EXCEPT !.completed = done, !.repeat = IF @ > 0 THEN @ - 1 ELSE @]]
  IN IF ~ done /\ r.period > 0 THEN SetTime(left, e, r.time + r.period) ELSE left

\* The step takes the next event if it is due, and the entry point begins.
Execute ==
  /\ pc = "select"
  /\ schedTime' = now
  /\ \E e \in queue.waiting :
       /\ IsHead(queue, e)
       /\ LET job == queue.event[e].job
              due == queue.event[e].time # Never /\ queue.event[e].time <= now
          IN IF ~ due
             THEN pc' = "step" /\ UNCHANGED <<queue, current, syncVars, tracker, emitting,
                                              state, recorderVars>>
             ELSE /\ current' = e
                  /\ queue' = Updated([queue EXCEPT !.waiting = @ \ {e}], e)
                  /\ pc' = "run"
                  /\ state' = IF job = "stop" THEN "Standby" ELSE state
                  /\ IF job = "evaluate" THEN EvaluateTrigger ELSE UNCHANGED <<tracker, emitting>>
                  /\ IF job = "step" THEN epStepCalled ELSE UNCHANGED syncVars
                  /\ CASE job = "record" -> Record(schedTime')
                       [] job = "stop"   -> LeaveExecuting
                       [] OTHER          -> UNCHANGED recorderVars
  /\ holdAt' = IF state' = "Standby" THEN None ELSE holdAt
  /\ UNCHANGED <<now, quietMeta, field, announced, runs, installed, calls>>

\* The entry point returns: an aperiodic event that will be activated again is
\* put to sleep. PostEventExecute reaches the meta scheduler. A completed
\* event is deleted, even if the entry point has put it back in the queue.
Finish ==
  /\ pc = "run" /\ emitting = <<>> /\ step = "no"
  /\ LET r == queue.event[current]
     IN /\ queue' = IF ~ r.completed /\ r.time # Never /\ r.period = -1
                    THEN SetTime(queue, current, Never) ELSE queue
        /\ pc' = IF r.completed /\ current \in queue.waiting THEN "dead" ELSE "step"
  /\ IF "meta" \in installed THEN epPostEpExec ELSE UNCHANGED notified
  /\ schedTime' = now
  /\ current' = None
  /\ UNCHANGED <<now, object, index, subscribed, off, phase, syncVars,
                 trackerVars, state, runs, loopRest>>

\* The thread of the scheduler returns.
Exit ==
  /\ pc = "step" /\ state = "Standby"
  /\ pc' = "exited"
  /\ UNCHANGED <<metaVars, syncVars, trackerVars, state, runs, loopRest>>

-----------------------------------------------------------------------------
(***************************************************************************)
(* The clients.                                                            *)
(***************************************************************************)

\* Where client code runs.
InClient ==
  \/ pc = "exited" /\ state = "Standby"
  \/ pc = "run" /\ queue.event[current].job \in Schedules \union {"model"}

CallMeta ==
  /\ "meta" \in installed /\ InClient
  /\ Call
  /\ UNCHANGED <<current, schedTime, now, notified, trackerVars, recorderVars>>

WriteField ==
  /\ InClient
  /\ \E t \in Tracker \intersect installed, v \in Values :
       v # field[t] /\ field' = [field EXCEPT ![t] = v]
  /\ UNCHANGED <<metaVars, tracker, emitting, announced, holdAt, recorderVars>>

\* Links to the port of the recorder are made and removed.
LinkField ==
  /\ "recorder" \in installed /\ InClient
  /\ \E f \in Field : FieldHolderConnect(f) \/ FieldHolderDisconnect(f)
  /\ UNCHANGED <<metaVars, trackerVars>>

\* An entry point, or another thread, holds the simulation. What the latter
\* may disturb is the step that has looked at the queue and not yet taken the
\* next event.
HoldSimulation ==
  /\ state = "Executing" /\ (InClient \/ pc \in {"preExec", "select"})
  /\ queue.next < MaxEvents
  /\ queue' = Hold
  /\ UNCHANGED <<current, schedTime, now, quietMeta, trackerVars, recorderVars>>

Client ==
  /\ calls < MaxCalls
  /\ calls' = calls + 1
  /\ CallMeta \/ WriteField \/ LinkField \/ HoldSimulation
  /\ UNCHANGED <<syncVars, installed, state, pc, runs>>

Synchronize ==
  /\ "synchronizer" \in installed
  /\ SyncStep \/ Tick
  /\ UNCHANGED <<metaVars, trackerVars, state, pc, runs, loopRest>>

Loop == UpdateTime \/ ChangeTime \/ EmitNext \/ PreExec \/ Execute \/ Finish \/ Exit

Next == Initialise \/ Run \/ ExitSimulation \/ Loop \/ Client \/ Synchronize

Spec == Init /\ [][Next]_vars

\* The threads go on, and so does the host's clock.
FairSpec == Spec /\ WF_vars(Loop) /\ WF_vars(Synchronize)

-----------------------------------------------------------------------------
(***************************************************************************)
(* Properties.                                                             *)
(***************************************************************************)
Running(s) == pc = "run" /\ queue.event[current].job = s

\* The schedule that MetaScheduler::epPreEpExec takes for the one whose
\* execution begins, by looking at the head of the queue, is the one that is
\* executed, unless a stop came before it in between. (An immediate schedule
\* that its own entry point submits again is no longer the one of its event.)
NotifiedIsTheOneRun ==
  pc = "run" /\ "meta" \in installed /\ current \in DOMAIN index =>
    \/ notified = index[current]
    \/ queue.event[current].job = "stop"

\* A schedule that an event has deactivated is not executed before an event
\* activates it, or a new time is submitted for it, whatever else is submitted
\* and however its deactivation falls with its own activations.
DeactivatedIsQuiet ==
  [][\A s \in Periodic : ~ Running(s) /\ Running(s)' => s \notin off]_vars

\* A schedule that an event has activated is executed at the times that it
\* would have had, had it been active since the start, for as long as its time
\* and cycle time are not changed (the comment of Schedule::epActivate).
KeepsPhase ==
  [][\A s \in Periodic :
       ~ Running(s) /\ Running(s)' /\ phase[s] # None =>
         now' % queue.event[current'].period = phase[s]]_vars

\* Events activate and deactivate periodic schedules without a trace of when.
EventsCommandSchedules == DeactivatedIsQuiet /\ KeepsPhase

\* Between evaluations, the last of the events becomeTrue and becomeFalse that
\* the EventTrigger has emitted says what the last result was.
AnnouncementsAgree ==
  emitting = <<>> => (announced <=> tracker["trigger"].out # 0)

\* Once the expression of a SimControl has become true, no entry point of a
\* model is executed before the simulation is held, at the time of the change.
NothingRunsAfterTheHold ==
  [][holdAt # None =>
       /\ now' = holdAt
       /\ pc' = "run" => queue'.event[current'].time = Immediate]_vars

\* A hold that a SimControl has asked for takes place.
HoldIsServed == holdAt # None ~> (state = "Standby" \/ pc = "dead")

\* It takes place, and before anything else.
HoldIsPrompt == NothingRunsAfterTheHold /\ HoldIsServed

\* Once a simulation has been held nothing of what was recorded is left in the
\* process. The rows are one recording period apart, also across the holds,
\* and their cells are those of the columns, unless the fields of a csv
\* recorder are changed after the columns were made.
RecordsAreKept ==
  /\ pc = "exited" => file.saved = Len(file.rows)
  /\ \A i \in 1 .. Len(file.rows) - 1 :
       file.rows[i + 1].time = file.rows[i].time + RecordPeriod
  /\ format = "hdf5" \/ ~ relinked =>
     \A i \in DOMAIN file.rows : file.rows[i].columns = file.header

=============================================================================
