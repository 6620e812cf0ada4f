# Verification of the Simphonie simulation kernel

Simphonie is a C++ implementation of the ECSS SMP simulation standard: a kernel
that runs models (components with entry points) along a simulated time, and
services around it. This directory holds TLA+ models of its concurrent and
stateful parts, TLC configurations that check them on small instances, and
TLAPS proofs of the main results for all values of the constants. Paths below
are relative to `src/`.

Run a configuration with `tlc -config Barrier.cfg MCBarrier`, a proof with
`tlapm ConcurrencyProofs.tla`. `PROJECT.json` lists every run, the lines that each
definition translates, the hazards and which property covers them, and for each
property a *mutant*: a definition with a plausible bug (the `..._Something`
operators that the modules call "faulty variants") under which the property
must fail.

## 1. Inventory

| Part | State | Operations | Talks to | Modelled by |
|---|---|---|---|---|
| **Scheduler** `kern/src/Scheduler.cpp` | ordered queue of `Schedule` objects, the current one, its copy of the time, `_run`, the thread | `Add*Event`, `SetEvent*`, `RemoveEvent`, `step`, `run` | emits Pre/PostEventExecute, reads the time keeper, calls `Hold` when nothing is left | `Scheduler`, `MissionTime`, `RunControl` |
| **TimeKeeper** `kern/src/TimeKeeper.cpp` | simulation time, epoch offset, mission start | `SetSimulationTime`, `SetEpochTime`, `SetMission*`; advances at PreEventExecute | scheduler, event manager | `Scheduler`, `MissionTime` |
| **Simulator** `kern/src/Simulator.cpp` | state of the simulation, component trees, factories, `_waitingStop`, identity of the scheduler thread | life cycle (`Publish` to `Exit`), `LoadLibrary`, `Run`, `Hold`, `Abort`, `Store`, `Restore` | emits Enter/Leave events, everything | `RunControl`, `Lifecycle`, `LuaBuilder` (factories), `Storage` |
| **EventManager** `kern/src/EventManager.cpp` | subscribers of each event, `_emitting`, deferred requests | `QueryEventId`, `Subscribe`, `Unsubscribe`, `Emit` | executes entry points of everybody | `EventManager` |
| **Thread, Barrier** `sys/src/` | running flag; counters, generation | start, join; wait, cancel, reset, setThreshold | | `RunControl`; `Barrier` |
| **SimSync** `mt/src/` | barrier, exchanged data, exit flag | `sync` on both sides, `run`, `leaverun`, `exit`, `abort`, `store`, `restore` | two simulators and their scheduler threads | `SimSync`, `DataShare` |
| **Publication, TypeRegistry** `kern/src/` | fields and properties of a component, registered types, guard against recursion | `PublishField`, `PublishArray`, `PublishProperty`, `Unpublish`, `Add*Type` | components that are published | `TypeRegistry`, `Publication` |
| **Storage** `kern/src/Storage*.cpp` | the file, the state of its parser | `store`, `restore` | the component tree | `Storage` |
| **MetaScheduler** `colibry/src/MetaScheduler.cpp` | schedules by event id, pending changes of cycle times, the schedule that runs | setters and `Submit`, activation, deactivation and cycle changes by events | scheduler, event manager | `MetaScheduler`, `Colibry` |
| **Tracker, EventTrigger, SimControl** `colibry/src/` | last result of an expression and whether it is new | evaluation, by an event of the scheduler or at time changes | event manager, `Hold` | `Colibry` |
| **Synchronizer** `colibry/src/Synchronizer.cpp` | the next time of the host's clock to wait for | `epInit`, `epStep` | threads of Run and of the scheduler | `Synchronizer`, `Colibry` |
| **Field recorders** `colibry/src/FieldRecorder*.cpp` | fields of the port, columns, the file | `init`, `step`, `flush`, `disconnect` | life cycle, LeaveExecuting | `FieldRecorder`, `Colibry` |
| **RestService** `rest/src/` | field handlers, `_simIsRunning` | HTTP requests on server threads that queue updates for the simulation thread | scheduler, event manager, run control | `RestService` |
| **FMI** `fmi/src/` | a unit that is imported; a simulation that is exported | `fmi2...` functions; `configure`, `init`, `doStep` | host thread and scheduler thread; the unit | `FMILoad`, `FMIBridge` |
| **Lua front end** `lua/src/` | the configuration table | `setConfiguration`, `configure`, `connect`; Lua models publish fields | life cycle, link registry, publications | `LuaBuilder`, `Publication`, `Lifecycle` |
| **LinkRegistry** `kern/src/LinkRegistry.cpp` | counts of links | `AddLink` (nobody removes links) | builder | `LuaBuilder` |
| Logger, LoggerAsync, Resolver, units, SchedulerTracker, umdl, sys helpers | | | | not modelled (section 8) |

How they interact. There is one *scheduler thread* per run. It takes the first
event of the queue, emits PreEventExecute (on which the time keeper moves the
clock, emitting Pre/PostSimTimeChange around the change), executes the entry
point, emits PostEventExecute and reschedules. All of that code runs on the
scheduler thread and may call the scheduler, the simulator and the event manager
back. The main program, the HTTP threads of the REST service and the host of an
exported unit are further threads that run, hold and abort the simulation and add events. SimSync adds a
second simulator with a scheduler thread of its own. Between the threads there
are a mutex in the scheduler, one in the event manager, one in the simulator
(for `_waitingStop` only), one in the barrier, and those of the REST handlers;
the state of the simulator, `_run`'s first assignment and the iteration of
`Emit` are protected by none of them.

What is hard, and therefore what the properties are about:

- *call-backs in the middle of a step*: the scheduler and the time keeper each
  hold a copy of the time, and client code runs while they differ;
- *arithmetic on durations*: activation times, periods, repeat counts, the value
  -1 (never) and the immediate marker share one 64 bit integer, and dates are
  given in scales that may change;
- *stopping*: the state, `_run`, the queue and the thread change one after the
  other, with other threads (and the next run) in between;
- *lost wake-ups* in `Hold`, in the master's wait for the slave, and in requests
  that wait for an event the end of the run has overtaken;
- *reuse*: the barrier used round after round, the simulator run after run, the
  recorder and the pace over holds;
- *mutation while iterating* in the event manager, nested or concurrent;
- *components that act while they are brought up*: they add others, publish,
  run, exit or throw in the middle of the walks of Publish, Configure, Connect
  and Exit;
- *state machines of others*: an FMI unit or an FMI host, and a breakpoint file
  that another process wrote.

## 2. Modules

| Module | Role |
|---|---|
| `Scheduler` | the queue, `step` cut where other code runs, time keeper, client calls |
| `MissionTime` (extends `Scheduler`) | epoch and mission scales, events dated in them |
| `MCScheduler`, `MCSchedulerPlan` | values for TLC; the second adds history variables (what was asked, what was run) to `MissionTime` |
| `SchedulerProofs` | theorems on `Scheduler`, `MissionTime` and `MCSchedulerPlan` |
| `RunControl`, `MCRunControl`, `RunControlProofs` | Run, Hold, Abort and the scheduler threads |
| `AbstractBarrier` | what a reusable, cancellable barrier promises |
| `Barrier`, `MCBarrier` | `sys::Barrier`, and its refinement of `AbstractBarrier` |
| `EventManager`, `MCEventManager` | subscriptions and emissions |
| `ConcurrencyProofs` | theorems on `Barrier` and `EventManager` |
| `Lifecycle`, `MCLifecycle`, `LifecycleProofs` | the component trees through Publish, Configure, Connect, Initialise, Reconnect and Exit |
| `DataShare`, `SimSync`, `MCSimSync`, `SimSyncProofs` | two simulators over `Barrier` (`INSTANCE Barrier`, the same actions) |
| `MetaScheduler`, `Synchronizer`, `FieldRecorder` | services of colibry, each with its operations |
| `Colibry`, `MCColibry`, `ColibryProofs` | these and the trackers in simulations that run: the loop of the scheduler calls them |
| `TypeRegistry`, `Publication`, `LuaBuilder`, `Storage`, `MCStorage` | one on top of the other: types, fields, a tree built from a configuration, its breakpoints |
| `FMILoad`, `FMIBridge`, `MCFMI`, `FMIProofs` | a unit that is imported, in a simulation that is exported |
| `RestService`, `MCRestService` | HTTP threads beside the scheduler thread |
| `FrontEndProofs` | theorems on `TypeRegistry`, `Publication`, `LuaBuilder`, `Storage`, and on `RestService` |

### Scheduler and MissionTime

`pc` is the place of the scheduler thread in `run`/`step`, cut where client code
may run: `exited` (Standby), `step`, `waiting`, `preExec`, `preChange`,
`postChange`, `select`, `run`, `executing`, `postExec`. `sched` holds the
`Schedule` objects by id, `scheduled` the ids in the multiset and `Before` is its
`operator<`; elements that compare equal may come in either order. `freed` are
the deleted objects, so that a use after free is a state predicate.
`simulationTime` is the scheduler's copy of the time and `simTime` the time
keeper's. One action per operation: `Proceed`/`AutoHold`/`Pause` (first
critical section), `UpdateTime`, `ChangeTime`, `TimeChanged`, `RefusePast` (the
time keeper's subscriber), `Select`, `BeginRun`, `EndRun`, `EndStep`
(`Schedule::run` and the end of the step), and `AddImmediateEvent`,
`AddSimulationTimeEvent`, `SetEvent...`, `RemoveEvent`, `Hold`,
`SetSimulationTime`, `Run`, `Restore`, `Abort`. `CallSites` says at which of
these places clients call, `Calls` which calls they make.

Durations are integers up to `DurationMax`; the range check of
`getAbsoluteTime` and the guard of `Schedule::run` are modelled, so "no sum
overflows" is the statement that no time reaches `DurationMax`.

`MissionTime` adds the two offsets of the time keeper. A dated event is one that
is added or moved by the time that is left until its date (`Until`), which is
the `AddDated` and `MoveEvent` of `Scheduler`: until a date is given that has
passed, which the history variable `late` records, `MissionTime` implements it,
and what is proved of one holds of the other. `RelTimes` bounds how far ahead of
the clock a date lies; every date that has passed is taken, as in the code, which
does not look (section 6).

### RunControl

The interleaving of client threads (`Users`) with scheduler threads
(`1..MaxThreads`, one per start). `pc` says where each of them is; `state`,
`run`, `th`, `schedulerId`, `waitingStop` are the fields of the same names. The
queue is reduced to the kinds of its events: immediate ones (`now`, in order)
and the others (`later`, inserted anywhere, since time is abstracted). A thread
that joins inside `epEnterExecuting` holds the scheduler's mutex
(`MutexFree`); all other critical sections are one action. A second thread that
joins the scheduler thread while a first one does gets an exception out of
`Abort` (`AbortThrows`): two joins of one thread are undefined, and this is what
the C++ library of the build does.

### AbstractBarrier and Barrier

`AbstractBarrier` has the set of threads inside and the set that may leave.
`Barrier` has the fields of the class; `ticket[t]` is the generation that thread
`t` remembers inside `wait`. `wait` is cut at its only blocking point, into
`Arrive` and `Leave`. The refinement maps `inside` to the threads with a ticket
and `open` to those whose condition is true.

### EventManager

`frames[t]` is the stack of emissions of thread `t` (an event and how many
subscribers were executed), `place[t]` whether the thread is in client code
(outside, or in a subscriber), before the look-up, or in the walk. Changing the
collection under a walk, or the map during a look-up, is undefined behaviour in
C++: it sets `broken` and stops the model. `wanted`, `repeated` and `overlapped`
are history variables: who asked to be subscribed, who did so again before the
first request was served, and whether an emission has ended while another one was
under way. `ServeAll` serves the deferred requests in their
order, as the loop at the end of `Emit` does; it is a recursive function, so that
it can be reasoned about.

### Lifecycle

The recursion of `doPublish`, `doConfigure`, `doConnect` and `doDisconnect`, the
loops of the calls and the events of `setState` are a stack of tasks for each
actor, `todo[actor]`; a task is one segment of the C++ call stack (`for`,
`walk`, `phase`, `enter`, `setState`, `assign`, ...). The four recursive
functions are the same code for four phases: `BeginPhase` is their first half
(catch up with the previous phases, or refuse), `ProceedWith` their second half
(the component's own code, then a walk over each container). The task `Client` is
code of a component or subscriber; while it is on top of the stack the actor may
call the simulator (a nested call pushes its tasks above), return, or throw,
which drops the stack. `comp`, `members` and `home` are the trees (`home` is the
container of each component), `toInit` is `_initEntryPoints`. Service and model
trees and the containers of a composite are seen as one set of places. The
collection that is iterated is not part of the repository, so whether a walk
still meets what was added while it was under way is left open (`WalkOn` and
`WalkEnds` are both enabled). History variables: `late` are the components
added since Connect began, `own` those connected by who added them, `overlap` says
that a call that may change the state came during another one. `RunControl` has
what Run, Hold and Abort do to the scheduler; here they only change the state.

### SimSync and DataShare

The two scheduler threads, the thread that runs the master, and the barrier's
own variables. The simulators are reduced to state, scheduler thread and
pending stop. `data[s]` holds the round at which the side's data were published,
and `loaded[s]` which bytes have come to which input: `DataShare` has what
`retrieveData` makes of the outputs and `loadData` of the buffer, with the sizes
of the fields as constants; `Stored[n]` is the buffer after the first `n` fields. `front` is the handler that the thread of the master
is in: run, store, restore, exit or abort.
`early` records that the master's thread got to its first sync, or to its stop,
before the front end had reset the barrier and started the slave: the scheduler
subscribes to EnterExecuting before SimSyncMaster does, so nothing excludes it.

### MetaScheduler, Synchronizer, FieldRecorder, Colibry

`MetaScheduler` keeps the SMP scheduler as one record, `queue`, and its calls as
operators from record to record, because its handlers make several of them.
`object` are the schedules with the attributes that were set and not submitted
(`dirty`), `index` is `_schedIndex`. `Colibry` is the loop: `UpdateTime` (time
keeper), `ChangeTime` (trackers that are subscribed to the change), `EmitNext`
(the conditions of the EventTrigger one after the other, with the handlers of
each event), `PreExec`, `Execute`, `Finish`. Which services a simulation has is
chosen in `Init` (`Installations`): the services do not share state, so that one
or two at a time are enough. `Synchronizer` has two threads in its entry points
and the clock of the host (`Tick`), `goalSeen` is what a step read before it
sleeps. `FieldRecorder` has the rows of the file and how many of them have left
the process.

### TypeRegistry, Publication, LuaBuilder, Storage

They are extended one by the other, and run as one system: a configuration is
loaded, components publish fields with every one of the publication calls and in
every order, the builder sets the values, connects and links, and the tree is
stored. The writer may die after any line; a new process, whose tree may lack a
component or a field, reads the file. The states of the parser between two lines
are those of the code (`NEXT_IS_CONT`, `CONT_CONTENT`, ...); those inside a line
are abstracted to what they make of a name. Only the tree is read back: a field
that is restored gets the value "undefined" (section 6). `denied` and `escaped`
are history variables for the guard against recursion.

### FMILoad, FMIBridge

`FMILoad` has, as operators, the handlers of a model that drives a unit, and the
unit as the state machine that the FMI standard defines, with each status that a
step may return; after `fmi2Pending` the unit is `stepInProgress` until it
answers by itself (`StepFinished`). `misuse` are the states of the unit in which a
call came that the standard forbids there, plus "set" for a get after a set with
no step in between. `FMIBridge` is a simulation that is itself a unit: the thread
of the host in the `fmi2` functions, the scheduler thread, and the wait of
`DoStep`. The host that runs the simulation joins the previous scheduler thread
(`host = "joining"`) with the mutex that this thread needs before it returns
(`ThreadReturns`). One of its models is the `FMILoad`.

### RestService

Each HTTP thread (`pc[w]`) handles one request at a time: reading and setting a
field through a `FieldHandler`, scheduling an entry point, run, hold, store,
restore, exit, abort. `handler[w]` is the handler object of the request, and
`Gone` marks a queued event whose handler was destroyed. A run that is started
while the last scheduler thread has not returned joins it with the mutex held, as
in `RunControl`; an exit stops the server on one of its own threads, which may
never come back (`ServerStops` is not fair). All fields are one
array of two elements that a model writes one after the other, so that a torn
read is visible. Durations are numbers from `-Half` to
`Half - 1` (in the code, `Half` is 2^63). `raced` tells whether the scheduler thread
was in its loop when a handler was updated by an HTTP thread.

## 3. Runs

| Run | What it asks | Bounds |
|---|---|---|
| `sched_sequential` | clients that call where the clocks agree: queue never behind the clock, time keeper never throws (`QueueIsAhead`), clock stops at every event and every event is on time (`StepsAreOnTime`) | 4 events, times 0..3 |
| `sched_anywhere` | clients that call from every call-back, remove, restore, abort, change `autoStop`: `TypeOK`, no event early and no clock backwards (`TimeIsKept`) | 4 events, times 0..2 |
| `sched_plan` | each event runs exactly at the dates that its calls define, in any scale (`RunsAsPlanned`), all of them, and then the run stops by itself (`RunCompletesThePlans`), until a date is given that has passed (`late`) | 4 events, times 0..4, one change of a scale or move |
| `run_control` | one scheduler thread at a time, Standby is quiet and the scheduler never waits for itself (`HoldIsSafe`), abort is final, runs end and holders are released (`RunAndHoldEnd`, with the exceptions of section 6) | 2 clients, 3 threads, 5 calls |
| `barrier` | counters agree with the threads, refinement of `AbstractBarrier` (`KeepsPromise`), whoever completed a round gets out (`OpenedLeave`) | 3 threads, 6 generations |
| `event_manager` | deferring protects the walks; no request lost or reordered, nor doubled unless it was repeated while deferred (`RequestsTakeEffect`); deferred requests are served | 2 threads, 2 events, 2 subscribers, depth 2, 6 calls |
| `lifecycle` | parents ahead of their children (`ParentsFirst`); `PhasesAreComplete`: Connect catches up with what was skipped or interrupted, Standby means connected, entry points initialise once, an Exit that ends leaves nothing connected | 5 components, 3 actors, 2 counted calls |
| `simsync` | data of this round or the next, to the right fields (`DataAreShared`), slave follows the master, no sync and no Hold blocks (`NobodyIsLeftWaiting`) | 2 runs, 3 rounds each |
| `colibry` | schedules obey the events and keep their phase (`EventsCommandSchedules`), the executed schedule is the one notified, `AnnouncementsAgree`, `HoldIsPrompt`, `NoDrift`, `RecordsAreKept` | 6 events, times 0..3, 3 calls, 2 runs, clock of the host to 7 |
| `storage` | `FieldsKnowTheirType`, `GuardIsForRecursion`, `ConfigurationIsApplied`, and the tree of a breakpoint, but no value, is read back (`OnlyTheTreeIsReadBack`) | 3 configurations, 3 calls of the components, one file, one restart |
| `fmi` | steps execute what is due in them, and something beyond only when the clock is ahead of the host (`StepsExecuteWhatIsDue`); they return, but for `refused` and `RestartedTooEarly`; the host is alone between them; the imported unit is called as the standard says but for four named calls, and time agrees with it (`UnitIsInStep`) | communication points to 4, steps of 1 and 2, one hold by a model |
| `rest` | reads are whole and leave nothing behind (`ReadsAreSafe`), times are as asked, every request is answered but for the cases of section 6 | 2 HTTP threads, 2 queued events, durations of 6 bits (`Half` = 32) |

Why the bounds are enough. Four events are the start and the stop event and two
of the clients', which is what an ordering defect needs; time 0..2 already
has past, present and future and a date out of range. Three scheduler threads
cover a restart after a restart; five calls cover run, hold, run, hold, abort
(with autoStop a run also ends without a Hold). Three threads with two of them a
round ahead is the most that the barrier's generation has to tell apart, and in
`simsync` the threshold is the code's own 2. Two emissions at a time, in one
thread or in two, is the least that overlaps, and depth 2 in two threads gives up
to four. Two runs of SimSync are needed because the barrier keeps its state
between them; a Hold and an Abort of the same run do not overlap there. In
`lifecycle` the calls of the main program are not counted (its order of Publish,
Configure, Connect, Exit, and their repetition after an exception, is free);
two calls of the other threads, components and subscribers are what a late
component that adds another one, or an addition and an exception, need; the five
components are a service, its replacement, a model, its submodel and a late
comer of either kind. Further bounds there: each initialisation entry point is
added once, a mandatory service is not replaced during a walk over the
services, and Reconnect is called for components whose parent is connected. What the
trees are at first is a constant (`TreeAssumption`): a component is in one place, its
container is there, and the mandatory services that `overrideService` may delete
(`Simulator.cpp:448-457`), which the constructor makes, have no components.

In `colibry` a schedule of period 2 and a change to 3 tell apart a phase that is
kept from one that is not within three units of time; two runs are a hold and
what follows it; three calls are a change, its submission and a disturbance. In
`storage` the configurations are a nested tree with values and connections, one
with declarations that come to nothing and a container whose name begins with F,
and one whose libraries contradict each other; truncation is by lines, each field
stores at least a byte, and uuids of clients never have the form of those that
arrays are given. In `fmi` the models are a periodic one, one that is activated
once and the imported unit, so that a step may hold none, one or several
activations. In `rest` two handlers are the least that can block each other.

Every action fires in some passing run. Deadlock checking is off where the
system may really stop: a simulation in Standby whose clients have used up their
calls, an aborted simulation, a cancelled barrier, an exited simulator, a file
that was read.

## 4. Fairness

- `Scheduler`, `MCSchedulerPlan`: weak fairness of the scheduler thread. It is an
  OS thread, entry points return, and clients owe nothing.
- `RunControl`: weak fairness of what a thread does after it has begun a call,
  and of scheduler threads; nobody is obliged to call. A wait on a monitor is
  only left when its condition holds.
- `Barrier`: weak fairness of `Leave` only: `notify_all` wakes everybody.
  Nobody has to arrive.
- `EventManager`: weak fairness of a thread that is inside `Emit`, which
  includes that subscribers return.
- `Lifecycle`: none; it has safety properties only.
- `SimSync`: weak fairness of the thread that starts the slave and of the two
  scheduler threads; sync is a periodic event. Nobody has to call Run or Hold.
- `Colibry`: weak fairness of the scheduler thread, and of the Synchronizer with
  the clock of the host.
- `FMIBridge`: weak fairness of a function the host has called and of the
  scheduler thread; the host owes no call.
- `RestService`: weak fairness of the scheduler thread and of each HTTP thread
  inside a request, except of the server's stop (`ServerStops`); strong fairness of taking a mutex that others take again and
  again, which each of them releases.
- `Storage`: weak fairness of the writer, the parser and the walk over the
  fields; the writer's process may die first.

## 5. Proofs

All are proved for every value of the constants, from the named assumptions
only (types of the parameters).

- `SchedulerProofs`. `TypeCorrect`, by `TypeInv` (types, and "there is a current
  schedule while it runs"). `EventsStayAhead`, `ClockStopsAtEvents`,
  `EventsArePunctual` and `StepsStayOnTime`, under `ClientsInSync`, by `TimeInv`:
  that no event is in the past is not inductive by itself, as the clock moves in `ChangeTime` to a
  value read two steps before; it needs that the two clocks agree at the places
  where clients call (`ClocksAgree`), that the value read is still the first date
  of the queue (`NextIsFirst`) and that the selected event is due
  (`SelectedIsDue`). `TimeIsAlwaysKept` holds without conditions: that nothing
  runs early is in the guard of `Select`, that the clock only goes forward needs
  `ForwardInv`, that a time read for a change stays ahead of the clock until the change.
  `QueueStaysAhead` adds to `TimeInv` that there is something to do at
  PreEventExecute; it needs autoStop, and clients that do not remove the last
  event between the two looks at the queue.
  `DatesAreSimulationTimes`: a behaviour of `MissionTime` in which no date has
  passed when it is given is one of `Scheduler`, every dated call being a call with
  the time that is left or a stutter. `DatedQueueStaysAhead` carries `QueueIsAhead`
  over to it, in all behaviours up to the first such date. `PlansAreFollowed`
  (`RunsAsPlanned`, up to that date as well), by `PlanInv`, which says where a schedule that waits has its
  next activation (`OnCourse`): at an activation of the plan, after all the
  recorded ones, with as many repeats left as the number of periods since the
  first one leaves (`RepeatAt`); an aperiodic event that its own entry point has
  moved waits for nothing (`Dropped`); and the plan begins at the date that was
  asked, in the offsets as they are (`Fits`). Steps are first reduced to five kinds
  (quiet, create, move, begin and end of an entry point). It assumes `PlanClients`:
  `ClientsInSync`, no call that sets a cycle time or repeat count (the plan would
  have to change in the middle), no move of an event in its last activation.
- `RunControlProofs`. `OneThreadAtATime`: every thread that has not returned is
  the one in `_th`. The argument rests on `StartThread`, the only step that
  starts a thread, waiting for the previous one. `NothingRunsInStandby` and
  `AbortingIsFinal`, by `RestInv`: from each state the front end has left, `_run` is
  false or the thread is where it can only go to its end, the caller of Run and
  the caller of Abort exclude each other as long as no `overlap` was seen, and a
  thread that reports the stop was told to. `StoppingIsSafe` (`HoldIsSafe`) adds
  `KnownInv`: as long as the start event is queued no entry point has run, and from
  then on `_schedulerThreadId` is the id of the thread. It assumes that only one
  client calls Run (`OneRunner`) and that entry points hold only after the start event
  (`HoldAfterStart`): before it `_schedulerThreadId` is that of the previous run,
  and Hold in an entry point would wait for its own thread.
- `ConcurrencyProofs`, the barrier, under `UsedAsBarrier` (threshold = number of threads, reset
  when nobody is inside): `TypeCorrect`, `CountersFollowThreads`,
  `BarrierKeepsPromise` (refinement). The invariant `BarrierInv` says that, unless
  the barrier is cancelled, whoever waits is of the current generation or the
  previous one, and the counters are the cardinalities of the two groups. The
  cancelled case is apart because the code's counters then mean nothing until
  `reset`.
- `SimSyncProofs`. `TheSlaveFollows`, by `ControlInv`, one table of what holds at each
  place of the front end, of the master's thread and of the slave's, unless the
  thread of the master came `early`. `SyncsShareTheirData` has two halves. Which
  round: `RoundInv` relates the counters and the generation of the barrier to
  the rounds of the two sides (`Counted`) while both are live, so that a side
  that reads is at most one behind what is published, and `LastReadInv` keeps that
  after the barrier is cancelled. Which bytes: `LoadsByPosition` says that a
  field is loaded with the bytes of the output of its position for all lists
  of sizes that agree up to there, by induction over the list (`StoredGrows`, `SameRoom`).
- `ConcurrencyProofs`, the event manager. `DeferringProtectsWalks`, by the invariant that the flag is set
  whenever somebody is in `Emit`, unless an emission has ended inside another.
  `RequestsAlwaysTakeEffect`: what the collections will be when the deferred
  requests are served (`Served`) is at any time what was asked, once, for every
  entry point that was not subscribed again while its first request was deferred
  (`repeated`); those are at least there as long as they want to be. A request adds
  one to the end of the queue (`ServeOneMore`), and what it asks depends on `Served`, not
  on the collections; that nobody else is there twice is needed, as Unsubscribe
  removes one occurrence.
- `ColibryProofs`. `SchedulesAgree` is the invariant that the others need: ids of
  the queue were made by the scheduler, `_schedIndex` and the events agree
  (`IdsAgree`), an immediate event is queued once and a schedule that is off has
  its event asleep (`OffAsleep`). Each operation of the scheduler is reduced to
  which one event it changes (`Adjusts`) first. On top of it:
  `DeactivatedStaysQuiet`; `HoldComesFirst` (until the stop event has run there is
  an immediate event, so the time is not updated); `TheRightOneIsNotified` (from
  PreExec to Execute nobody puts an event before the head); `RowsAreKept` (a recorder's
  event is at the date of its next row, and no step runs past it);
  `LastAnnouncementHolds`; `StepsDoNotDrift` (all goals are multiples of the period
  from the first one, whatever the delays); and `EventsCommand` (the whole of
  `EventsCommandSchedules`), by `TimesInv`: the event of a schedule that was activated
  has a time that leaves its phase when it is divided by its period, whatever is
  submitted, and no event that waits is late, so that it is executed at its time.
  What `epActivate` waits for leads to the phase by `WaitIsInPhase`. It assumes that
  the EventTrigger evaluates by an event: at a time change the scheduler does not
  know the time yet (`KnownTimeInv`), and the property fails (section 6).
- `FMIProofs`. `TheHostIsAlone`, by `PhaseInv` (the scheduler thread is at rest
  wherever the host is outside `DoStep`, also when a step was refused).
  `StepsCatchUpWithTheHost` (`StepsExecuteWhatIsDue`): nothing that is due before the
  end of the step is left when it ends, unless a model held, and nothing from the
  end on is executed, unless the clock was there already when the step began.
  `TheUnitIsInStep` (`UnitIsInStep`), from `UnitPhase`, which relates the state of
  the unit to that of the simulation.
- `LifecycleProofs`. `ParentsAlwaysFirst`, by `OrderInv`: `ParentsFirst` is not
  inductive, since a phase is begun by a task that was pushed long before. The
  invariant adds that every task on any stack is *fine* (`FineTask`): a walk is over
  a container whose owner has gone through the phase, a phase is of a component
  whose container's owner has. Components only advance (`Rank`) and nobody but a
  deleted one changes place, so tasks stay fine while other actors work
  (`FineGrows`). `InitsRunOnce` proves `InitOnce`, the part of `PhasesAreComplete`
  about initialisation. As stated it is not inductive: what an accepted entry point
  has met depends on how far the loop has come. `InitInv` says that, as long as
  nothing overlaps, at most one actor has anything but client code on its stack
  (`InTurn`), that its stack is at one of five stages of an initialisation (`Stage`:
  none, about to begin, about to start the loop, in the loop at some index, about to
  clear), and what each stage means for `toInit` and `ran`: before the loop nothing
  that waits has been executed, in it exactly those below the index, after it all. A
  state that an entry point could be accepted in is left before the loop begins.
  `PhasesMakeUp` is the whole of `PhasesAreComplete`, for any tree that satisfies
  `TreeAssumption`, when one actor publishes, configures and connects
  (`OneAssembler`; `MCLifecycle` assumes it too). Its invariant has seven parts;
  besides `OrderInv`, `InitInv` and `Onward` (Building is never entered again):
  `TreeInv`, the containers are trees and agree with `home`; `AsmInv`, either
  Connect is over and all that was there when it began is connected (`Over`), or it is
  still to come or under way on the one stack that may hold such tasks (`Underway`);
  `ExitInv`, without overlap an exit is the only thing on any stack but client code;
  `LeaveInv`, as long as a walk of an exit over the models is on a stack, all that is
  connected is led out by the tasks up to it, itself or through a container that is
  (`Leads`), so that nobody is left when the walk ends (`Acyclic`). A stack that
  connects, or exits, is `Careful`: its tasks are ordered by phase, two of one phase
  have no component in common, whom they reach has not gone through the phase
  (`Timely`), and who is in a phase was met by a walk that is below. Hence nothing
  is met in a state that it refuses. That nothing is forgotten is `Covered`: each
  component whose container is connected and that is not (`Exposed`) will be met by
  a task of the stack. Both halves are shown for every way in which a
  task gives way to others (`GivesWay`), which `PhaseWorks` lists once, and again for
  additions, which come between any two steps (`CarefulAdds`, `CoveredAdds`,
  `EmptiesAdds`).

- `FrontEndProofs`, building. `FieldsAreTyped`, by `FieldsInv`: the registry is a
  list without repetitions and without built-in uuids (`Registry`), and the uuid of an
  array type says its size (`IsType`): without that, a field of an array whose type was
  registered for another field could have another size. A call of Add only
  appends (`Grown`), so that what `GetType` found it finds later (`RegistryGrows`);
  a call of a publication adds one field, removes some or changes nothing (`Edited`);
  a configuration and a restore change values only (`Revalued`). It uses that uuids
  of clients do not have the form of the others (`TypesAssumption`).
  `GuardStopsRecursionOnly`, by `GuardInv`: between calls, a guard is closed only
  where an exception went through. `ConfigurationsAreApplied`, by `ConfigInv`, in
  terms of the list of fields instead of indices: what is published after Configure
  has its initial value, and Connect comes after the last change of names.
- `FrontEndProofs`, serving. `ReadingIsSafe` (`ReadsAreSafe`), for any number of HTTP
  threads: an event of a handler is queued only while its request waits for it,
  once, and is taken by the handler that waits (`QueueInv`); a handler holds what
  was read while nobody wrote, or by the thread that writes (`HandlerInv`); outside
  the write of a model the value is whole. `SchedulesAreAsAsked`: conversion to
  unsigned and back is the identity on what fits (`FittingIsKept`).

Facts about recursive functions (`ServeAll`, `Stored`, `Without`) are proved by induction over
a *set* of numbers (`InductionInSet`, from the least element of what is left), as
the induction theorems over predicates take an operator as a parameter, which the
provers cannot instantiate.

Only model-checked: everything temporal under fairness (`RunCompletesThePlans`,
`RunAndHoldEnd`, `OpenedLeave`, `RequestsAreServed`, `NobodyIsLeftWaiting`,
`HoldIsPrompt`, `EveryStepReturns`, `EveryRequestIsAnswered`,
`OnlyTheTreeIsReadBack`), which is out of the prover's reach (`ReadAsWritten`, the
main safety part of the last one, would be an induction over the tree that is stored).

## 6. Where the code differs from what it says

Most of these are conditions in properties of passing runs: they name the state
in which the code does not keep a promise, and the property says that nothing
else breaks it. The others are assumed away by a constant, which is named.

### Time and scheduler

- Without autoStop, `step` waits while an event *is* activable
  (`Scheduler.cpp:341`; the message that follows says the opposite). Runs with a
  liveness property have autoStop on.
- The life span of a schedule is not mastered, as `Scheduler.hpp:172-174` says it
  is. An event runs for the last time; its entry point moves it with
  `SetEventSimulationTime`; `Schedule::run` leaves it in the queue at its new time
  (`Scheduler.cpp:55-58`) but has it completed; the end of the step deletes it
  (384-386); the next look at the queue reads a deleted object. The model has
  the call (`SetTimeOfCompleted`) and the deletion (`freed`). A property that says
  that the queue holds no deleted schedule would be false of the code for this
  reason, and true by the shape of the step without this call, so none is stated;
  the runs of section 3 do not make the call.
- An aperiodic event that moves itself in its entry point is put to sleep when it
  returns (`Scheduler.cpp:71-74`, against the comment at 55-58): `NewPlan`.
- A date in the epoch or mission scale that has passed is not refused. One
  nanosecond in the past it means never; before that it puts the event behind the
  clock, on which the scheduler thread throws. `late` is set by every such date, and
  `DatedQueueStaysAhead`, `RunsAsPlanned` and `RunCompletesThePlans` speak of what
  comes before it.
- `AddMissionTimeEvent` and `AddEpochTimeEvent` do not check repeat and cycle as
  `AddSimulationTimeEvent` does, so that a repeated event without cycle time runs
  once and is never freed. `SetEpochTime` also moves the mission time, without its
  event. Events that wait keep their simulation time when a scale changes. The
  zulu calls return -1.

### Run control

- `RestartedTooEarly`: Run right after Standby may join the previous thread with
  the mutex that this thread needs (`Scheduler.cpp:406`, `Thread.cpp:24-29`;
  `lua/test/test.lua:156-165` does this). It is also named in `EveryStepReturns`
  (a host that steps as soon as the last step is over) and in
  `EveryRequestIsAnswered` (a POST of Executing right after Standby).
- Hold queues the stop event before it sets the flag it waits for
  (`Simulator.cpp:354-365`): it may wait for ever. `WaitingHoldReturns` starts
  when the flag is set.
- `overlap`: `Run` tests the state and assigns it without a lock
  (`Simulator.cpp:345-347`). An Abort in between is overwritten, and an Abort
  that comes before the scheduler thread is started finds no thread to join: the
  thread then runs in state Aborting, and its stop event leads back to Standby.

### Events and life cycle

- `LeftEmitting`: an exception in `Emit` leaves `_emitting` set, and
  requests are deferred until the next emission ends (`EventManager.cpp:131`).
- `overlapped`: an emission that ends inside or beside another one clears the
  flag of both (`EventManager.cpp:135`), and a later subscription
  changes a collection that is being walked. The code's TODO at line 123 says that
  recursion is not excluded.
- `repeated`: Subscribe looks at the collection only (`EventManager.cpp:71`). An
  entry point that is subscribed twice during an emission is accepted twice, added
  twice when the emission ends (138-142), executed twice by every emission from then
  on, and still there after one Unsubscribe.
- `Unsubscribe` of an entry point that is not subscribed creates its exception
  and does not throw it (`EventManager.cpp:96`). Both exceptions look up the name
  of the event by its id in a table whose first entry is that of id 1 (lines 72,
  96; 38): they name the next event, and for the last event of the simulator and
  those of models the read is out of range (`LookUpName`).
- `InitOnce`: Connect calls Initialise after the state has become Standby
  (`Simulator.cpp:339-340`); if an EnterStandby subscriber, or another thread, has
  called Run by then, it is ignored and the entry points wait for the next
  Initialise.
- `own`: the service that `LuaBuilder::connect` adds and connects by itself
  (`LuaBuilder.cpp:168-172`) is refused by `doConnect`, with an exception out
  of Connect, if the walk over the services meets it.
- `late` in `ExitIsComplete`: an Exit that meets a component that was added after
  Connect and not reconnected throws there (`Simulator.cpp:423`), and those behind
  it stay connected.
- `overlap` (life cycle): state checks and assignments are apart, with the
  subscribers of the Leave event in between. An Exit called by a LeaveStandby
  subscriber during Exit is not ignored, as `_doc/src/TODO_simphonie.md:115` says
  it shall be: it disconnects everything, and the outer one then
  throws at the first component. An Abort during another call is overwritten when
  that call changes the state next.
- `OneAssembler`: two requests to the REST service's `postState`
  (`RestService.cpp:472-482`), each on a thread of its own, may publish, configure
  or connect at the same time. The state is checked before it is assigned, so both
  walks meet the same component and one of them throws. With a second actor
  that calls Connect, TLC refutes `PhasesAreComplete`; `OneAssembler` leaves
  these three calls to the main thread.
- A second Publish throws at the first model (`Simulator.cpp:263`), while it
  skips the services that are published; Configure after an interrupted Publish
  makes up for it.

### Two simulators

- `early`: the master's thread may sync or stop before the barrier is reset and
  the slave started (`SimSyncMaster.cpp:102`): the reset then forgets its arrival and
  both sides wait for ever, or the slave runs on without a master.
- `WakeUpMissed`: the mutex of `waitSlaveStandby` is local
  (`SimSyncMaster.cpp:110`), so that the notification may come before the sleep.
- `DataAreFresh` allows the data of the next round: the fast side publishes
  before the slow one has read (`SimSyncMaster.cpp:94`).
- The exit and abort flags are not passed on: the slave stays in Standby when the
  master exits or aborts.
- Fields are matched by position alone, and `Restore` copies past the end of the
  buffer if the inputs are larger than what was sent (`SimSyncDataShare.cpp:119`).
  The slave is asked twice to initialise, and the name of its breakpoint does not
  depend on the master's.

### Colibry

- With a Tracker that evaluates at time changes (`TriggerAt = "change"`),
  `KeepsPhase` fails: `epActivate` compares times of before and after the change
  (`MetaScheduler.cpp:298, 307-309`). The run has `"event"`.
- `epDeactivate` calls `epActivate` of its base class (line 318); the condition
  on a pending change of the cycle time is the opposite of its comments (lines
  262, 263, 267), so that a change asked again addresses event -1 or is added
  twice; a cycle time set by an event submits whatever attributes are half set;
  a cycle time that is refused leaves the time submitted; setting a value twice
  before Submit loses the change; an immediate schedule submitted again
  while queued loses its index.
- `becomeTrue` is also emitted when the result changes between two values that
  are not zero. Evaluations nested in the handlers of an emission are not
  modelled.
- `Synchronizer`: `raced`, `epInit` and `epStep` may run at once
  (`Synchronizer.cpp:33-38`).
- A csv recorder whose port changes after `init` writes cells that do not follow
  its header (`FieldRecorderCsv.cpp:69`; `relinked`). An hdf5 recorder throws in
  `init` on text and on a field that is linked twice, which leaves the simulator
  in Initialising; values of arrays are written from 64 bit integers whatever the
  type of the items (`FieldRecorderHDF5.cpp:159-175`), so that those of narrower
  items are wrong.

### Storage, publication, configuration

- `restore` reads the file to its end and then has the fields read from the same
  stream, which is at its end (`StorageReader.cpp:49-57, 273`): every field that is
  restored gets two characters that were never initialised for each byte, and no
  value comes back, although "the simulation environment first restores the
  values of all fields" (`_doc/src/TODO_simphonie.md:77-82`). `OnlyTheTreeIsReadBack`
  says what the code does: the names come back (`ReadAsWritten`), the values do not
  (`ValuesAreLost`).
- The end of the file is looked for in `NEXT_IS_CONT` only: a file that was cut
  elsewhere is read for ever, and one that was cut after a sub-container is
  accepted. A container whose name begins with F loses it, a prefix of "Fields" is
  taken for it, names with other characters than letters and digits are not read
  (`WellNamed`). A component or container that is missing is dereferenced, a
  missing field is an exception that leaves the simulator in Restoring.
- All fields are written, not only those of the state.
- An exception out of `Type::Publish` leaves `_recursivePubGuard` set, and the
  next field of that type is refused (`Publication.cpp:180-193`): `escaped`. The
  guard is one variable: a type that publishes fields of other types through the
  same publication overwrites it (187-191), and the recursion it was set against is
  then not noticed. Types of clients do not do this in the model.
  Properties are neither checked for duplicates nor unpublished; a field of the
  caller is deleted when its name is taken.
- Values for fields that are published after the builder was configured are
  dropped silently; a value for a field of another shape stops Configure half-way.
  `LuaModel.cpp` reads arrays of integers from index 0, those of reals from 1.

### FMI and REST

- `refused`: the host is notified before the state is Standby
  (`FMIBridge.cpp:173-179`), and a prompt next step then waits for ever.
  `fmi2DoStep` does not look at the result of `DoStep`.
- `RestartedTooEarly`: a next step that comes when the state is Standby, but the
  scheduler thread has not left its step, joins that thread with the scheduler's
  mutex held (`Scheduler.cpp:403-407`), which the thread waits for (376): DoStep never
  returns.
- `AheadOfHost`: a step ends at the first activation time from its end on
  (`FMIBridge.cpp:181-185`), which may be far behind it; the next step begins there
  and executes that activation even if its own end is before it. With a model of
  period 3 and steps of 2, [2,4] ends with the clock at 6; [4,6] executes the
  activation at 6, its very end, and ends with the clock at 9; [6,8] executes the one
  at 9.
- `Tolerated`, the calls that FMI 2.0 forbids and that `FMILoad` makes: it gets the
  outputs right after it has set the inputs, with no step in between
  (`FMILoad.cpp:695-710`); it goes on setting, getting and stepping after
  `fmi2Pending`, while the unit is still in its step (721-725, where a TODO says so);
  after `fmi2Discard` it calls the unit it has freed, whose handle it keeps; and,
  deleted before it is configured, it may free an instance that it never got.
- `FMILoad`: a description without DefaultExperiment dereferences an empty list of
  nodes in `configure` (`FMILoad.cpp:201`), a warning does not advance the
  communication point, a stop time of -1 (not given) refuses every step, the type
  names are compared the wrong way round, outputs are one step late.
- `late`, `raced`, `stuck`: both entry points of the REST service are subscribed
  to EnterExecuting (`RestService.cpp:183`), so the flag is false while the
  simulation executes; a value that is set then updates the field from the HTTP
  thread, and locks a mutex that it holds; a set that is queued outlives its
  handler; a read that the stop overtakes waits with the mutex that others need.
  The state of the simulator does not tell whether its scheduler thread runs: with
  three HTTP threads, a run that is started while another one aborts leaves that
  thread running in state Aborting. A read then races with the models although the
  simulation is not executing, so `raced` looks at the thread (`InLoop`).
- `"exit"`: a POST of Exiting has `disconnect` stop the server on the thread of the
  server that handles the request (`RestService.cpp:188-190`); whether that returns
  is up to the server, which is not in the repository.
- `"shortValue"`: a body with fewer digits than the field has takes from an empty
  vector (`RestService.cpp:145-148`).
- Durations in the body of a request are multiplied without a check of the range
  (`ScheduledAsAsked` is about those that fit). Exceptions of Store and Restore
  leave the simulator in Storing or Restoring.

## 7. What is left out

- Calls of other threads *inside* a step of the scheduler (`RunControl` has
  them between critical sections, but without times and ids).
- Two client threads that both call Run.
- A client that calls Hold before the start event has run: `HoldAfterStart`
  restricts the entry points, as `_schedulerThreadId` is still the old one.
- In `SimSync`: the early restart of section 6 (a run starts when the thread of
  the last one has returned).
- In `Scheduler`, as far as runs go: an entry point that moves its own event in its
  last activation (section 6).
- In `Lifecycle`: the destructor, `CreateInstance`, and the removal of components
  other than replaced services.
- In `LuaBuilder`: the schedules and tasks that are read from Lua.
- In `RestService` and `FMIBridge`: handlers that only list or answer constants.
- In `Colibry`: one tracker of each kind, on one field that stands for its
  expression; a second `init` of a recorder.
- Formatting, logging, I/O, HTTP, JSON, Lua, the C interface of FMI.

## 8. Not modelled, and why

- `Logger`, `LoggerAsync`, `LoggerFile`: no state of the simulation depends on
  them. The bounded buffer of `LoggerAsync` (it drops its oldest elements above its
  size, and hands out references to elements that a writer may drop) would be
  the next module.
- `SchedulerTracker`: statistics of durations on the host's clock.
- `Resolver`, `UnitRegistry`: pure look-ups.
- `LuaApi`: bindings over an external interpreter. `umdl`: sample models.
  `DLib`, `sys::Logger`: the operating system.
- `LinkRegistry` beyond `AddLink`: nothing in the repository removes links.

Next would be: `LoggerAsync`; the schedules of the builder over `MetaScheduler`.
