--------------------------- MODULE MetaScheduler ---------------------------
(***************************************************************************)
(* The meta scheduler service (colibry/src/MetaScheduler.cpp): schedules   *)
(* that events activate, deactivate and speed up, on top of the SMP        *)
(* scheduler. This module holds the schedules, the calls on them and the   *)
(* handlers; Colibry puts them in a simulation that runs.                  *)
(*                                                                         *)
(* The SMP scheduler is kept as one record, queue, and the calls that      *)
(* change it as operators from record to record, so that a handler that    *)
(* makes several calls composes them (Scheduler models it in full).        *)
(***************************************************************************)
EXTENDS Integers, Sequences

CONSTANTS
  Periodic,    \* the MetaScheduler::Schedule objects
  Instant,     \* the MetaScheduler::ImmediateSchedule objects
  Event,       \* events of the event manager that schedules subscribe to
  Assembled,   \* the schedules when the simulation has been assembled
  Subscriptions,  \* the handlers that are then subscribed to each event
  Offsets,     \* simulation times given to SetSimulationTime
  CycleTimes,  \* cycle times given to SetCycleTime
  Repeats,     \* repeat counts given to SetRepeat
  Delays,      \* delays of the changes of the cycle time
  MaxEvents    \* bound: number of events of the SMP scheduler ever made

Never == -1        \* time of an event that is not to be activated
Immediate == -2    \* IMMEDIATE_SIMULATION_TIME
None == -1         \* _eventId of a schedule that was not submitted yet

Schedules == Periodic \union Instant
EventId   == 0 .. MaxEvents - 1

ASSUME MetaSchedulerAssumption ==
  /\ Periodic \intersect Instant = {}
  /\ Offsets \subseteq Nat \union {Never} /\ CycleTimes \subseteq Int
  /\ Repeats \subseteq Int /\ Delays \subseteq Nat
  /\ MaxEvents \in Nat

VARIABLES
  queue,       \* the SMP scheduler: see Empty below
  current,     \* Scheduler::_currentSchedule
  schedTime,   \* Scheduler::_simulationTime, its own copy of the time
  now,         \* TimeKeeper::_simTime
  object,      \* the schedule objects
  index,       \* _schedIndex: the schedule of an event id
  notified,    \* _currentSchedule of the meta scheduler
  subscribed,  \* the handlers of schedules subscribed to each event
  off,         \* history: deactivated by an event, nothing started it since
  phase        \* history: the phase an activation by an event has to respect;
               \* None if none, or if the times were changed since

metaVars == <<queue, current, schedTime, now, object, index, notified,
              subscribed, off, phase>>

-----------------------------------------------------------------------------
(***************************************************************************)
(* The calls on the SMP scheduler.                                         *)
(***************************************************************************)
NoEvent == [time |-> Never, period |-> 0, repeat |-> 0, completed |-> FALSE,
            job |-> "none"]

Empty == [event |-> [e \in EventId |-> NoEvent],   \* the Schedule objects
          waiting |-> {},                          \* ids in _scheduled
          next |-> 0]                              \* _nextId

Added(q, job, time, period, repeat) ==
  [event   |-> [q.event EXCEPT ![q.next] = [time |-> time, period |-> period,
                      repeat |-> repeat, completed |-> FALSE, job |-> job]],
   waiting |-> q.waiting \union {q.next},
   next    |-> q.next + 1]

\* findSchedule: the current event and those in the queue, nothing else.
Known(q, e) == e # None /\ (e = current \/ e \in q.waiting)

\* getAbsoluteTime; the copy of the time may be older than the time.
Absolute(rel) == IF rel = Never THEN Never ELSE schedTime + rel

SetTime(q, e, time) ==
  [q EXCEPT !.event[e].time = time, !.waiting = @ \union {e}]

\* SetEventSimulationTime, SetEventCycleTime and SetEventRepeat: an id that
\* the scheduler does not know is ignored.
SetEventSimulationTime(q, e, rel) ==
  IF Known(q, e) THEN SetTime(q, e, Absolute(rel)) ELSE q

SetEventCycleTime(q, e, cycle) ==
  IF Known(q, e) THEN [q EXCEPT !.event[e].period = cycle] ELSE q

SetEventRepeat(q, e, repeat) ==
  IF Known(q, e) THEN [q EXCEPT !.event[e].repeat = repeat] ELSE q

\* Schedule::operator<: immediate events, then by time, Never last, then by id.
Before(q, a, b) ==
  LET ta == q.event[a].time
      tb == q.event[b].time
  IN \/ ta = tb /\ a < b
     \/ ta # tb /\ ta # Never /\ (tb = Never \/ ta < tb)

IsHead(q, e) == e \in q.waiting /\ \A o \in q.waiting \ {e} : Before(q, e, o)

\* Faulty variant: the queue is not taken in its order.
GetCurrentEventId_LowestId ==
  IF current # None THEN current
  ELSE IF queue.waiting # {}
  THEN CHOOSE e \in queue.waiting : \A o \in queue.waiting : e <= o ELSE None

\* GetCurrentEventId: the event that runs, or else the first of the queue.
GetCurrentEventId ==
  IF current # None THEN current
  ELSE IF queue.waiting # {} THEN CHOOSE e \in queue.waiting : IsHead(queue, e)
  ELSE None

-----------------------------------------------------------------------------
(***************************************************************************)
(* The schedules. dirty holds the attributes whose "changed" flag is set.  *)
(***************************************************************************)
NewSchedule(active, time, cycle, repeat) ==
  [id |-> None, active |-> active, time |-> time, cycle |-> cycle,
   repeat |-> repeat, dirty |-> {}]

NewObject == NewSchedule(TRUE, 0, 0, 0)

ScheduleObject ==
  [id : EventId \union {None}, active : BOOLEAN, time : Nat \union {Never},
   cycle : Int, repeat : Int, dirty : SUBSET {"time", "cycle", "repeat"}]

\* Only schedules that are not immediate have a cycle time to change.
EventHandler ==
  {h \in [kind : {"activate", "deactivate", "change"}, schedule : Schedules,
           cycle : Int, delay : Nat] : h.kind = "change" => h.schedule \in Periodic}

ASSUME AssemblyAssumption ==
  /\ Assembled \in [Periodic -> {o \in ScheduleObject : o.id = None}]
  /\ Subscriptions \subseteq [Event -> SUBSET EventHandler]

\* NewSchedule, then the setters and the subscriptions of the script that
\* assembles a simulation whose scheduler has the queue q.
MetaInit(q) ==
  /\ queue = q /\ current = None /\ schedTime = 0 /\ now = 0
  /\ object = [s \in Schedules |-> IF s \in Periodic THEN Assembled[s] ELSE NewObject]
  /\ index = <<>>
  /\ notified = "none"
  /\ subscribed \in Subscriptions
  /\ off = {} /\ phase = [s \in Periodic |-> None]

\* index with the schedule s at the event id e.
Indexed(e, s) == [x \in DOMAIN index \union {e} |-> IF x = e THEN s ELSE index[x]]

\* A setter overwrites its flag: a change followed by the same value again is
\* no longer seen as a change.
Changed(o, attribute, differs) ==
  IF differs THEN o.dirty \union {attribute} ELSE o.dirty \ {attribute}

WithTime(o, t) ==
  [o EXCEPT !.time = t, !.dirty = Changed(o, "time", t # o.time)]
WithCycle(o, c) ==
  [o EXCEPT !.cycle = c, !.dirty = Changed(o, "cycle", c # o.cycle)]
WithRepeat(o, r) ==
  [o EXCEPT !.repeat = r, !.dirty = Changed(o, "repeat", r # o.repeat)]

WithActive(o, active) == [o EXCEPT !.active = active]

\* What the schedule s is after one of its setters, or none; those of the
\* attributes that an immediate schedule has not do nothing.
Settings(s) ==
  LET o == object[s]
  IN {o} \union {WithActive(o, active) : active \in BOOLEAN} \union
     IF s \in Instant THEN {}
     ELSE {WithTime(o, t) : t \in Offsets} \union
          {WithCycle(o, c) : c \in CycleTimes} \union
          {WithRepeat(o, r) : r \in Repeats}

\* What the scheduler refuses by an exception.
BadCycle(c) == c < -1 \/ c = 0

FirstTime(o) == IF o.active THEN o.time ELSE Never

\* The first Submit: unless AddSimulationTimeEvent throws, the schedule gets
\* its event.
SubmitNew(s, o) ==
  IF o.repeat > 0 /\ BadCycle(o.cycle)
  THEN /\ object' = [object EXCEPT ![s] = o]
       /\ UNCHANGED <<queue, index, off, phase>>
  ELSE /\ queue.next < MaxEvents
       /\ queue' = Added(queue, s, Absolute(FirstTime(o)), o.cycle, o.repeat)
       /\ object' = [object EXCEPT ![s] = [o EXCEPT !.id = queue.next, !.dirty = {}]]
       /\ index' = Indexed(queue.next, s)
       /\ UNCHANGED <<off, phase>>

\* The time of a schedule that is submitted again.
Resubmitted(q, o) ==
  IF "time" \in o.dirty THEN SetEventSimulationTime(q, o.id, FirstTime(o)) ELSE q

\* The next Submits: the attributes that changed, in this order. A cycle time
\* that the scheduler refuses leaves the time submitted and every flag set.
SubmitAgain(s, o) ==
  LET timed  == Resubmitted(queue, o)
      cycled == IF "cycle" \in o.dirty THEN SetEventCycleTime(timed, o.id, o.cycle) ELSE timed
      last   == IF "repeat" \in o.dirty THEN SetEventRepeat(cycled, o.id, o.repeat) ELSE cycled
      throws == "cycle" \in o.dirty /\ BadCycle(o.cycle)
  IN /\ queue' = IF throws THEN timed ELSE last
     /\ object' = [object EXCEPT ![s] = IF throws THEN o ELSE [o EXCEPT !.dirty = {}]]
     /\ off' = IF "time" \in o.dirty THEN off \ {s} ELSE off
     /\ phase' = IF o.dirty \intersect {"time", "cycle"} # {}
                 THEN [phase EXCEPT ![s] = None] ELSE phase
     /\ UNCHANGED index

\* Schedule::Submit of the schedule s with the attributes o.
SubmitAs(s, o) == IF o.id = None THEN SubmitNew(s, o) ELSE SubmitAgain(s, o)

\* The index without the previous event of an immediate schedule.
Forgotten(i) == [e \in DOMAIN index \ {object[i].id} |-> index[e]]

\* ImmediateSchedule::Submit: a new event each time.
SubmitInstant(i, o) ==
  IF o.active
  THEN /\ queue.next < MaxEvents
       /\ queue' = Added(queue, i, Immediate, 0, 0)
       /\ object' = [object EXCEPT ![i] = [o EXCEPT !.id = queue.next]]
       /\ index' = [e \in DOMAIN Forgotten(i) \union {queue.next} |->
                      IF e = queue.next THEN i ELSE Forgotten(i)[e]]
       /\ UNCHANGED <<off, phase>>
  ELSE /\ object' = [object EXCEPT ![i] = o]
       /\ UNCHANGED <<queue, index, off, phase>>

Submit(s, o) == IF s \in Periodic THEN SubmitAs(s, o) ELSE SubmitInstant(s, o)

-----------------------------------------------------------------------------
(***************************************************************************)
(* The handlers of events. An event has at most one handler here: the      *)
(* order of several is the matter of EventManager.                         *)
(***************************************************************************)
Handler(kind, s, cycle, delay) ==
  [kind |-> kind, schedule |-> s, cycle |-> cycle, delay |-> delay]

\* SubscribeActivateEvent, SubscribeDeactivateEvent, and
\* SubscribeCycleTimeChangeEvent, which for an event that the schedule has
\* subscribed to only replaces the cycle time and the delay.
Subscribe(s, ev) ==
  /\ \/ /\ subscribed[ev] = {}
        /\ \E kind \in {"activate", "deactivate"} :
             subscribed' = [subscribed EXCEPT ![ev] = {Handler(kind, s, 0, 0)}]
     \/ /\ s \in Periodic
        /\ \A h \in subscribed[ev] : h.kind = "change" /\ h.schedule = s
        /\ \E c \in {x \in CycleTimes : x > 0}, d \in Delays :
             subscribed' = [subscribed EXCEPT ![ev] = {Handler("change", s, c, d)}]
  /\ UNCHANGED <<queue, object, index, off, phase>>

Unsubscribe(s, ev) ==
  /\ \E h \in subscribed[ev] : h.schedule = s
  /\ subscribed' = [subscribed EXCEPT ![ev] = {}]
  /\ UNCHANGED <<queue, object, index, off, phase>>

\* Faulty variant: the offset of the schedule is forgotten.
NextActivation_NoOffset(o) ==
  IF o.time # Never /\ o.cycle > 0
  THEN (o.cycle - (now % o.cycle)) % o.cycle ELSE 0

\* The time to wait, when an event activates the schedule, for the next of the
\* times it would have had, had it been active since the start.
NextActivation(o) ==
  IF o.time # Never /\ o.cycle > 0
  THEN (o.cycle - (now % o.cycle) + o.time) % o.cycle ELSE 0

\* The phase is kept as long as the scheduler has the cycle time of the object.
PhaseAfterActivation(s, o) ==
  IF s \notin Periodic THEN phase
  ELSE [phase EXCEPT ![s] =
          IF /\ Known(queue, o.id) /\ o.time # Never /\ o.cycle > 0
             /\ queue.event[o.id].period = o.cycle
          THEN o.time % o.cycle ELSE None]

\* Schedule::epActivate and BaseSchedule::epActivate.
epActivate(s) ==
  /\ object' = [object EXCEPT ![s].active = TRUE]
  /\ queue' = IF s \in Periodic
              THEN SetEventSimulationTime(queue, object[s].id, NextActivation(object[s]))
              ELSE queue
  /\ off' = off \ {s}
  /\ phase' = PhaseAfterActivation(s, object[s])
  /\ UNCHANGED index

\* Schedule::epDeactivate: it calls BaseSchedule::epActivate, so that the
\* object stays active, and the event will not be activated. Only the flag
\* of an immediate schedule changes.
epDeactivate(s) ==
  /\ object' = [object EXCEPT ![s].active = s \in Periodic]
  /\ queue' = IF s \in Periodic
              THEN SetEventSimulationTime(queue, object[s].id, Never) ELSE queue
  /\ off' = IF s \in Periodic /\ Known(queue, object[s].id) THEN off \union {s} ELSE off
  /\ UNCHANGED <<index, phase>>

\* CycleChangeHandler::Execute. _schedEvent stays -1: only the branch that
\* requires another value gives it one. Without a delay, or when there is no
\* event at all, the cycle time is submitted with whatever else was set;
\* with a delay the event -1 is moved, which does not exist.
epChange(s, cycle, delay) ==
  IF delay = 0 \/ GetCurrentEventId = None
  THEN SubmitAs(s, WithCycle(object[s], cycle))
  ELSE UNCHANGED <<queue, object, index, off, phase>>

Handle(h) ==
  \/ h.kind = "activate" /\ epActivate(h.schedule)
  \/ h.kind = "deactivate" /\ epDeactivate(h.schedule)
  \/ h.kind = "change" /\ epChange(h.schedule, h.cycle, h.delay)

\* EventManager::Emit.
Emit(ev) ==
  /\ IF subscribed[ev] = {} THEN UNCHANGED <<queue, object, index, off, phase>>
     ELSE \E h \in subscribed[ev] : Handle(h)
  /\ UNCHANGED subscribed

\* A call of the client on the meta scheduler.
Call ==
  \/ /\ \E s \in Schedules : \E o \in Settings(s) :
          \/ object' = [object EXCEPT ![s] = o] /\ UNCHANGED <<queue, index, off, phase>>
          \/ Submit(s, o)
     /\ UNCHANGED subscribed
  \/ \E s \in Schedules, ev \in Event : Subscribe(s, ev) \/ Unsubscribe(s, ev)
  \/ \E ev \in Event : Emit(ev)

-----------------------------------------------------------------------------
(***************************************************************************)
(* The subscribers of Scheduler_PreEventExecute and _PostEventExecute. The *)
(* listeners that they notify cannot be registered in this version.        *)
(***************************************************************************)

\* The schedule of the event whose execution begins, or a new BaseSchedule if
\* the event was not made by the meta scheduler. No event of the scheduler is
\* current at this time: it is the first of the queue.
epPreEpExec ==
  LET e == GetCurrentEventId
  IN /\ index' = IF e \in DOMAIN index THEN index ELSE Indexed(e, "base")
     /\ notified' = index'[e]

epPostEpExec == notified' = "none"

=============================================================================
