-------------------------- MODULE SchedulerProofs --------------------------
(***************************************************************************)
(* Proofs about Scheduler, for every number of events, every DURATION_MAX  *)
(* and every choice of times, cycles, repeat counts and client calls, and  *)
(* at the end about MissionTime, which adds the epoch and mission dates,   *)
(* and MCSchedulerPlan, which adds what was asked and what was done.       *)
(***************************************************************************)
EXTENDS MCSchedulerPlan, TLAPS

-----------------------------------------------------------------------------
(***************************************************************************)
(* Type correctness.                                                       *)
(***************************************************************************)

ScheduleType ==
  [time : Time, period : Int, repeat : Int, completed : BOOLEAN,
   kind : {"none", "user", "start", "stop"}]

\* There is a current schedule while it is being run.
CurrentSet ==
  pc \in {"run", "executing", "postExec"} => currentSchedule \in EventId

TypeInv == TypeOK /\ CurrentSet

\* getAbsoluteTime returns a time below DURATION_MAX, or Never.
LEMMA AbsoluteTimeType ==
  ASSUME simulationTime \in 0 .. DurationMax - 1,
         NEW rel \in Nat \union {Never},
         HasAbsoluteTime(rel)
  PROVE  AbsoluteTime(rel) \in Time
  BY ConstantsAssumption
  DEF HasAbsoluteTime, AbsoluteTime, Time, Never

\* The next activation that Schedule::run computes is a time as well.
LEMMA NextActivationType ==
  ASSUME NEW time \in Time, NEW period \in Int, period > 0
  PROVE  NextActivation(time, period) \in Time
  BY ConstantsAssumption DEF NextActivation, Time, Never, Immediate

\* A new schedule enters a well-typed queue under a fresh id.
LEMMA CreateType ==
  ASSUME TypeOK, nextId < MaxEvents,
         NEW kind \in {"user", "start", "stop"}, NEW time \in Time,
         NEW cycle \in Int, NEW repeat \in Int,
         Create(kind, time, cycle, repeat)
  PROVE  /\ sched' \in [EventId -> ScheduleType]
         /\ scheduled' \subseteq EventId
         /\ freed' \subseteq EventId
         /\ nextId' \in 0 .. MaxEvents
  <1>1. nextId \in EventId /\ nextId + 1 \in 0 .. MaxEvents
    BY ConstantsAssumption DEF TypeOK, EventId
  <1>. QED  BY <1>1 DEF TypeOK, Create, ScheduleType

\* Moving a schedule keeps the queue well typed.
LEMMA SetTimeType ==
  ASSUME NEW s \in [EventId -> ScheduleType], scheduled \subseteq EventId,
         NEW e \in EventId, NEW t \in Time, SetTime(s, e, t)
  PROVE  /\ sched' \in [EventId -> ScheduleType]
         /\ scheduled' \subseteq EventId
  BY DEF SetTime, ScheduleType

LEMMA HeadTimeType ==
  ASSUME TypeOK, NEW e \in scheduled
  PROVE  HeadTime(e) \in Time
  BY ConstantsAssumption DEF TypeOK, HeadTime, Time

LEMMA TypeInvInit == Init => TypeInv
<1> SUFFICES ASSUME Init PROVE TypeInv
  OBVIOUS
<1>1. Blank \in ScheduleType
  BY DEF Blank, ScheduleType, Time
<1>2. sched \in [EventId -> ScheduleType]
  BY <1>1 DEF Init
<1>3. 0 \in 0 .. DurationMax - 1 /\ 0 \in 0 .. MaxEvents
  BY ConstantsAssumption
<1>. QED
  BY <1>2, <1>3 DEF Init, TypeInv, TypeOK, CurrentSet, Site, ScheduleType

LEMMA TypeInvStep == TypeInv /\ [Next]_vars => TypeInv'
<1> SUFFICES ASSUME TypeInv, [Next]_vars PROVE TypeInv'
  OBVIOUS
<1> USE DEF TypeInv, TypeOK, CurrentSet, Site, queueVars, timeVars
<1>1. sched \in [EventId -> ScheduleType] /\ TypeOK
  BY DEF ScheduleType
<1>2. {Immediate, Never} \subseteq Time /\ 0 \in Int /\ 0 \in 0 .. DurationMax - 1
  BY ConstantsAssumption DEF Time
<1>3. CASE StopSeen  BY <1>3 DEF StopSeen
<1>4. CASE Pause  BY <1>4 DEF Pause
<1>5. CASE WakeUp  BY <1>5 DEF WakeUp
<1>6. CASE AutoHold
  BY <1>6, <1>1, <1>2, CreateType DEF AutoHold, Loop, ScheduleType
<1>7. CASE Proceed  BY <1>7 DEF Proceed
<1>8. CASE UpdateTime
  <2>1. \A e \in scheduled : HeadTime(e) \in Time
    BY <1>1, HeadTimeType
  <2>2. nextEventTime' \in Time /\ nextEventTime' > simTime
    BY <1>2, <1>8, <2>1 DEF UpdateTime, NextTimes
  <2>3. nextEventTime' \in 0 .. DurationMax - 1
    BY <1>1, <2>2, ConstantsAssumption DEF Time, Never, Immediate
  <2>. QED  BY <1>1, <1>8, <2>3 DEF UpdateTime
<1>9. CASE KeepTime  BY <1>9 DEF KeepTime
<1>10. CASE RefusePast  BY <1>10 DEF RefusePast
<1>11. CASE SetSimulationTime
  BY <1>11, ConstantsAssumption DEF SetSimulationTime
<1>12. CASE ChangeTime  BY <1>12 DEF ChangeTime
<1>13. CASE TimeChanged  BY <1>13, <1>2 DEF TimeChanged
<1>14. CASE Select  BY <1>14 DEF Select, Loop
<1>15. CASE BeginRun
  <2> DEFINE e == currentSchedule
             old == sched[e]
             last == old.repeat = 0
             upd == [sched EXCEPT
                      ![e].completed = last,
                      ![e].repeat = IF old.repeat > 0 THEN old.repeat - 1
                                                      ELSE old.repeat]
  <2>1. e \in EventId /\ old \in ScheduleType
    BY <1>15, <1>1 DEF BeginRun
  <2>2. upd \in [EventId -> ScheduleType]
    <3>1. (IF old.repeat > 0 THEN old.repeat - 1 ELSE old.repeat) \in Int
      BY <2>1 DEF ScheduleType
    <3>2. last \in BOOLEAN
      OBVIOUS
    <3>. HIDE DEF last
    <3>. QED  BY <2>1, <3>1, <3>2, <1>1 DEF ScheduleType
  <2>3. /\ sched' \in [EventId -> ScheduleType]
        /\ scheduled' \subseteq EventId
    <3>1. CASE ~last /\ old.period > 0
      <4>1. NextActivation(old.time, old.period) \in Time
        BY <2>1, <3>1, NextActivationType DEF ScheduleType
      <4>2. SetTime(upd, e, NextActivation(old.time, old.period))
        BY <1>15, <3>1 DEF BeginRun
      <4>. QED  BY <2>1, <2>2, <4>1, <4>2, SetTimeType
    <3>2. CASE ~ (~last /\ old.period > 0)
      BY <1>15, <3>2, <2>2 DEF BeginRun
    <3>. QED  BY <3>1, <3>2
  <2>. QED  BY <2>1, <2>3, <1>15 DEF BeginRun, ScheduleType
<1>16. CASE EndRun
  <2>1. /\ sched' \in [EventId -> ScheduleType]
        /\ scheduled' \subseteq EventId
    <3>1. CASE SetTime(sched, currentSchedule, Never)
      BY <1>16, <3>1, <1>1, <1>2, SetTimeType DEF EndRun
    <3>2. CASE UNCHANGED <<sched, scheduled>>
      BY <3>2, <1>1
    <3>. QED  BY <1>16, <3>1, <3>2 DEF EndRun
  <2>. QED  BY <2>1, <1>16 DEF EndRun, ScheduleType
<1>17. CASE EndStep  BY <1>17 DEF EndStep, Loop, None
<1>18. CASE AddImmediateEvent
  <2>1. nextId < MaxEvents
    BY <1>18, ConstantsAssumption DEF AddImmediateEvent, MayAdd
  <2>. QED
    BY <1>18, <2>1, <1>1, <1>2, CreateType DEF AddImmediateEvent, ScheduleType
<1>19. CASE AddSimulationTimeEvent
  <2>1. PICK rel \in RelTimes, cycle \in Cycles, repeat \in Repeats :
          HasAbsoluteTime(rel) /\ Create("user", AbsoluteTime(rel), cycle, repeat)
    BY <1>19 DEF AddSimulationTimeEvent
  <2>2. AbsoluteTime(rel) \in Time /\ cycle \in Int /\ repeat \in Int
    BY <2>1, AbsoluteTimeType, ConstantsAssumption
  <2>3. nextId < MaxEvents
    BY <1>19, ConstantsAssumption DEF AddSimulationTimeEvent, MayAdd
  <2>. QED
    BY <1>19, <2>1, <2>2, <2>3, <1>1, CreateType
    DEF AddSimulationTimeEvent, ScheduleType
<1>19a. CASE AddDatedEvent
  <2>1. PICK rel \in RelTimes, cycle \in Cycles, repeat \in Repeats :
          HasAbsoluteTime(rel) /\ Create("user", AbsoluteTime(rel), cycle, repeat)
    BY <1>19a DEF AddDatedEvent, AddDated
  <2>2. AbsoluteTime(rel) \in Time /\ cycle \in Int /\ repeat \in Int
    BY <2>1, AbsoluteTimeType, ConstantsAssumption
  <2>3. nextId < MaxEvents
    BY <1>19a, ConstantsAssumption DEF AddDatedEvent, AddDated, MayAdd
  <2>. QED
    BY <1>19a, <2>1, <2>2, <2>3, <1>1, CreateType
    DEF AddDatedEvent, AddDated, ScheduleType
<1>20. CASE SetEventSimulationTime
  <2>1. PICK e \in EventId, rel \in RelTimes :
          HasAbsoluteTime(rel) /\ SetTime(sched, e, AbsoluteTime(rel))
    BY <1>20 DEF SetEventSimulationTime, MoveEvent
  <2>2. AbsoluteTime(rel) \in Time
    BY <2>1, AbsoluteTimeType, ConstantsAssumption
  <2>. QED
    BY <1>20, <2>1, <2>2, <1>1, SetTimeType
    DEF SetEventSimulationTime, MoveEvent, ScheduleType
<1>21. CASE SetEventCycleTime
  <2>1. PICK e \in EventId, cycle \in Cycles :
          sched' = [sched EXCEPT ![e].period = cycle]
    BY <1>21 DEF SetEventCycleTime
  <2>2. sched' \in [EventId -> ScheduleType]
    BY <2>1, <1>1, ConstantsAssumption DEF ScheduleType
  <2>. QED  BY <1>21, <2>2 DEF SetEventCycleTime, ScheduleType
<1>22. CASE SetEventRepeat
  <2>1. PICK e \in EventId, repeat \in Repeats :
          sched' = [sched EXCEPT ![e].repeat = repeat]
    BY <1>22 DEF SetEventRepeat
  <2>2. sched' \in [EventId -> ScheduleType]
    BY <2>1, <1>1, ConstantsAssumption DEF ScheduleType
  <2>. QED  BY <1>22, <2>2 DEF SetEventRepeat, ScheduleType
<1>23. CASE RemoveEvent  BY <1>23 DEF RemoveEvent
<1>24. CASE Hold
  <2>1. nextId < MaxEvents
    BY <1>24, ConstantsAssumption DEF Hold, MayAdd
  <2>2. PICK t \in {Immediate, AbsoluteTime(1)} :
          /\ Create("stop", t, 0, 0)
          /\ t = Immediate \/ HasAbsoluteTime(1)
    BY <1>24 DEF Hold
  <2>3. t \in Time
    BY <2>2, <1>2, AbsoluteTimeType
  <2>. QED
    BY <1>24, <2>1, <2>2, <2>3, <1>1, <1>2, CreateType DEF Hold, ScheduleType
<1>25. CASE Run
  <2>1. nextId < MaxEvents
    BY <1>25, ConstantsAssumption DEF Run
  <2>. QED  BY <1>25, <2>1, <1>1, <1>2, CreateType DEF Run, ScheduleType
<1>26. CASE Restore  BY <1>26, ConstantsAssumption DEF Restore
<1>27. CASE Abort  BY <1>27 DEF Abort
<1>28. CASE UNCHANGED vars  BY <1>28 DEF vars
<1>. QED
  BY <1>3, <1>4, <1>5, <1>6, <1>7, <1>8, <1>9, <1>10, <1>11, <1>12, <1>13,
     <1>14, <1>15, <1>16, <1>17, <1>18, <1>19, <1>19a, <1>20, <1>21, <1>22, <1>23,
     <1>24, <1>25, <1>26, <1>27, <1>28
  DEF Next, ThreadStep, ClientCall, UndatedCall

\* Every reachable state is well typed; no sum of times overflows.
THEOREM TypeCorrect == Spec => []TypeOK
<1>1. Init => TypeInv  BY TypeInvInit
<1>2. TypeInv /\ [Next]_vars => TypeInv'  BY TypeInvStep
<1>3. TypeInv => TypeOK  BY DEF TypeInv
<1>. QED  BY <1>1, <1>2, <1>3, PTL DEF Spec

-----------------------------------------------------------------------------
(***************************************************************************)
(* Punctuality. The inductive invariant says where the scheduler's copy of *)
(* the time equals the time keeper's, what the queue holds when the clock  *)
(* is about to move, and what was taken out of it.                         *)
(***************************************************************************)

\* An event at time t is not behind time now.
NotBehind(t, now) == t \in {Immediate, Never} \/ t >= now

\* The two copies of the time differ only from the moment the clock moves to
\* the moment the scheduler selects an event.
ClocksAgree ==
  pc \notin {"preChange", "postChange", "select"} => simulationTime = simTime

\* When the clock is about to move to nextEventTime, nothing is due before.
NextIsFirst ==
  pc = "preChange" =>
    /\ simTime <= nextEventTime
    /\ \A e \in scheduled : sched[e].time = Never \/ sched[e].time >= nextEventTime

\* The event taken out of the queue is due now.
SelectedIsDue ==
  pc = "run" => sched[currentSchedule].time \in {Immediate, simTime}

TimeInv ==
  /\ TypeInv
  /\ ClocksAgree
  /\ NoPastEvent
  /\ NextIsFirst
  /\ SelectedIsDue

\* With the clocks in agreement, a duration from now is not behind now.
LEMMA AbsoluteTimeNotBehind ==
  ASSUME TypeOK, simulationTime = simTime,
         NEW rel \in Nat \union {Never}
  PROVE  NotBehind(AbsoluteTime(rel), simTime)
  BY DEF NotBehind, AbsoluteTime, TypeOK

\* A schedule that is moved to a time not behind the clock, leaving the other
\* schedules' times as they are, leaves no event in the past.
LEMMA SetTimeNotPast ==
  ASSUME TypeOK, NoPastEvent, simTime' = simTime,
         NEW s \in [EventId -> ScheduleType],
         \A o \in EventId : s[o].time = sched[o].time,
         NEW e \in EventId, NEW t \in Time, NotBehind(t, simTime),
         SetTime(s, e, t)
  PROVE  NoPastEvent'
  <1>1. \A o \in EventId :
          sched'[o].time = IF o = e THEN t ELSE sched[o].time
    BY DEF SetTime, ScheduleType
  <1>. QED
    BY <1>1 DEF SetTime, NoPastEvent, NotBehind, TypeOK

\* The same for a new schedule.
LEMMA CreateNotPast ==
  ASSUME TypeOK, NoPastEvent, simTime' = simTime, nextId \in EventId,
         NEW kind, NEW t \in Time, NotBehind(t, simTime),
         NEW cycle, NEW repeat, Create(kind, t, cycle, repeat)
  PROVE  NoPastEvent'
  <1>1. \A o \in EventId :
          sched'[o].time = IF o = nextId THEN t ELSE sched[o].time
    BY DEF Create, TypeOK
  <1>. QED
    BY <1>1 DEF Create, NoPastEvent, NotBehind, TypeOK

\* The head of the queue is due before every other event that is activable.
LEMMA HeadIsFirst ==
  ASSUME TypeOK, NEW e \in scheduled, IsHead(e), NEW o \in scheduled,
         sched[o].time # Never
  PROVE  sched[e].time # Never /\ sched[e].time <= sched[o].time
  <1>1. /\ e \in EventId /\ o \in EventId
        /\ sched[e].time \in Int /\ sched[o].time \in Int
    BY ConstantsAssumption DEF TypeOK, Time, Immediate, Never
  <1>. QED  BY <1>1 DEF IsHead, Before

LEMMA TimeInvStep ==
  ASSUME ClientsInSync, TimeInv, [Next]_vars
  PROVE  TimeInv'
<1> USE DEF TimeInv, TypeInv, queueVars, timeVars
<1>0. TypeInv'
  BY TypeInvStep
<1>1. /\ sched \in [EventId -> ScheduleType]
      /\ \A e \in EventId : sched[e].time \in Time /\ sched[e].time \in Int
      /\ scheduled \subseteq EventId
      /\ simTime \in Nat /\ simulationTime \in Nat /\ nextEventTime \in Nat
  BY ConstantsAssumption
  DEF TypeOK, ScheduleType, Time, Immediate, Never
<1>2. NotBehind(Immediate, simTime) /\ NotBehind(Never, simTime)
      /\ Immediate \in Time /\ Never \in Time
  BY DEF NotBehind, Time
<1> USE DEF ClocksAgree, NextIsFirst, SelectedIsDue
<1>3. CASE StopSeen  BY <1>3, <1>0, <1>1 DEF StopSeen, NoPastEvent
<1>4. CASE Pause  BY <1>4, <1>0, <1>1 DEF Pause, NoPastEvent
<1>5. CASE WakeUp  BY <1>5, <1>0, <1>1 DEF WakeUp, NoPastEvent
<1>6. CASE AutoHold
  <2>1. nextId \in EventId
    BY <1>6, ConstantsAssumption DEF AutoHold, TypeOK, EventId
  <2>2. NoPastEvent'
    BY <1>6, <2>1, <1>2, CreateNotPast DEF AutoHold
  <2>. QED  BY <1>6, <2>2, <1>0, <1>1 DEF AutoHold, Loop
<1>7. CASE Proceed  BY <1>7, <1>0, <1>1 DEF Proceed, NoPastEvent
<1>8. CASE UpdateTime
  <2>1. PICK next \in NextTimes :
          NextTimeIs(next) /\ next > simTime /\ nextEventTime' = next
    BY <1>8 DEF UpdateTime
  <2>2. PICK e \in scheduled : IsHead(e) /\ next = HeadTime(e)
    BY <2>1, <1>1 DEF NextTimeIs, Never
  <2>3. sched[e].time = next
    BY <2>1, <2>2, <1>8, <1>1 DEF UpdateTime, HeadTime
  <2>4. \A o \in scheduled : sched[o].time = Never \/ sched[o].time >= next
    BY <2>2, <2>3, <1>1, HeadIsFirst
  <2>5. simTime <= next
    BY <2>1, <2>3, <1>1
  <2>. QED
    BY <2>1, <2>4, <2>5, <1>8, <1>0, <1>1 DEF UpdateTime, NoPastEvent
<1>9. CASE KeepTime  BY <1>9, <1>0, <1>1 DEF KeepTime, NoPastEvent
<1>10. CASE RefusePast  BY <1>10, <1>0, <1>1 DEF RefusePast, NoPastEvent
<1>11. CASE SetSimulationTime
  BY <1>11, <1>0, <1>1 DEF SetSimulationTime, NoPastEvent
<1>12. CASE ChangeTime
  BY <1>12, <1>0, <1>1 DEF ChangeTime, NoPastEvent
<1>13. CASE TimeChanged
  BY <1>13, <1>0, <1>1 DEF TimeChanged, NoPastEvent
<1>14. CASE Select
  <2>1. NoPastEvent'
    BY <1>14, <1>1 DEF Select, NoPastEvent
  <2>2. SelectedIsDue'
    <3>1. CASE \E e \in scheduled : Due(e) /\ currentSchedule' = e
      BY <3>1, <1>14, <1>1 DEF Select, Due, NoPastEvent
    <3>2. CASE pc' = Loop
      BY <3>2 DEF Loop
    <3>. QED  BY <3>1, <3>2, <1>14 DEF Select
  <2>. QED  BY <2>1, <2>2, <1>14, <1>0 DEF Select, Loop
<1>15. CASE BeginRun
  <2> DEFINE e == currentSchedule
             old == sched[e]
             last == old.repeat = 0
             rep == IF old.repeat > 0 THEN old.repeat - 1 ELSE old.repeat
             upd == [sched EXCEPT ![e].completed = last, ![e].repeat = rep]
  <2>1. e \in EventId /\ old \in ScheduleType /\ last \in BOOLEAN
    BY <1>15, <1>1 DEF BeginRun, CurrentSet
  <2>2. rep \in Int
    BY <2>1 DEF ScheduleType
  <2>3. /\ upd \in [EventId -> ScheduleType]
        /\ \A o \in EventId : upd[o].time = sched[o].time
    <3>. HIDE DEF last, rep
    <3>. QED  BY <2>1, <2>2, <1>1 DEF ScheduleType
  <2>4. NoPastEvent'
    <3>1. CASE ~last /\ old.period > 0
      <4>1. NextActivation(old.time, old.period) \in Time
        BY <2>1, <3>1, NextActivationType DEF ScheduleType
      <4>2. NotBehind(NextActivation(old.time, old.period), simTime)
        BY <1>15, <2>1, <3>1, <1>1
        DEF NotBehind, NextActivation, BeginRun, ScheduleType, Immediate
      <4>3. SetTime(upd, e, NextActivation(old.time, old.period))
        BY <1>15, <3>1 DEF BeginRun
      <4>4. simTime' = simTime
        BY <1>15 DEF BeginRun
      <4>. QED  BY <2>1, <2>3, <4>1, <4>2, <4>3, <4>4, SetTimeNotPast
    <3>2. CASE ~ (~last /\ old.period > 0)
      <4>1. sched' = upd /\ scheduled' = scheduled /\ simTime' = simTime
        BY <1>15, <3>2 DEF BeginRun
      <4>. HIDE DEF upd
      <4>. QED  BY <4>1, <2>3, <1>1 DEF NoPastEvent
    <3>. QED  BY <3>1, <3>2
  <2>. QED  BY <2>4, <1>15, <1>0 DEF BeginRun
<1>16. CASE EndRun
  <2>1. currentSchedule \in EventId /\ simTime' = simTime
    BY <1>16 DEF EndRun, CurrentSet
  <2>2. NoPastEvent'
    <3>1. CASE SetTime(sched, currentSchedule, Never)
      BY <3>1, <2>1, <1>1, <1>2, SetTimeNotPast
    <3>2. CASE UNCHANGED <<sched, scheduled>>
      BY <3>2, <2>1 DEF NoPastEvent
    <3>. QED  BY <1>16, <3>1, <3>2 DEF EndRun
  <2>. QED  BY <2>2, <1>16, <1>0 DEF EndRun
<1>17. CASE EndStep  BY <1>17, <1>0, <1>1 DEF EndStep, Loop, NoPastEvent
<1>18. CASE AddImmediateEvent
  <2>1. nextId \in EventId
    BY <1>18, ConstantsAssumption DEF AddImmediateEvent, MayAdd, TypeOK, EventId
  <2>2. NoPastEvent'
    BY <1>18, <2>1, <1>2, CreateNotPast DEF AddImmediateEvent
  <2>3. pc \notin {"run", "preChange"}
    BY <1>18, ConstantsAssumption
    DEF AddImmediateEvent, MayCall, ClientsInSync, Site
  <2>. QED  BY <2>2, <2>3, <1>18, <1>0 DEF AddImmediateEvent
<1>19. CASE AddSimulationTimeEvent
  <2>1. PICK rel \in RelTimes, cycle \in Cycles, repeat \in Repeats :
          HasAbsoluteTime(rel) /\ Create("user", AbsoluteTime(rel), cycle, repeat)
    BY <1>19 DEF AddSimulationTimeEvent
  <2>2. nextId \in EventId
    BY <1>19, ConstantsAssumption
    DEF AddSimulationTimeEvent, MayAdd, TypeOK, EventId
  <2>3. pc \notin {"run", "preChange", "postChange", "select"}
    BY <1>19, ConstantsAssumption
    DEF AddSimulationTimeEvent, MayCall, ClientsInSync, Site
  <2>4. rel \in Nat \union {Never}
    BY ConstantsAssumption
  <2>5. AbsoluteTime(rel) \in Time
    BY <2>1, <2>4, AbsoluteTimeType DEF TypeOK
  <2>6. NotBehind(AbsoluteTime(rel), simTime)
    BY <2>3, <2>4, AbsoluteTimeNotBehind
  <2>7. simTime' = simTime
    BY <1>19 DEF AddSimulationTimeEvent
  <2>8. NoPastEvent'
    BY <2>1, <2>2, <2>5, <2>6, <2>7, CreateNotPast
  <2>. QED  BY <2>3, <2>8, <1>19, <1>0 DEF AddSimulationTimeEvent
<1>19a. CASE AddDatedEvent
  <2>1. PICK rel \in RelTimes, cycle \in Cycles, repeat \in Repeats :
          HasAbsoluteTime(rel) /\ Create("user", AbsoluteTime(rel), cycle, repeat)
    BY <1>19a DEF AddDatedEvent, AddDated
  <2>2. nextId \in EventId
    BY <1>19a, ConstantsAssumption
    DEF AddDatedEvent, AddDated, MayAdd, TypeOK, EventId
  <2>3. pc \notin {"run", "preChange", "postChange", "select"}
    BY <1>19a, ConstantsAssumption
    DEF AddDatedEvent, AddDated, MayCall, ClientsInSync, Site
  <2>4. rel \in Nat \union {Never}
    BY ConstantsAssumption
  <2>5. AbsoluteTime(rel) \in Time
    BY <2>1, <2>4, AbsoluteTimeType DEF TypeOK
  <2>6. NotBehind(AbsoluteTime(rel), simTime)
    BY <2>3, <2>4, AbsoluteTimeNotBehind
  <2>7. simTime' = simTime
    BY <1>19a DEF AddDatedEvent, AddDated
  <2>8. NoPastEvent'
    BY <2>1, <2>2, <2>5, <2>6, <2>7, CreateNotPast
  <2>. QED  BY <2>3, <2>8, <1>19a, <1>0 DEF AddDatedEvent, AddDated
<1>20. CASE SetEventSimulationTime
  <2>1. PICK e \in EventId, rel \in RelTimes :
          HasAbsoluteTime(rel) /\ SetTime(sched, e, AbsoluteTime(rel))
    BY <1>20 DEF SetEventSimulationTime, MoveEvent
  <2>3. pc \notin {"run", "preChange", "postChange", "select"}
    BY <1>20, ConstantsAssumption
    DEF SetEventSimulationTime, MoveEvent, MayCall, ClientsInSync, Site
  <2>4. rel \in Nat \union {Never}
    BY ConstantsAssumption
  <2>5. AbsoluteTime(rel) \in Time
    BY <2>1, <2>4, AbsoluteTimeType DEF TypeOK
  <2>6. NotBehind(AbsoluteTime(rel), simTime)
    BY <2>3, <2>4, AbsoluteTimeNotBehind
  <2>7. simTime' = simTime
    BY <1>20 DEF SetEventSimulationTime, MoveEvent
  <2>8. NoPastEvent'
    BY <2>1, <2>5, <2>6, <2>7, <1>1, SetTimeNotPast
  <2>. QED  BY <2>3, <2>8, <1>20, <1>0 DEF SetEventSimulationTime, MoveEvent
<1>21. CASE SetEventCycleTime
  <2>1. PICK e \in EventId, cycle \in Cycles :
          sched' = [sched EXCEPT ![e].period = cycle]
    BY <1>21 DEF SetEventCycleTime
  <2>2. \A o \in EventId : sched'[o].time = sched[o].time
    BY <2>1, <1>1 DEF ScheduleType
  <2>3. pc \notin {"run", "preChange"}
    BY <1>21, ConstantsAssumption
    DEF SetEventCycleTime, MayCall, ClientsInSync, Site
  <2>. QED  BY <2>2, <2>3, <1>21, <1>0, <1>1 DEF SetEventCycleTime, NoPastEvent
<1>22. CASE SetEventRepeat
  <2>1. PICK e \in EventId, repeat \in Repeats :
          sched' = [sched EXCEPT ![e].repeat = repeat]
    BY <1>22 DEF SetEventRepeat
  <2>2. \A o \in EventId : sched'[o].time = sched[o].time
    BY <2>1, <1>1 DEF ScheduleType
  <2>3. pc \notin {"run", "preChange"}
    BY <1>22, ConstantsAssumption
    DEF SetEventRepeat, MayCall, ClientsInSync, Site
  <2>. QED  BY <2>2, <2>3, <1>22, <1>0, <1>1 DEF SetEventRepeat, NoPastEvent
<1>23. CASE RemoveEvent
  <2>1. pc \notin {"run", "preChange", "postChange", "select"}
    BY <1>23, ConstantsAssumption DEF RemoveEvent, MayCall, ClientsInSync, Site
  <2>. QED  BY <2>1, <1>23, <1>0, <1>1 DEF RemoveEvent, NoPastEvent
<1>24. CASE Hold
  <2>1. nextId \in EventId
    BY <1>24, ConstantsAssumption DEF Hold, MayAdd, TypeOK, EventId
  <2>2. pc \notin {"run", "preChange", "postChange", "select"}
    BY <1>24, ConstantsAssumption DEF Hold, MayCall, ClientsInSync, Site
  <2>3. PICK t \in {Immediate, AbsoluteTime(1)} :
          /\ Create("stop", t, 0, 0)
          /\ t = Immediate \/ HasAbsoluteTime(1)
    BY <1>24 DEF Hold
  <2>4. t \in Time
    BY <2>3, <1>2, AbsoluteTimeType DEF TypeOK
  <2>5. NotBehind(t, simTime)
    BY <2>2, <2>3, <1>2, AbsoluteTimeNotBehind
  <2>6. simTime' = simTime
    BY <1>24 DEF Hold
  <2>7. NoPastEvent'
    BY <2>1, <2>3, <2>4, <2>5, <2>6, CreateNotPast
  <2>. QED  BY <2>2, <2>7, <1>24, <1>0 DEF Hold
<1>25. CASE Run
  <2>1. nextId \in EventId
    BY <1>25, ConstantsAssumption DEF Run, TypeOK, EventId
  <2>2. NoPastEvent'
    BY <1>25, <2>1, <1>2, CreateNotPast DEF Run
  <2>. QED  BY <2>2, <1>25, <1>0 DEF Run
<1>26. CASE Restore
  BY <1>26 DEF Restore, ClientsInSync
<1>27. CASE Abort  BY <1>27, <1>0, <1>1 DEF Abort, NoPastEvent
<1>28. CASE UNCHANGED vars  BY <1>28, <1>0, <1>1 DEF vars, NoPastEvent
<1>. QED
  BY <1>3, <1>4, <1>5, <1>6, <1>7, <1>8, <1>9, <1>10, <1>11, <1>12, <1>13,
     <1>14, <1>15, <1>16, <1>17, <1>18, <1>19, <1>19a, <1>20, <1>21, <1>22, <1>23,
     <1>24, <1>25, <1>26, <1>27, <1>28
  DEF Next, ThreadStep, ClientCall, UndatedCall

LEMMA TimeInvariant == ClientsInSync => (Spec => []TimeInv)
<1> SUFFICES ASSUME ClientsInSync PROVE Spec => []TimeInv
  OBVIOUS
<1>1. Init => TimeInv
  BY TypeInvInit
  DEF Init, TimeInv, ClocksAgree, NoPastEvent, NextIsFirst, SelectedIsDue
<1>2. TimeInv /\ [Next]_vars => TimeInv'
  BY TimeInvStep
<1>. QED  BY <1>1, <1>2, PTL DEF Spec

\* The queue never holds an event whose time has gone by, as long as clients
\* call the scheduler while its copy of the time is up to date.
THEOREM EventsStayAhead == ClientsInSync => (Spec => []NoPastEvent)
<1>1. TimeInv => NoPastEvent  BY DEF TimeInv
<1>. QED  BY <1>1, TimeInvariant, PTL

\* Who moves the clock, and what moves with it.
LEMMA WhoChangesTime ==
  ASSUME RestoreTimes = {}, [Next]_vars, simTime' # simTime
  PROVE  SetSimulationTime \/ ChangeTime
  BY DEF Next, ThreadStep, ClientCall, UndatedCall, AddDatedEvent,
         AddDated, MoveEvent, vars, queueVars, timeVars, StopSeen,
         Pause, WakeUp, AutoHold, Proceed, UpdateTime, KeepTime, RefusePast,
         TimeChanged, Select, BeginRun, EndRun, EndStep, AddImmediateEvent,
         AddSimulationTimeEvent, SetEventSimulationTime, SetEventCycleTime,
         SetEventRepeat, RemoveEvent, Hold, Run, Restore, Abort

\* Who takes an event out of the queue to run it.
LEMMA WhoSelects ==
  ASSUME [Next]_vars, currentSchedule' # currentSchedule, currentSchedule' # None
  PROVE  Select
  BY DEF Next, ThreadStep, ClientCall, UndatedCall, AddDatedEvent,
         AddDated, MoveEvent, vars, queueVars, timeVars, StopSeen,
         Pause, WakeUp, AutoHold, Proceed, UpdateTime, KeepTime, RefusePast,
         ChangeTime, TimeChanged, BeginRun, EndRun, EndStep,
         SetSimulationTime, AddImmediateEvent, AddSimulationTimeEvent,
         SetEventSimulationTime, SetEventCycleTime, SetEventRepeat,
         RemoveEvent, Hold, Run, Restore, Abort

\* The clock never jumps over an event that is due.
THEOREM ClockStopsAtEvents == ClientsInSync => (Spec => TimeNeverSkips)
<1> SUFFICES ASSUME ClientsInSync PROVE Spec => TimeNeverSkips
  OBVIOUS
<1>1. TimeInv /\ [Next]_vars =>
        [simTime' # simTime =>
           \A e \in scheduled :
             sched[e].time = Never \/ sched[e].time >= simTime']_vars
  <2> SUFFICES ASSUME TimeInv, [Next]_vars, simTime' # simTime,
                      NEW e \in scheduled
               PROVE  sched[e].time = Never \/ sched[e].time >= simTime'
    OBVIOUS
  <2>1. /\ sched[e].time \in Int
        /\ simTime \in Nat /\ nextEventTime \in Nat
    BY ConstantsAssumption
    DEF TimeInv, TypeInv, TypeOK, Time, Immediate, Never
  <2>2. CASE SetSimulationTime
    BY <2>1, <2>2 DEF SetSimulationTime, TimeInv, NextIsFirst
  <2>3. CASE ChangeTime
    BY <2>1, <2>3 DEF ChangeTime, TimeInv, NextIsFirst
  <2>. QED  BY <2>2, <2>3, WhoChangesTime DEF ClientsInSync
<1>. QED  BY <1>1, TimeInvariant, PTL DEF Spec, TimeNeverSkips

\* An event runs exactly at the time it was scheduled for.
THEOREM EventsArePunctual == ClientsInSync => (Spec => RunsOnTime)
<1> SUFFICES ASSUME ClientsInSync PROVE Spec => RunsOnTime
  OBVIOUS
<1>1. TimeInv /\ [Next]_vars =>
        [currentSchedule = None /\ currentSchedule' # None =>
           sched[currentSchedule'].time \in {Immediate, simTime}]_vars
  <2> SUFFICES ASSUME TimeInv, [Next]_vars,
                      currentSchedule = None, currentSchedule' # None
               PROVE  sched[currentSchedule'].time \in {Immediate, simTime}
    OBVIOUS
  <2>1. Select
    BY WhoSelects
  <2>2. PICK e \in scheduled : Due(e) /\ currentSchedule' = e
    BY <2>1 DEF Select
  <2>3. sched[e].time \in Int /\ simTime \in Nat
    BY ConstantsAssumption
    DEF TimeInv, TypeInv, TypeOK, Time, Immediate, Never
  <2>. QED  BY <2>2, <2>3 DEF Due, TimeInv, NoPastEvent
<1>. QED  BY <1>1, TimeInvariant, PTL DEF Spec, RunsOnTime

\* The clock stops at every event, and each event runs when it is there.
THEOREM StepsStayOnTime == ClientsInSync => (Spec => StepsAreOnTime)
<1> SUFFICES ASSUME ClientsInSync PROVE Spec => StepsAreOnTime
  OBVIOUS
<1>1. Spec => TimeNeverSkips
  BY ClockStopsAtEvents
<1>2. Spec => RunsOnTime
  BY EventsArePunctual
<1>. QED  BY <1>1, <1>2, PTL DEF StepsAreOnTime

\* Whatever the clients do and wherever they call from, no event runs early.
THEOREM NothingRunsEarly == Spec => NeverEarly
<1>1. [Next]_vars =>
        [currentSchedule = None /\ currentSchedule' # None =>
           /\ sched[currentSchedule'].time # Never
           /\ sched[currentSchedule'].time <= simTime]_vars
  <2> SUFFICES ASSUME [Next]_vars,
                      currentSchedule = None, currentSchedule' # None
               PROVE  /\ sched[currentSchedule'].time # Never
                      /\ sched[currentSchedule'].time <= simTime
    OBVIOUS
  <2>1. Select
    BY WhoSelects
  <2>. QED  BY <2>1 DEF Select, Due
<1>. QED  BY <1>1, PTL DEF Spec, NeverEarly

\* The clock is about to move forward.
ForwardInv ==
  TypeInv /\ (pc = "preChange" => simTime <= nextEventTime)

LEMMA ForwardInvStep == ForwardInv /\ [Next]_vars => ForwardInv'
<1> SUFFICES ASSUME ForwardInv, [Next]_vars
             PROVE  ForwardInv'
  OBVIOUS
<1>1. TypeInv'
  BY TypeInvStep DEF ForwardInv
<1>2. simTime \in Int /\ nextEventTime \in Int
  BY ConstantsAssumption DEF ForwardInv, TypeInv, TypeOK
<1>3. CASE UpdateTime
  BY <1>1, <1>2, <1>3 DEF ForwardInv, UpdateTime, NextTimes, Time, Never, Immediate
<1>4. CASE SetSimulationTime
  BY <1>1, <1>2, <1>4 DEF ForwardInv, SetSimulationTime
<1>5. CASE pc' # "preChange"
  BY <1>1, <1>5 DEF ForwardInv
<1>6. CASE UNCHANGED <<pc, simTime, nextEventTime>>
  BY <1>1, <1>6 DEF ForwardInv
<1>7. UpdateTime \/ SetSimulationTime \/ pc' # "preChange"
        \/ UNCHANGED <<pc, simTime, nextEventTime>>
  BY DEF Next, ThreadStep, ClientCall, UndatedCall, AddDatedEvent,
         AddDated, MoveEvent, vars, queueVars, timeVars, Loop,
         StopSeen, Pause, WakeUp, AutoHold, Proceed, KeepTime, RefusePast,
         ChangeTime, TimeChanged, Select, BeginRun, EndRun, EndStep,
         AddImmediateEvent, AddSimulationTimeEvent, SetEventSimulationTime,
         SetEventCycleTime, SetEventRepeat, RemoveEvent, Hold, Run, Restore,
         Abort
<1>. QED  BY <1>3, <1>4, <1>5, <1>6, <1>7

\* Whatever the clients do, nothing runs early and time does not go back.
THEOREM TimeIsAlwaysKept == Spec => TimeIsKept
<1>1. Init => ForwardInv
  BY TypeInvInit DEF Init, ForwardInv
<1>2. ForwardInv /\ [Next]_vars => [simTime' < simTime => pc = "exited"]_vars
  <2> SUFFICES ASSUME ForwardInv, [Next]_vars, simTime' < simTime
               PROVE  pc = "exited"
    OBVIOUS
  <2>1. simTime \in Int /\ nextEventTime \in Int
    BY ConstantsAssumption DEF ForwardInv, TypeInv, TypeOK
  <2>2. SetSimulationTime \/ ChangeTime \/ Restore \/ simTime' = simTime
    BY DEF Next, ThreadStep, ClientCall, UndatedCall, AddDatedEvent,
         AddDated, MoveEvent, vars, queueVars, timeVars, StopSeen,
           Pause, WakeUp, AutoHold, Proceed, UpdateTime, KeepTime, RefusePast,
           TimeChanged, Select, BeginRun, EndRun, EndStep, AddImmediateEvent,
           AddSimulationTimeEvent, SetEventSimulationTime, SetEventCycleTime,
           SetEventRepeat, RemoveEvent, Hold, Run, Abort
  <2>. QED
    BY <2>1, <2>2 DEF ForwardInv, SetSimulationTime, ChangeTime, Restore
<1>3. Spec => TimeNeverGoesBack
  BY <1>1, <1>2, ForwardInvStep, PTL DEF Spec, TimeNeverGoesBack
<1>. QED  BY <1>3, NothingRunsEarly DEF TimeIsKept

-----------------------------------------------------------------------------
(***************************************************************************)
(* The exception of the time keeper. When the scheduler emits              *)
(* PreEventExecute the queue holds an event that is not Never.             *)
(***************************************************************************)

SomethingToDo ==
  pc = "preExec" => \E e \in scheduled : sched[e].time # Never

AliveInv == TimeInv /\ SomethingToDo /\ NeverDies

LEMMA AliveInvStep ==
  ASSUME ClientsLetStepsFinish, AutoStop = {TRUE}, AliveInv, [Next]_vars
  PROVE  AliveInv'
<1> USE DEF AliveInv
<1>1. TimeInv'
  BY TimeInvStep DEF ClientsLetStepsFinish
<1>2. CASE Proceed
  <2>1. PICK next \in NextTimes \ {Never, DurationMax} : NextTimeIs(next)
    BY <1>2 DEF Proceed
  <2>2. PICK e \in scheduled : next = HeadTime(e)
    BY <2>1 DEF NextTimeIs
  <2>3. sched[e].time # Never
    BY <2>1, <2>2 DEF HeadTime, Immediate, Never
  <2>. QED
    BY <2>3, <1>1, <1>2
    DEF Proceed, SomethingToDo, NeverDies, queueVars, timeVars
<1>3. ~ RefusePast
  <2> SUFFICES ASSUME RefusePast PROVE FALSE
    OBVIOUS
  <2>1. PICK next \in NextTimes : NextTimeIs(next) /\ next < simTime
    BY DEF RefusePast
  <2>2. PICK o \in scheduled : sched[o].time # Never
    BY DEF RefusePast, SomethingToDo
  <2>3. PICK e \in scheduled : IsHead(e) /\ next = HeadTime(e)
    BY <2>1, <2>2 DEF NextTimeIs
  <2>4. sched[e].time # Never
    BY <2>2, <2>3, HeadIsFirst DEF TimeInv, TypeInv
  <2>5. /\ simulationTime = simTime /\ simTime \in Nat
        /\ sched[e].time \in Int
    BY ConstantsAssumption
    DEF RefusePast, TimeInv, ClocksAgree, TypeInv, TypeOK, Time,
        Immediate, Never
  <2>. QED
    BY <2>1, <2>3, <2>4, <2>5 DEF HeadTime, TimeInv, NoPastEvent
<1>4. CASE Abort
  BY <1>1, <1>4
  DEF Abort, SomethingToDo, NeverDies, queueVars, timeVars
<1>5. CASE UNCHANGED vars
  BY <1>1, <1>5 DEF vars, SomethingToDo, NeverDies, queueVars, timeVars
<1>6. ASSUME Next, ~Proceed, ~Abort
      PROVE  pc' \notin {"preExec", "dead"}
  <2> USE <1>6, <1>3
  <2>1. CASE ThreadStep
    BY <2>1
    DEF ThreadStep, StopSeen, Pause, WakeUp, AutoHold, UpdateTime, KeepTime,
        ChangeTime, TimeChanged, Select, BeginRun, EndRun, EndStep, Loop
  <2>2. CASE ClientCall /\ ~ SetSimulationTime /\ ~ Run /\ ~ Restore
    <3>1. pc \in CallSites
      BY <2>2
      DEF ClientCall, UndatedCall, AddDatedEvent, AddDated, MoveEvent,
          MayCall, AddImmediateEvent, AddSimulationTimeEvent,
          SetEventSimulationTime, SetEventCycleTime, SetEventRepeat,
          RemoveEvent, Hold
    <3>2. pc \notin {"preExec", "dead"}
      BY <3>1, ConstantsAssumption DEF ClientsLetStepsFinish, Site
    <3>. QED
      BY <2>2, <3>2
      DEF ClientCall, UndatedCall, AddDatedEvent, AddDated, MoveEvent,
          AddImmediateEvent, AddSimulationTimeEvent,
          SetEventSimulationTime, SetEventCycleTime, SetEventRepeat,
          RemoveEvent, Hold
  <2>3. CASE SetSimulationTime \/ Run \/ Restore
    BY <2>3 DEF SetSimulationTime, Run, Restore
  <2>. QED  BY <2>1, <2>2, <2>3 DEF Next
<1>7. CASE Next /\ ~Proceed /\ ~Abort
  BY <1>1, <1>6, <1>7 DEF SomethingToDo, NeverDies
<1>. QED  BY <1>2, <1>4, <1>5, <1>7

\* With autoStop, the scheduler thread never meets the exception of the time
\* keeper, as long as clients let a step that has begun find its event.
THEOREM SchedulerSurvives ==
  ClientsLetStepsFinish /\ AutoStop = {TRUE} => (Spec => []NeverDies)
<1> SUFFICES ASSUME ClientsLetStepsFinish, AutoStop = {TRUE}
             PROVE  Spec => []NeverDies
  OBVIOUS
<1>1. Init => AliveInv
  BY TypeInvInit
  DEF Init, AliveInv, SomethingToDo, NeverDies, TimeInv, ClocksAgree,
      NoPastEvent, NextIsFirst, SelectedIsDue
<1>2. AliveInv /\ [Next]_vars => AliveInv'
  BY AliveInvStep
<1>3. AliveInv => NeverDies
  BY DEF AliveInv
<1>. QED  BY <1>1, <1>2, <1>3, PTL DEF Spec

\* Under the same condition nothing of the queue is behind the clock either.
THEOREM QueueStaysAhead ==
  ClientsLetStepsFinish /\ AutoStop = {TRUE} => (Spec => []QueueIsAhead)
<1> SUFFICES ASSUME ClientsLetStepsFinish, AutoStop = {TRUE}
             PROVE  Spec => []QueueIsAhead
  OBVIOUS
<1>1. Spec => []NoPastEvent
  BY EventsStayAhead DEF ClientsLetStepsFinish
<1>2. Spec => []NeverDies
  BY SchedulerSurvives
<1>3. NoPastEvent /\ NeverDies => QueueIsAhead
  BY DEF QueueIsAhead
<1>. QED  BY <1>1, <1>2, <1>3, PTL

-----------------------------------------------------------------------------
(***************************************************************************)
(* What is proved of the scheduler holds with epoch and mission times too, *)
(* because each step of MissionTime is one of Scheduler or leaves it       *)
(* alone, until a date is given that has passed.                           *)
(***************************************************************************)

LEMMA MovesAreSchedulerSteps ==
  ASSUME NEW date, NEW STATE now, Move(date, now), ~late'
  PROVE  Next
<1>1. PICK e \in EventId : MoveEvent(e, Until(date, now))
  BY DEF Move
<1>2. Until(date, now) \in RelTimes
  BY DEF Move, TakesDate
<1>3. SetEventSimulationTime
  BY <1>1, <1>2 DEF SetEventSimulationTime
<1>. QED  BY <1>3 DEF Next, ClientCall, UndatedCall

LEMMA AddsAreSchedulerSteps ==
  ASSUME NEW date, NEW STATE now, Add(date, now), ~late'
  PROVE  Next
<1>1. AddDatedEvent
  BY DEF Add, AddDatedEvent, TakesDate
<1>. QED  BY <1>1 DEF Next, ClientCall

LEMMA MissionStep == [MissionNext]_missionVars /\ ~late' => [Next]_vars
<1> SUFFICES ASSUME [MissionNext]_missionVars, ~late' PROVE [Next]_vars
  OBVIOUS
<1>1. CASE Undated
  BY <1>1 DEF Undated, Next, ClientCall
<1>2. CASE SetEpochTime \/ SetMissionStartTime \/ SetMissionTime
  BY <1>2 DEF SetEpochTime, SetMissionStartTime, SetMissionTime, MayChange
<1>3. CASE \E date \in Dates :
             \/ AddMissionTimeEvent(date) \/ SetEventMissionTime(date)
             \/ AddEpochTimeEvent(date)   \/ SetEventEpochTime(date)
  BY <1>3, AddsAreSchedulerSteps, MovesAreSchedulerSteps
  DEF AddMissionTimeEvent, SetEventMissionTime, AddEpochTimeEvent,
      SetEventEpochTime
<1>4. CASE UNCHANGED missionVars
  BY <1>4 DEF missionVars
<1>. QED  BY <1>1, <1>2, <1>3, <1>4 DEF MissionNext

LEMMA LateStays == late /\ [MissionNext]_missionVars => late'
  BY DEF MissionNext, missionVars, Undated, SetEpochTime, SetMissionStartTime,
         SetMissionTime, MayChange, AddMissionTimeEvent, AddEpochTimeEvent,
         SetEventMissionTime, SetEventEpochTime, Add, Move, TakesDate

\* The scheduler with time scales implements the one without: whatever dates
\* the clients give that have not passed and however they set the scales, an
\* event is scheduled, moved and run as one of TimeKeeper's simulation time.
THEOREM DatesAreSimulationTimes == MissionSpec /\ []~late => Spec
<1>1. MissionInit => Init
  BY DEF MissionInit
<1>. QED  BY <1>1, MissionStep, PTL DEF MissionSpec, Spec

\* Until a date is given that has passed, which the code does not refuse, no
\* event that was added or moved to a mission or epoch date is ever behind the
\* clock, nor the scheduler thread at its end (Scheduler::AddMissionTimeEvent,
\* SetEventEpochTime and the others), if clients let the steps finish.
THEOREM DatedQueueStaysAhead ==
  ASSUME ClientsLetStepsFinish, AutoStop = {TRUE}
  PROVE  MissionSpec => [](~late => QueueIsAhead)
<1>1. MissionInit => AliveInv
  BY TypeInvInit
  DEF MissionInit, Init, AliveInv, TimeInv, SomethingToDo, NeverDies, ClocksAgree,
      NoPastEvent, NextIsFirst, SelectedIsDue
<1>2. (late \/ AliveInv) /\ [MissionNext]_missionVars => (late \/ AliveInv)'
  BY LateStays, MissionStep, AliveInvStep
<1>3. (late \/ AliveInv) => (~late => QueueIsAhead)
  BY DEF AliveInv, TimeInv, QueueIsAhead
<1>. QED  BY <1>1, <1>2, <1>3, PTL DEF MissionSpec

-----------------------------------------------------------------------------
(***************************************************************************)
(* Plans: what each event does is what was asked for it. The theorem is    *)
(* about the scheduler with the history variables of MCSchedulerPlan.      *)
(***************************************************************************)

\* What a plan is compared with does not change behind its back: clients
\* call where the clocks agree, do not set cycle times and repeat counts, and
\* do not move an event in its last activation.
PlanClients ==
  /\ ClientsInSync
  /\ Calls \intersect {"SetEventCycleTime", "SetEventRepeat", "SetTimeOfCompleted"} = {}

AskType == [scale : {"none", "mission", "epoch"}, date : Int]

PlanType ==
  /\ plan \in [EventId -> ScheduleType]
  /\ ran \in [EventId -> Seq(Nat)]
  /\ asked \in [EventId -> AskType]
  /\ epochOffset \in Int /\ missionStart \in Int

\* The ids in use are the old ones, and what is being executed for the last
\* time is not in the queue.
QueueIds ==
  /\ \A e \in scheduled : e < nextId
  /\ currentSchedule < nextId
  /\ pc = "run" => currentSchedule \notin scheduled
  /\ pc = "executing" /\ sched[currentSchedule].completed =>
       currentSchedule \notin scheduled

\* Event e will run, unless it is moved; an aperiodic one that was moved by
\* its own entry point will not.
Pending(e) == e \in scheduled \/ (pc = "run" /\ e = currentSchedule)
Dropped(e) ==
  pc \in {"executing", "crashed"} /\ e = currentSchedule /\ sched[e].period = -1
Awaits(e)  == Pending(e) /\ sched[e].time # Never /\ ~Dropped(e)

\* The repeat count that plan p has left before its activation at time t.
RepeatAt(p, t) ==
  IF p.repeat < 0 THEN p.repeat ELSE p.repeat - ((t - p.time) \div p.period)

\* Schedule s, which is waiting, has its next activation where plan p says,
\* after those of r.
OnCourse(s, p, r) ==
  IF p.time = Immediate THEN s.time = Immediate /\ r = <<>>
  ELSE /\ s.time \in Activations(p)
       /\ \A k \in 1 .. Len(r) : r[k] < s.time
       /\ r = <<>> => s.time = p.time
       /\ p.period > 0 => s.repeat = RepeatAt(p, s.time)

\* The activations r are those of the plan p, from the first one on.
Kept(p, r) ==
  /\ p.time # Immediate =>
       \A k \in 1 .. Len(r) :
         /\ r[k] \in Activations(p)
         /\ k > 1 => r[k-1] < r[k]
  /\ p.time = Immediate => Len(r) <= 1
  /\ r # <<>> /\ p.time # Immediate => r[1] = p.time

OnPlan(e) ==
  /\ sched[e].period = plan[e].period
  /\ sched[e].kind # "none" /\ plan[e].kind # "none"
  /\ Kept(plan[e], ran[e])
  /\ Awaits(e) => OnCourse(sched[e], plan[e], ran[e])

\* The plan begins at the date that was asked for it.
Offset(scale) == IF scale = "mission" THEN epochOffset - missionStart ELSE epochOffset

Fits(ask, time) ==
  ask # NoDate =>
    /\ ask.scale \in {"mission", "epoch"}
    /\ time # Immediate
    /\ time # Never => ask.date = Offset(ask.scale) + time

\* The event that is being executed has run just now.
RunsNow ==
  pc = "executing" /\ Len(ran[currentSchedule]) = 1 =>
    ran[currentSchedule][1] = simTime

PlanInv ==
  /\ PlanType
  /\ QueueIds
  /\ RunsNow
  /\ \A e \in EventId :
       IF e < nextId THEN OnPlan(e) /\ Fits(asked[e], plan[e].time)
       ELSE ran[e] = <<>>

\* The next multiple of a period.
LEMMA NextMultiple ==
  ASSUME NEW P \in Nat \ {0}, NEW a \in Nat
  PROVE  /\ (a + P) \div P = (a \div P) + 1
         /\ a % P = 0 => (a + P) % P = 0
<1>1. \A P1 \in Nat \ {0}, a1 \in Nat : (a1 + P1) \div P1 = (a1 \div P1) + 1
  OBVIOUS
<1>2. \A P1 \in Nat \ {0}, a1 \in Nat : a1 = (P1 * (a1 \div P1)) + (a1 % P1)
  OBVIOUS
<1>3. (a + P) \div P = (a \div P) + 1
  BY <1>1
<1>4. ASSUME a % P = 0 PROVE (a + P) % P = 0
  <2> DEFINE q == a \div P
             d == (a + P) \div P
             r == (a + P) % P
  <2>1. q \in Nat /\ r \in Nat /\ a + P \in Nat /\ d = q + 1
    BY <1>3
  <2>2. a = P * q
    BY <1>2, <1>4, <2>1
  <2>3. a + P = (P * d) + r
    BY <1>2, <2>1
  <2>. HIDE DEF q, d, r
  <2>4. P * (q + 1) = (P * q) + P
    BY <2>1
  <2>5. r = 0
    BY <2>1, <2>2, <2>3, <2>4
  <2>. QED  BY <2>5 DEF r
<1>. QED  BY <1>3, <1>4

\* A plan has its first activation at its time.
LEMMA FirstActivation ==
  ASSUME NEW p \in ScheduleType, p.time \notin {Immediate, Never}, p.kind # "none"
  PROVE  /\ p.time \in Activations(p)
         /\ p.period > 0 => RepeatAt(p, p.time) = p.repeat
<1>1. /\ p.time \in 0 .. DurationMax - 1 /\ p.period \in Int /\ p.repeat \in Int
      /\ DurationMax \in Nat
  BY ConstantsAssumption DEF ScheduleType, Time
<1>2. p.time - p.time = 0
  BY <1>1
<1>3. \A P \in Nat \ {0} : 0 % P = 0 /\ 0 \div P = 0
  OBVIOUS
<1>4. CASE p.period <= 0
  BY <1>1, <1>4 DEF Activations
<1>5. CASE p.period > 0
  <2>1. p.period \in Nat \ {0}
    BY <1>1, <1>5
  <2>2. (p.time - p.time) % p.period = 0 /\ (p.time - p.time) \div p.period = 0
    BY <1>2, <1>3, <2>1
  <2>3. RepeatAt(p, p.time) = p.repeat
    BY <1>1, <2>2 DEF RepeatAt
  <2>4. p.repeat < 0 \/ (p.time - p.time) \div p.period <= p.repeat \/ p.repeat = 0
    BY <1>1, <2>2
  <2>5. p.time \in p.time .. DurationMax - 1
    BY <1>1
  <2>. QED  BY <2>2, <2>3, <2>4, <2>5, <1>5 DEF Activations
<1>. QED  BY <1>1, <1>4, <1>5

\* The activations of a plan are times from its own on, and only that one for
\* a plan that is not periodic.
LEMMA ActivationTimes ==
  ASSUME NEW p \in ScheduleType, p.time # Immediate, NEW t \in Activations(p)
  PROVE  /\ p.time \in Nat /\ t \in Nat /\ p.time <= t /\ t < DurationMax
         /\ p.period <= 0 \/ p.repeat = 0 => t = p.time
         /\ p.period > 0 =>
              /\ (t - p.time) % p.period = 0
              /\ p.repeat < 0 \/ (t - p.time) \div p.period <= p.repeat
<1>1. /\ p.time \in Int /\ p.period \in Int /\ p.repeat \in Int
      /\ DurationMax \in Nat /\ p.time < DurationMax
      /\ p.time # Never => p.time \in Nat
  BY ConstantsAssumption DEF ScheduleType, Time, Immediate, Never
<1>2. p.time # Never /\ p.kind # "none"
  BY DEF Activations
<1>3. CASE p.period <= 0 \/ p.repeat = 0
  <2>1. t = p.time
    BY <1>2, <1>3 DEF Activations
  <2>2. p.period > 0 => (t - p.time) % p.period = 0 /\ (t - p.time) \div p.period = 0
    <3>1. \A P \in Nat \ {0} : 0 % P = 0 /\ 0 \div P = 0
      OBVIOUS
    <3>. QED  BY <1>1, <2>1, <3>1
  <2>. QED  BY <1>1, <1>2, <1>3, <2>1, <2>2
<1>4. CASE ~ (p.period <= 0 \/ p.repeat = 0)
  <2>1. /\ t \in p.time .. DurationMax - 1
        /\ (t - p.time) % p.period = 0
        /\ p.repeat < 0 \/ (t - p.time) \div p.period <= p.repeat
    BY <1>2, <1>4 DEF Activations
  <2>. QED  BY <1>1, <1>2, <1>4, <2>1
<1>. QED  BY <1>3, <1>4

\* A periodic plan that is not through has another activation one period
\* later, if simulation time has room for it.
LEMMA AnotherActivation ==
  ASSUME NEW p \in ScheduleType, p.time # Immediate, NEW t \in Activations(p),
         p.period > 0, RepeatAt(p, t) # 0, t + p.period < DurationMax
  PROVE  /\ t + p.period \in Activations(p)
         /\ p.repeat < 0 => RepeatAt(p, t + p.period) = p.repeat
         /\ p.repeat >= 0 => /\ RepeatAt(p, t) > 0
                             /\ RepeatAt(p, t + p.period) = RepeatAt(p, t) - 1
<1> DEFINE P == p.period
           n == (t - p.time) \div P
<1>1. /\ p.period \in Nat \ {0} /\ p.repeat \in Int /\ DurationMax \in Nat
  BY ConstantsAssumption DEF ScheduleType
<1>2. /\ p.time \in Nat /\ t \in Nat /\ p.time <= t /\ t < DurationMax
      /\ p.repeat = 0 => t = p.time
  BY ActivationTimes, <1>1
<1>2a. (t - p.time) % P = 0 /\ (p.repeat < 0 \/ n <= p.repeat)
  BY ActivationTimes, <1>1
<1>3. t - p.time \in Nat /\ (t + P) - p.time = (t - p.time) + P
  BY <1>1, <1>2
<1>4. ((t + P) - p.time) \div P = n + 1 /\ ((t + P) - p.time) % P = 0
  <2> DEFINE a == t - p.time
  <2>1. a \in Nat /\ P \in Nat \ {0} /\ (t + P) - p.time = a + P
    BY <1>1, <1>3
  <2>2. a % P = 0
    BY <1>2a
  <2>. HIDE DEF a, P
  <2>3. (a + P) \div P = (a \div P) + 1 /\ (a + P) % P = 0
    BY <2>1, <2>2, NextMultiple
  <2>. QED  BY <2>1, <2>3 DEF a, P
<1>5. n \in Nat
  BY <1>1, <1>3
<1>6. RepeatAt(p, t) = IF p.repeat < 0 THEN p.repeat ELSE p.repeat - n
  BY DEF RepeatAt
<1>7. RepeatAt(p, t + P) = IF p.repeat < 0 THEN p.repeat ELSE p.repeat - (n + 1)
  BY <1>4 DEF RepeatAt
<1>8. p.repeat # 0
  <2>1. ASSUME p.repeat = 0 PROVE FALSE
    <3>1. n <= 0
      BY <1>2a, <2>1
    <3>. QED  BY <3>1, <1>5, <1>6, <2>1
  <2>. QED  BY <2>1
<1>9. t + P \in p.time .. DurationMax - 1
  BY <1>1, <1>2
<1>10. p.repeat < 0 \/ n + 1 <= p.repeat
  BY <1>1, <1>2a, <1>5, <1>6
<1>11. p.time # Never /\ p.kind # "none"
  BY DEF Activations
<1>12. t + P \in Activations(p)
  BY <1>1, <1>4, <1>8, <1>9, <1>10, <1>11 DEF Activations
<1>. HIDE DEF n, P
<1>. QED  BY <1>1, <1>5, <1>6, <1>7, <1>10, <1>12 DEF P

-----------------------------------------------------------------------------

\* A step that leaves the schedules alone, and what it may do otherwise.
Quiet ==
  /\ sched' = sched /\ nextId' = nextId /\ scheduled' \subseteq scheduled
  /\ currentSchedule' \in {None, currentSchedule} \union scheduled
  /\ pc' = "run" =>
       \/ pc = "run" /\ currentSchedule' = currentSchedule
       \/ currentSchedule' \in scheduled \ scheduled'
  /\ pc' = "executing" => pc = "executing" /\ simTime' = simTime
  /\ pc \in {"executing", "crashed"} =>
       pc' \in {"executing", "crashed"} /\ currentSchedule' = currentSchedule

\* Nothing moves, so that plans and activations are what they were.
LEMMA QuietRecords ==
  ASSUME PlanType, Quiet, Record(NoDate), \A e \in scheduled : e < nextId
  PROVE  /\ \A e \in EventId : plan'[e] = plan[e] /\ ran'[e] = ran[e]
         /\ \A e \in EventId :
              \/ asked'[e] = NoDate
              \/ asked'[e] = asked[e] /\ scaleVars' = scaleVars
<1>1. \A e \in EventId : ~Moved(e)
  BY DEF Moved, Quiet
<1>2. nextId' = nextId
  BY DEF Quiet
<1>3. ~ (pc = "run" /\ pc' = "executing")
  BY DEF Quiet
<1>. QED  BY <1>1, <1>2, <1>3 DEF Record

\* A step that does nothing to an event leaves it on its plan.
LEMMA UntouchedStaysOnPlan ==
  ASSUME NEW e \in EventId, OnPlan(e), Fits(asked[e], plan[e].time),
         sched'[e] = sched[e], plan'[e] = plan[e], ran'[e] = ran[e],
         asked'[e] = NoDate \/ (asked'[e] = asked[e] /\ scaleVars' = scaleVars),
         Pending(e)' => Pending(e), Dropped(e) => Dropped(e)' \/ ~Pending(e)'
  PROVE  OnPlan(e)' /\ Fits(asked[e], plan[e].time)'
<1>1. OnPlan(e)'
  BY DEF OnPlan, Awaits
<1>2. Fits(asked[e], plan[e].time)'
  BY DEF Fits, Offset, scaleVars
<1>. QED  BY <1>1, <1>2

LEMMA QuietKeepsPlans ==
  ASSUME TypeInv, PlanInv, PlanType', Quiet, Record(NoDate)
  PROVE  PlanInv'
<1>1. /\ \A e \in EventId : plan'[e] = plan[e] /\ ran'[e] = ran[e]
      /\ \A e \in EventId :
           \/ asked'[e] = NoDate
           \/ asked'[e] = asked[e] /\ scaleVars' = scaleVars
  BY QuietRecords DEF PlanInv, QueueIds
<1>2. /\ scheduled \subseteq EventId /\ currentSchedule \in EventId \union {None}
      /\ nextId \in Nat
      /\ pc \in {"run", "executing", "postExec"} => currentSchedule \in EventId
  BY ConstantsAssumption DEF TypeInv, TypeOK, CurrentSet
<1>3. QueueIds'
  BY <1>2 DEF PlanInv, QueueIds, Quiet, None
<1>4. RunsNow'
  BY <1>1, <1>2 DEF PlanInv, RunsNow, Quiet
<1>5. ASSUME NEW e \in EventId, e < nextId
      PROVE  OnPlan(e)' /\ Fits(asked[e], plan[e].time)'
  <2>1. OnPlan(e) /\ Fits(asked[e], plan[e].time)
    BY <1>5 DEF PlanInv
  <2>2. Pending(e)' => Pending(e)
    BY DEF Pending, Quiet
  <2>3. sched'[e] = sched[e] /\ plan'[e] = plan[e] /\ ran'[e] = ran[e]
    BY <1>1 DEF Quiet
  <2>4. Dropped(e) => Dropped(e)'
    BY <2>3 DEF Dropped, Quiet
  <2>. QED
    BY <2>1, <2>2, <2>3, <2>4, <1>1, UntouchedStaysOnPlan
<1>6. ASSUME NEW e \in EventId, ~ (e < nextId) PROVE ran'[e] = <<>>
  BY <1>1, <1>6 DEF PlanInv
<1>7. nextId' = nextId
  BY DEF Quiet
<1>. QED  BY <1>3, <1>4, <1>5, <1>6, <1>7 DEF PlanInv

\* The history variables keep their types.
LEMMA RecordType ==
  ASSUME PlanType, TypeOK, TypeOK', NEW ask \in AskType, Record(ask)
  PROVE  /\ plan' \in [EventId -> ScheduleType]
         /\ ran' \in [EventId -> Seq(Nat)]
         /\ asked' \in [EventId -> AskType]
<1>1. \A e \in EventId : sched'[e] \in ScheduleType
  BY DEF TypeOK, ScheduleType
<1>2. \A e \in EventId : NewPlan(e) \in ScheduleType
  <2> TAKE e \in EventId
  <2>1. [sched'[e] EXCEPT !.time = Never] \in ScheduleType
    BY <1>1 DEF ScheduleType, Time
  <2>. QED  BY <1>1, <2>1 DEF NewPlan
<1>3. plan' \in [EventId -> ScheduleType]
  BY <1>1, <1>2 DEF Record, PlanType
<1>4. simTime \in Nat
  BY DEF TypeOK
<1>5. ran' \in [EventId -> Seq(Nat)]
  <2>1. \A e \in EventId : Append(ran[e], simTime) \in Seq(Nat) /\ ran[e] \in Seq(Nat)
    BY <1>4 DEF PlanType
  <2>2. <<>> \in Seq(Nat)
    OBVIOUS
  <2>. QED  BY <2>1, <2>2 DEF Record
<1>6. NoDate \in AskType
  BY DEF NoDate, AskType
<1>7. asked' \in [EventId -> AskType]
  BY <1>6 DEF Record, PlanType
<1>. QED  BY <1>3, <1>5, <1>7

\* A plan that nothing has been done of yet.
LEMMA NewPlanIsOnCourse ==
  ASSUME NEW p \in ScheduleType, p.kind # "none", p.time # Never
  PROVE  OnCourse(p, p, <<>>) 
<1>1. CASE p.time = Immediate
  BY <1>1 DEF OnCourse
<1>2. CASE p.time # Immediate
  BY <1>2, FirstActivation DEF OnCourse
<1>. QED  BY <1>1, <1>2

LEMMA NothingKept == ASSUME NEW p PROVE Kept(p, <<>>)
  BY DEF Kept

LEMMA CreateKeepsPlans ==
  ASSUME TypeInv, TypeInv', PlanInv, PlanType', nextId < MaxEvents,
         NEW kind \in {"user", "start", "stop"}, NEW time \in Time,
         NEW cycle \in Int, NEW repeat \in Int,
         Create(kind, time, cycle, repeat),
         pc # "run", pc' \in {pc, "step"}, pc = "executing" => pc' = pc,
         pc # "crashed",
         UNCHANGED <<currentSchedule, simTime, scaleVars>>,
         NEW ask \in AskType, Record(ask), Fits(ask, time)
  PROVE  PlanInv'
<1>0. /\ scheduled \subseteq EventId /\ currentSchedule \in EventId \union {None}
      /\ nextId \in EventId /\ nextId \in Nat
      /\ sched \in [EventId -> ScheduleType]
      /\ pc \in {"run", "executing", "postExec"} => currentSchedule \in EventId
  BY ConstantsAssumption DEF TypeInv, TypeOK, CurrentSet, EventId, ScheduleType
<1> DEFINE new == [time |-> time, period |-> cycle, repeat |-> repeat,
                   completed |-> FALSE, kind |-> kind]
<1>1. /\ sched' = [sched EXCEPT ![nextId] = new]
      /\ scheduled' = scheduled \union {nextId} /\ nextId' = nextId + 1
  BY DEF Create
<1>2. new \in ScheduleType
  BY DEF ScheduleType
<1>. HIDE DEF new
<1>3. \A e \in EventId : e # nextId => sched'[e] = sched[e]
  BY <1>0, <1>1
<1>3a. sched'[nextId] = new
  BY <1>0, <1>1
<1>4. \A e \in EventId : ~Moved(e)
  BY <1>0, <1>1, <1>3 DEF Moved
<1>4a. nextId' # nextId
  BY <1>0, <1>1
<1>5. \A e \in EventId : ran'[e] = ran[e]
  BY <1>4 DEF Record
<1>6. plan'[nextId] = new /\ asked'[nextId] = ask /\ ran'[nextId] = <<>>
  BY <1>0, <1>3a, <1>4a, <1>4, <1>5 DEF Record, PlanInv
<1>7. \A e \in EventId : e # nextId => plan'[e] = plan[e] /\ asked'[e] = asked[e]
  BY <1>4 DEF Record
<1>8. QueueIds'
  <2>1. currentSchedule # nextId /\ nextId \notin scheduled
    BY <1>0 DEF PlanInv, QueueIds
  <2>2. \A e \in scheduled' : e < nextId'
    BY <1>0, <1>1 DEF PlanInv, QueueIds, EventId
  <2>3. currentSchedule' < nextId'
    BY <1>0, <1>1 DEF PlanInv, QueueIds, EventId, None
  <2>4. pc' # "run"
    OBVIOUS
  <2>5. pc' = "executing" => pc = "executing"
    OBVIOUS
  <2>6. pc' = "executing" => currentSchedule \in EventId /\ sched'[currentSchedule] = sched[currentSchedule]
    BY <1>0, <1>3, <2>1, <2>5
  <2>. QED
    BY <2>1, <2>2, <2>3, <2>4, <2>5, <2>6, <1>1 DEF PlanInv, QueueIds
<1>9. RunsNow'
  BY <1>0, <1>5 DEF PlanInv, RunsNow
<1>10. ASSUME NEW e \in EventId, e < nextId
       PROVE  OnPlan(e)' /\ Fits(asked[e], plan[e].time)'
  <2>0. e # nextId
    BY <1>10, <1>0 DEF EventId
  <2>1. OnPlan(e) /\ Fits(asked[e], plan[e].time) /\ e # nextId
    BY <1>10, <2>0 DEF PlanInv
  <2>2. /\ sched'[e] = sched[e] /\ plan'[e] = plan[e] /\ ran'[e] = ran[e]
        /\ asked'[e] = asked[e]
    BY <2>1, <1>3, <1>5, <1>7
  <2>3. Pending(e)' => Pending(e)
    BY <2>1, <1>1 DEF Pending
  <2>4. Dropped(e) => Dropped(e)'
    BY <2>2 DEF Dropped
  <2>. QED
    BY <2>1, <2>2, <2>3, <2>4, UntouchedStaysOnPlan
<1>11. ASSUME NEW e \in EventId, e = nextId
       PROVE  OnPlan(e)' /\ Fits(asked[e], plan[e].time)'
  <2>1. new.kind # "none" /\ new.time = time
    BY DEF new
  <2>2. Kept(new, <<>>)
    BY NothingKept
  <2>3. new.time # Never => OnCourse(new, new, <<>>)
    BY <1>2, <2>1, NewPlanIsOnCourse
  <2>4. /\ sched'[e] = new /\ plan'[e] = new /\ ran'[e] = <<>>
        /\ asked'[e] = ask
    BY <1>3a, <1>6, <1>11
  <2>5. OnPlan(e)'
    BY <2>1, <2>2, <2>3, <2>4 DEF OnPlan, Awaits
  <2>6. Fits(asked[e], plan[e].time)'
    BY <2>1, <2>4 DEF Fits, Offset, scaleVars
  <2>. QED  BY <2>5, <2>6
<1>13. ASSUME NEW e \in EventId, ~ (e < nextId') PROVE ran'[e] = <<>>
  <2>1. ~ (e < nextId)
    BY <1>13, <1>0, <1>1 DEF EventId
  <2>. QED  BY <2>1, <1>5 DEF PlanInv
<1>14. \A e \in EventId : e < nextId' => e < nextId \/ e = nextId
  BY <1>0, <1>1 DEF EventId
<1>15. \A e \in EventId :
         IF e < nextId' THEN OnPlan(e)' /\ Fits(asked[e], plan[e].time)'
         ELSE ran'[e] = <<>>
  BY <1>10, <1>11, <1>13, <1>14
<1>. QED
  BY <1>8, <1>9, <1>15 DEF PlanInv

LEMMA MoveKeepsPlans ==
  ASSUME TypeInv, TypeInv', PlanInv, PlanType', "SetTimeOfCompleted" \notin Calls,
         pc \notin {"run", "crashed"},
         NEW m \in EventId, NEW rel, MoveEvent(m, rel),
         AbsoluteTime(rel) \in Time, AbsoluteTime(rel) # Immediate,
         UNCHANGED scaleVars,
         NEW ask \in AskType, Record(ask), Fits(ask, AbsoluteTime(rel))
  PROVE  PlanInv'
<1> DEFINE t == AbsoluteTime(rel)
<1>0. /\ scheduled \subseteq EventId /\ currentSchedule \in EventId \union {None}
      /\ nextId \in Nat
      /\ sched \in [EventId -> ScheduleType]
      /\ pc \in {"run", "executing", "postExec"} => currentSchedule \in EventId
  BY ConstantsAssumption DEF TypeInv, TypeOK, CurrentSet, ScheduleType
<1>1. /\ sched' = [sched EXCEPT ![m].time = t]
      /\ scheduled' = scheduled \union {m} /\ nextId' = nextId
      /\ pc' = pc /\ currentSchedule' = currentSchedule /\ simTime' = simTime
  BY DEF MoveEvent, SetTime, timeVars
<1>2. m < nextId
  BY DEF MoveEvent, Found, PlanInv, QueueIds
<1>3. ~sched[m].completed
  BY DEF MoveEvent, MayCall
<1>4. /\ sched'[m] = [sched[m] EXCEPT !.time = t] /\ sched[m] \in ScheduleType
      /\ \A e \in EventId : e # m => sched'[e] = sched[e]
  BY <1>0, <1>1
<1>5. /\ sched'[m].time = t /\ sched'[m].period = sched[m].period
      /\ sched'[m].kind = sched[m].kind /\ sched'[m].completed = sched[m].completed
      /\ sched'[m] \in ScheduleType
  BY <1>4 DEF ScheduleType
<1>. HIDE DEF t
<1>6. \A e \in EventId : e # m => ~Moved(e)
  BY <1>1, <1>4 DEF Moved
<1>7. \A e \in EventId : e # m =>
         plan'[e] = plan[e] /\ ran'[e] = ran[e] /\ asked'[e] = asked[e]
  BY <1>1, <1>6 DEF Record
<1>8. QueueIds'
  <2>1. pc = "executing" /\ sched'[currentSchedule].completed =>
          currentSchedule \notin scheduled /\ currentSchedule # m
    BY <1>0, <1>3, <1>4, <1>5 DEF PlanInv, QueueIds
  <2>. QED  BY <2>1, <1>1, <1>2 DEF PlanInv, QueueIds
<1>9. ASSUME Moved(m)
      PROVE  RunsNow' /\ OnPlan(m)' /\ Fits(asked[m], plan[m].time)'
  <2>1. plan'[m] = NewPlan(m) /\ ran'[m] = <<>> /\ asked'[m] = ask
    BY <1>9, <1>1 DEF Record
  <2>2. RunsNow'
    <3>1. \A e \in EventId : ran'[e] = ran[e] \/ Len(ran'[e]) # 1
      BY <1>7, <2>1
    <3>. QED  BY <3>1, <1>0, <1>1 DEF PlanInv, RunsNow
  <2>3. Kept(plan'[m], ran'[m])
    BY <2>1, NothingKept
  <2>4. sched[m].kind # "none"
    BY <1>2 DEF PlanInv, OnPlan
  <2>5. ASSUME pc = "executing", m = currentSchedule, sched[m].period = -1
        PROVE  OnPlan(m)' /\ Fits(asked[m], plan[m].time)'
    <3>1. plan'[m] = [sched'[m] EXCEPT !.time = Never]
      BY <2>1, <2>5 DEF NewPlan
    <3>2. /\ plan'[m].period = sched[m].period /\ plan'[m].kind = sched[m].kind
          /\ plan'[m].time = Never
      BY <3>1, <1>5 DEF ScheduleType
    <3>3. Dropped(m)'
      BY <2>5, <1>1, <1>5 DEF Dropped
    <3>4. OnPlan(m)'
      BY <1>5, <2>3, <2>4, <3>2, <3>3 DEF OnPlan, Awaits
    <3>5. Fits(asked[m], plan[m].time)'
      BY <2>1, <3>2 DEF Fits, Offset, scaleVars, Never, Immediate
    <3>. QED  BY <3>4, <3>5
  <2>6. ASSUME ~ (pc = "executing" /\ m = currentSchedule /\ sched[m].period = -1)
        PROVE  OnPlan(m)' /\ Fits(asked[m], plan[m].time)'
    <3>1. plan'[m] = sched'[m]
      BY <2>1, <2>6 DEF NewPlan
    <3>2. sched'[m].time # Never => OnCourse(sched'[m], sched'[m], <<>>)
      BY <1>5, <2>4, NewPlanIsOnCourse
    <3>3. OnPlan(m)'
      BY <1>5, <2>1, <2>3, <2>4, <3>1, <3>2 DEF OnPlan, Awaits
    <3>4. Fits(asked[m], plan[m].time)'
      BY <1>5, <2>1, <3>1 DEF Fits, Offset, scaleVars, t
    <3>. QED  BY <3>3, <3>4
  <2>. QED  BY <2>2, <2>5, <2>6
<1>10. ASSUME ~Moved(m)
       PROVE  RunsNow' /\ OnPlan(m)' /\ Fits(asked[m], plan[m].time)'
  <2>1. m \in scheduled /\ t = sched[m].time
    BY <1>1, <1>2, <1>5, <1>10 DEF Moved
  <2>2. sched'[m] = sched[m]
    BY <2>1, <1>4 DEF ScheduleType
  <2>3. plan'[m] = plan[m] /\ ran'[m] = ran[m] /\ asked'[m] = asked[m]
    BY <1>10, <1>1 DEF Record
  <2>4. RunsNow'
    BY <1>7, <2>3, <1>0, <1>1 DEF PlanInv, RunsNow
  <2>5. OnPlan(m) /\ Fits(asked[m], plan[m].time) /\ Pending(m)
    BY <1>2, <2>1 DEF PlanInv, Pending
  <2>6. Dropped(m) => Dropped(m)'
    BY <1>1, <2>2 DEF Dropped
  <2>. QED
    BY <2>2, <2>3, <2>4, <2>5, <2>6, UntouchedStaysOnPlan
<1>11. ASSUME NEW e \in EventId, e < nextId, e # m
       PROVE  OnPlan(e)' /\ Fits(asked[e], plan[e].time)'
  <2>1. OnPlan(e) /\ Fits(asked[e], plan[e].time)
    BY <1>11 DEF PlanInv
  <2>2. /\ sched'[e] = sched[e] /\ plan'[e] = plan[e] /\ ran'[e] = ran[e]
        /\ asked'[e] = asked[e]
    BY <1>4, <1>7, <1>11
  <2>3. Pending(e)' => Pending(e)
    BY <1>1, <1>11 DEF Pending
  <2>4. Dropped(e) => Dropped(e)'
    BY <1>1, <2>2 DEF Dropped
  <2>. QED
    BY <2>1, <2>2, <2>3, <2>4, UntouchedStaysOnPlan
<1>12. ASSUME NEW e \in EventId, ~ (e < nextId) PROVE ran'[e] = <<>>
  BY <1>2, <1>7, <1>12 DEF PlanInv
<1>. QED
  BY <1>1, <1>8, <1>9, <1>10, <1>11, <1>12 DEF PlanInv

-----------------------------------------------------------------------------

LEMMA BeginRunKeepsPlans ==
  ASSUME TimeInv, TypeInv', PlanInv, PlanType', BeginRun,
         UNCHANGED scaleVars, Record(NoDate)
  PROVE  PlanInv'
<1> DEFINE c == currentSchedule
           old == sched[c]
           p == plan[c]
           r == ran[c]
<1>0. /\ c \in EventId /\ c < nextId /\ nextId \in Nat /\ scheduled \subseteq EventId
      /\ sched \in [EventId -> ScheduleType] /\ old \in ScheduleType
      /\ simTime \in Nat /\ c \notin scheduled
  BY DEF BeginRun, TimeInv, TypeInv, TypeOK, CurrentSet, ScheduleType, PlanInv, QueueIds
<1>1. /\ pc = "run" /\ pc' = "executing" /\ nextId' = nextId
      /\ currentSchedule' = c /\ simTime' = simTime
  BY DEF BeginRun, timeVars
<1>2. old.time \in {Immediate, simTime}
  BY <1>1 DEF TimeInv, SelectedIsDue
<1>3. /\ OnPlan(c) /\ Fits(asked[c], p.time) /\ p \in ScheduleType /\ r \in Seq(Nat)
  BY <1>0 DEF PlanInv, PlanType
<1>4. OnCourse(old, p, r)
  <2>1. old.time # Never
    BY <1>0, <1>2 DEF Immediate, Never
  <2>. QED  BY <1>1, <1>3, <2>1 DEF OnPlan, Awaits, Pending, Dropped
\* What becomes of the schedule.
<1>5. /\ sched'[c].period = old.period /\ sched'[c].kind = old.kind
      /\ sched'[c].completed = (old.repeat = 0)
      /\ sched'[c].repeat = IF old.repeat > 0 THEN old.repeat - 1 ELSE old.repeat
      /\ \A e \in EventId : e # c => sched'[e] = sched[e]
      /\ scheduled' \subseteq scheduled \union {c}
  BY <1>0 DEF BeginRun, SetTime, ScheduleType
<1>6. c \in scheduled' =>
        /\ old.repeat # 0 /\ old.period > 0
        /\ sched'[c].time = NextActivation(old.time, old.period)
  BY <1>0 DEF BeginRun, SetTime, ScheduleType
\* What is recorded.
<1>7. \A e \in EventId : ~Moved(e)
  BY <1>1 DEF Moved
<1>8. /\ \A e \in EventId : plan'[e] = plan[e] /\ asked'[e] = asked[e]
      /\ \A e \in EventId : e # c => ran'[e] = ran[e]
  BY <1>1, <1>7 DEF Record
<1>9. ran'[c] = Append(r, simTime)
  BY <1>0, <1>1, <1>7 DEF Record
<1>. HIDE DEF c, old, p, r
<1>10. QueueIds'
  <2>1. \A e \in scheduled' : e < nextId'
    BY <1>0, <1>1, <1>5 DEF PlanInv, QueueIds
  <2>2. sched'[c].completed => c \notin scheduled'
    BY <1>5, <1>6
  <2>. QED  BY <1>0, <1>1, <2>1, <2>2 DEF QueueIds
<1>11. RunsNow'
  <2>1. Len(Append(r, simTime)) = 1 => Append(r, simTime)[1] = simTime
    BY <1>0, <1>3
  <2>. QED  BY <1>1, <1>9, <2>1 DEF RunsNow
<1>12. Kept(p, Append(r, simTime))
  <2>1. CASE p.time = Immediate
    <3>1. r = <<>>
      BY <1>4, <2>1 DEF OnCourse
    <3>2. Len(Append(r, simTime)) = 1
      BY <3>1
    <3>. QED  BY <2>1, <3>2 DEF Kept
  <2>2. CASE p.time # Immediate
    <3>1. old.time \in Activations(p) /\ old.time \in Nat
      BY <1>3, <1>4, <2>2, ActivationTimes DEF OnCourse
    <3>2. old.time = simTime
      BY <1>2, <3>1 DEF Immediate
    <3>3. /\ \A k \in 1 .. Len(r) : r[k] < simTime
          /\ r = <<>> => simTime = p.time
      BY <1>4, <2>2, <3>2 DEF OnCourse
    <3>4. Kept(p, r)
      BY <1>3 DEF OnPlan, p, r
    <3> DEFINE n == Len(r)
    <3>5. /\ n \in Nat /\ Len(Append(r, simTime)) = n + 1
          /\ Append(r, simTime)[n + 1] = simTime
          /\ \A k \in 1 .. n : Append(r, simTime)[k] = r[k]
      BY <1>0, <1>3
    <3>6. ASSUME NEW k \in 1 .. n + 1
          PROVE  /\ Append(r, simTime)[k] \in Activations(p)
                 /\ k > 1 => Append(r, simTime)[k - 1] < Append(r, simTime)[k]
      <4>1. CASE k \in 1 .. n
        <5>1. k > 1 => k - 1 \in 1 .. n
          BY <3>5, <4>1
        <5>. QED  BY <2>2, <3>4, <3>5, <4>1, <5>1 DEF Kept
      <4>2. CASE k = n + 1
        <5>1. k > 1 => k - 1 \in 1 .. n
          BY <3>5, <4>2
        <5>. QED  BY <3>1, <3>2, <3>3, <3>5, <4>2, <5>1
      <4>. QED  BY <3>5, <4>1, <4>2
    <3>7. Append(r, simTime)[1] = p.time
      <4>1. CASE r = <<>>
        BY <3>3, <3>5, <4>1
      <4>2. CASE r # <<>>
        <5>1. 1 \in 1 .. n
          BY <1>3, <4>2
        <5>. QED  BY <2>2, <3>4, <3>5, <4>2, <5>1 DEF Kept
      <4>. QED  BY <4>1, <4>2
    <3>. QED  BY <2>2, <3>5, <3>6, <3>7 DEF Kept
  <2>. QED  BY <2>1, <2>2
<1>13. ASSUME c \in scheduled', sched'[c].time # Never
       PROVE  OnCourse(sched'[c], p, Append(r, simTime))
  <2>1. /\ old.repeat # 0 /\ old.period > 0 /\ old.time # Immediate
        /\ sched'[c].time = old.time + old.period
        /\ ~ (old.period >= DurationMax - old.time)
    BY <1>6, <1>13 DEF NextActivation, Immediate
  <2>2. p.time # Immediate /\ old.time = simTime /\ p.period = old.period
    BY <1>2, <1>3, <1>4, <2>1 DEF OnCourse, OnPlan, p, old
  <2>3. /\ simTime \in Activations(p) /\ old.repeat = RepeatAt(p, simTime)
        /\ \A k \in 1 .. Len(r) : r[k] < simTime
    BY <1>4, <2>1, <2>2 DEF OnCourse
  <2>4. /\ p.period \in Int /\ p.repeat \in Int /\ DurationMax \in Nat
        /\ old.repeat \in Int
    BY <1>0, <1>3, ConstantsAssumption DEF ScheduleType
  <2>5. simTime + p.period < DurationMax
    BY <1>0, <2>1, <2>2, <2>4
  <2>6. /\ simTime + p.period \in Activations(p)
        /\ p.repeat < 0 => RepeatAt(p, simTime + p.period) = p.repeat
        /\ p.repeat >= 0 => /\ RepeatAt(p, simTime) > 0
                            /\ RepeatAt(p, simTime + p.period) = RepeatAt(p, simTime) - 1
    BY <1>3, <2>1, <2>2, <2>3, <2>5, AnotherActivation
  <2>7. p.repeat < 0 => RepeatAt(p, simTime) = p.repeat
    BY DEF RepeatAt
  <2>8. sched'[c].repeat = RepeatAt(p, simTime + p.period)
    BY <1>5, <2>3, <2>4, <2>6, <2>7
  <2>9. /\ \A k \in 1 .. Len(Append(r, simTime)) :
               Append(r, simTime)[k] < simTime + p.period
        /\ Append(r, simTime) # <<>>
    <3> DEFINE n == Len(r)
    <3>1. /\ n \in Nat /\ Len(Append(r, simTime)) = n + 1
          /\ Append(r, simTime)[n + 1] = simTime
          /\ \A k \in 1 .. n : Append(r, simTime)[k] = r[k] /\ r[k] \in Nat
      BY <1>0, <1>3
    <3>2. Append(r, simTime) # <<>>
      BY <3>1
    <3>3. p.period > 0
      BY <2>1, <2>2
    <3>4. ASSUME NEW k \in 1 .. n + 1
          PROVE  Append(r, simTime)[k] < simTime + p.period
      <4>1. CASE k \in 1 .. n
        <5>1. r[k] \in Nat /\ r[k] < simTime /\ Append(r, simTime)[k] = r[k]
          BY <2>3, <3>1, <4>1
        <5>. QED  BY <1>0, <2>4, <3>3, <5>1
      <4>2. CASE k = n + 1
        BY <1>0, <2>4, <3>1, <3>3, <4>2
      <4>. QED  BY <3>1, <4>1, <4>2
    <3>. QED  BY <3>1, <3>2, <3>4
  <2>. QED  BY <2>1, <2>2, <2>6, <2>8, <2>9 DEF OnCourse
<1>14. ASSUME NEW e \in EventId, e = c
       PROVE  OnPlan(e)' /\ Fits(asked[e], plan[e].time)'
  <2>1. plan'[e] = p /\ asked'[e] = asked[e] /\ ran'[e] = Append(r, simTime)
    BY <1>8, <1>9, <1>14 DEF p
  <2>2. Pending(e)' => e \in scheduled'
    BY <1>1 DEF Pending
  <2>3. sched'[e].period = p.period /\ sched'[e].kind # "none" /\ p.kind # "none"
    BY <1>3, <1>5, <1>14 DEF OnPlan, p, old
  <2>4. OnPlan(e)'
    BY <1>12, <1>13, <1>14, <2>1, <2>2, <2>3 DEF OnPlan, Awaits
  <2>5. Fits(asked[e], plan[e].time)'
    BY <1>3, <1>14, <2>1 DEF Fits, Offset, scaleVars
  <2>. QED  BY <2>4, <2>5
<1>15. ASSUME NEW e \in EventId, e < nextId, e # c
       PROVE  OnPlan(e)' /\ Fits(asked[e], plan[e].time)'
  <2>1. OnPlan(e) /\ Fits(asked[e], plan[e].time)
    BY <1>15 DEF PlanInv
  <2>2. /\ sched'[e] = sched[e] /\ plan'[e] = plan[e] /\ ran'[e] = ran[e]
        /\ asked'[e] = asked[e]
    BY <1>5, <1>8, <1>15
  <2>3. Pending(e)' => Pending(e)
    BY <1>1, <1>5, <1>15 DEF Pending
  <2>4. ~Dropped(e)
    BY <1>1 DEF Dropped
  <2>. QED
    BY <2>1, <2>2, <2>3, <2>4, UntouchedStaysOnPlan
<1>16. ASSUME NEW e \in EventId, ~ (e < nextId) PROVE ran'[e] = <<>>
  BY <1>0, <1>8, <1>16 DEF PlanInv
<1>. QED
  BY <1>1, <1>10, <1>11, <1>14, <1>15, <1>16 DEF PlanInv

\* An aperiodic event that is unscheduled was not going to run any more.
LEMMA EndRunKeepsPlans ==
  ASSUME TypeInv, TypeInv', PlanInv, PlanType', EndRun,
         UNCHANGED scaleVars, Record(NoDate)
  PROVE  PlanInv'
<1> DEFINE c == currentSchedule
<1>0. /\ c \in EventId /\ c < nextId /\ nextId \in Nat /\ scheduled \subseteq EventId
      /\ sched \in [EventId -> ScheduleType] /\ sched[c] \in ScheduleType
  BY DEF EndRun, TypeInv, TypeOK, CurrentSet, ScheduleType, PlanInv, QueueIds
<1>1. /\ pc = "executing" /\ pc' = "postExec" /\ nextId' = nextId
      /\ currentSchedule' = c
  BY DEF EndRun
<1>2. /\ \A e \in EventId : e # c => sched'[e] = sched[e]
      /\ sched'[c].period = sched[c].period /\ sched'[c].kind = sched[c].kind
      /\ scheduled' \subseteq scheduled \union {c}
  BY <1>0 DEF EndRun, SetTime, ScheduleType
<1>3. \A e \in EventId : ~Moved(e)
  BY <1>1 DEF Moved
<1>4. \A e \in EventId :
        plan'[e] = plan[e] /\ asked'[e] = asked[e] /\ ran'[e] = ran[e]
  BY <1>1, <1>3 DEF Record
<1>5. ASSUME Awaits(c)' PROVE sched'[c] = sched[c] /\ Awaits(c)
  <2>1. CASE ~sched[c].completed /\ sched[c].time # Never /\ sched[c].period = -1
    <3>1. sched'[c].time = Never
      BY <1>0, <2>1 DEF EndRun, SetTime, ScheduleType
    <3>. QED  BY <1>1, <1>5, <3>1 DEF Awaits
  <2>2. CASE ~ (~sched[c].completed /\ sched[c].time # Never /\ sched[c].period = -1)
    <3>1. sched' = sched /\ scheduled' = scheduled
      BY <2>2 DEF EndRun
    <3>2. c \in scheduled /\ sched[c].time # Never
      BY <1>1, <1>5, <3>1 DEF Awaits, Pending
    <3>3. ~sched[c].completed
      BY <1>1, <3>2 DEF PlanInv, QueueIds
    <3>. QED  BY <2>2, <3>1, <3>2, <3>3 DEF Awaits, Pending, Dropped
  <2>. QED  BY <2>1, <2>2
<1>. HIDE DEF c
<1>6. QueueIds'
  BY <1>0, <1>1, <1>2 DEF PlanInv, QueueIds
<1>7. RunsNow'
  BY <1>1 DEF RunsNow
<1>8. ASSUME NEW e \in EventId, e = c
      PROVE  OnPlan(e)' /\ Fits(asked[e], plan[e].time)'
  <2>1. OnPlan(e) /\ Fits(asked[e], plan[e].time)
    BY <1>0, <1>8 DEF PlanInv
  <2>2. Awaits(e)' => sched'[e] = sched[e] /\ Awaits(e)
    BY <1>1, <1>5, <1>8 DEF c
  <2>3. sched'[e].period = sched[e].period /\ sched'[e].kind = sched[e].kind
    BY <1>2, <1>8
  <2>4. OnPlan(e)'
    BY <1>4, <2>1, <2>2, <2>3 DEF OnPlan
  <2>5. Fits(asked[e], plan[e].time)'
    BY <1>4, <2>1 DEF Fits, Offset, scaleVars
  <2>. QED  BY <2>4, <2>5
<1>9. ASSUME NEW e \in EventId, e < nextId, e # c
      PROVE  OnPlan(e)' /\ Fits(asked[e], plan[e].time)'
  <2>1. OnPlan(e) /\ Fits(asked[e], plan[e].time)
    BY <1>9 DEF PlanInv
  <2>2. /\ sched'[e] = sched[e] /\ plan'[e] = plan[e] /\ ran'[e] = ran[e]
        /\ asked'[e] = asked[e]
    BY <1>2, <1>4, <1>9
  <2>3. Pending(e)' => Pending(e)
    BY <1>1, <1>2, <1>9 DEF Pending
  <2>4. ~Dropped(e)
    BY <1>9 DEF Dropped, c
  <2>. QED
    BY <2>1, <2>2, <2>3, <2>4, UntouchedStaysOnPlan
<1>10. ASSUME NEW e \in EventId, ~ (e < nextId) PROVE ran'[e] = <<>>
  BY <1>4, <1>10 DEF PlanInv
<1>. QED
  BY <1>1, <1>6, <1>7, <1>8, <1>9, <1>10 DEF PlanInv

-----------------------------------------------------------------------------

\* What PlanInv says is enough.
LEMMA PlansSayIt == TypeOK /\ PlanInv => PlansAreKept
<1> SUFFICES ASSUME TypeOK, PlanInv, NEW e \in EventId
             PROVE  /\ plan[e].time # Immediate =>
                         \A k \in 1 .. Len(ran[e]) :
                           /\ ran[e][k] \in Activations(plan[e])
                           /\ k > 1 => ran[e][k-1] < ran[e][k]
                    /\ plan[e].time = Immediate => Len(ran[e]) <= 1
  BY DEF PlansAreKept
<1>1. Kept(plan[e], ran[e])
  BY NothingKept DEF PlanInv, OnPlan
<1>. QED  BY <1>1 DEF Kept

LEMMA DatesSayIt == TypeInv /\ PlanInv => DatesAreKept
<1> SUFFICES ASSUME TypeInv, PlanInv, pc = "executing",
                    Len(ran[currentSchedule]) = 1,
                    asked[currentSchedule] # NoDate
             PROVE  Now(asked[currentSchedule].scale) = asked[currentSchedule].date
  BY DEF DatesAreKept
<1> DEFINE c == currentSchedule
           ask == asked[c]
<1>1. c \in EventId /\ c < nextId
  BY DEF TypeInv, CurrentSet, PlanInv, QueueIds
<1>2. Fits(ask, plan[c].time) /\ Kept(plan[c], ran[c])
  BY <1>1 DEF PlanInv, OnPlan
<1>3. plan[c].time # Immediate /\ ask.scale \in {"mission", "epoch"}
  BY <1>2 DEF Fits
<1>4. 1 \in 1 .. Len(ran[c]) /\ ran[c] # <<>>
  <2>1. ran[c] \in Seq(Nat) /\ Len(ran[c]) = 1
    BY <1>1 DEF PlanInv, PlanType
  <2>2. \A r \in Seq(Nat) : Len(r) = 1 => 1 \in 1 .. Len(r) /\ r # <<>>
    OBVIOUS
  <2>. QED  BY <2>1, <2>2
<1>5. ran[c][1] \in Activations(plan[c]) /\ ran[c][1] = plan[c].time
  BY <1>2, <1>3, <1>4 DEF Kept
<1>6. plan[c].time # Never
  BY <1>5 DEF Activations
<1>7. ran[c][1] = simTime
  BY DEF PlanInv, RunsNow
<1>8. ask.date = Offset(ask.scale) + simTime
  BY <1>2, <1>5, <1>6, <1>7 DEF Fits
<1>9. simTime \in Int /\ epochOffset \in Int /\ missionStart \in Int
  BY DEF TypeInv, TypeOK, PlanInv, PlanType
<1>. QED
  BY <1>3, <1>8, <1>9 DEF Now, Offset, GetMissionTime, GetEpochTime

LEMMA PlanInvInit == PlanInit => PlanInv
<1> SUFFICES ASSUME PlanInit PROVE PlanInv
  OBVIOUS
<1>1. sched \in [EventId -> ScheduleType] /\ nextId = 0 /\ currentSchedule = None
  BY TypeInvInit DEF PlanInit, MissionInit, Init, TypeInv, TypeOK, ScheduleType
<1>2. PlanType
  BY <1>1 DEF PlanInit, MissionInit, PlanType, NoDate, AskType
<1>3. \A e \in EventId : ~ (e < nextId) /\ ran[e] = <<>>
  BY <1>1 DEF EventId, PlanInit
<1>. QED
  BY <1>1, <1>2, <1>3
  DEF PlanInv, QueueIds, RunsNow, PlanInit, MissionInit, Init, None

\* What a step of the thread and a call do, by kind.
LEMMA QuietSteps ==
  ASSUME TypeInv, PlanInv, RestoreTimes = {},
         \/ StopSeen \/ Pause \/ WakeUp \/ Proceed \/ UpdateTime \/ KeepTime
         \/ RefusePast \/ ChangeTime \/ TimeChanged \/ Select \/ EndStep
         \/ RemoveEvent \/ SetSimulationTime \/ Restore \/ Abort
         \/ UNCHANGED vars
  PROVE  Quiet
<1>1. pc \in {"run", "executing", "postExec"} => currentSchedule \in EventId
  BY DEF TypeInv, CurrentSet
<1> USE DEF Quiet, queueVars, timeVars, Loop
<1>2. CASE StopSeen  BY <1>2 DEF StopSeen
<1>3. CASE Pause  BY <1>3 DEF Pause
<1>4. CASE WakeUp  BY <1>4 DEF WakeUp
<1>5. CASE Proceed  BY <1>5 DEF Proceed
<1>6. CASE UpdateTime  BY <1>6 DEF UpdateTime
<1>7. CASE KeepTime  BY <1>7 DEF KeepTime
<1>8. CASE RefusePast  BY <1>8 DEF RefusePast
<1>9. CASE ChangeTime  BY <1>9 DEF ChangeTime
<1>10. CASE TimeChanged  BY <1>10 DEF TimeChanged
<1>11. CASE Select  BY <1>11 DEF Select
<1>12. CASE EndStep  BY <1>12 DEF EndStep
<1>13. CASE RemoveEvent  BY <1>13 DEF RemoveEvent, MayCall, ConstantsAssumption, Site
<1>14. CASE SetSimulationTime  BY <1>14 DEF SetSimulationTime
<1>15. CASE Restore  BY <1>15 DEF Restore
<1>16. CASE Abort  BY <1>16 DEF Abort
<1>17. CASE UNCHANGED vars  BY <1>17 DEF vars
<1>. QED
  BY <1>2, <1>3, <1>4, <1>5, <1>6, <1>7, <1>8, <1>9, <1>10, <1>11, <1>12, <1>13,
     <1>14, <1>15, <1>16, <1>17

\* Fits(ask, AbsoluteTime(rel)): the date that a call has turned into rel.
LEMMA DatesFit ==
  ASSUME TypeOK, PlanType, simulationTime = simTime, NEW date \in Int,
         NEW scale \in {"mission", "epoch"},
         NEW rel \in Nat \union {Never},
         rel = Until(date, Now(scale))
  PROVE  Fits([scale |-> scale, date |-> date], AbsoluteTime(rel))
<1>1. /\ simTime \in Nat /\ epochOffset \in Int /\ missionStart \in Int
  BY DEF TypeOK, PlanType
<1>2. AbsoluteTime(rel) # Immediate
  BY <1>1 DEF AbsoluteTime, Immediate, Never
<1>3. AbsoluteTime(rel) # Never => AbsoluteTime(rel) = simTime + rel
  BY DEF AbsoluteTime
<1>4. Now(scale) = Offset(scale) + simTime
  BY <1>1 DEF Now, Offset, GetMissionTime, GetEpochTime
<1>5. Offset(scale) \in Int
  BY <1>1 DEF Offset
<1>6. rel = date - (Offset(scale) + simTime)
  BY <1>4 DEF Until
<1>7. rel # Never => date = Offset(scale) + (simTime + rel)
  BY <1>1, <1>5, <1>6
<1>8. rel = Never => AbsoluteTime(rel) = Never
  BY DEF AbsoluteTime
<1>. QED  BY <1>2, <1>3, <1>7, <1>8 DEF Fits

LEMMA MayAddLeavesRoom == TypeOK /\ MayAdd => nextId < MaxEvents
  BY ConstantsAssumption DEF TypeOK, MayAdd

LEMMA PlanInvStep ==
  ASSUME PlanClients, TimeInv, TypeInv', PlanInv, [PlanNext]_planVars, ~late'
  PROVE  PlanInv'
<1>1. /\ TypeInv /\ TypeOK /\ TypeOK' /\ PlanType /\ ConstantsAssumption
      /\ RestoreTimes = {} /\ "SetTimeOfCompleted" \notin Calls
      /\ "SetEventCycleTime" \notin Calls /\ "SetEventRepeat" \notin Calls
  BY ConstantsAssumption DEF TimeInv, TypeInv, PlanInv, PlanClients, ClientsInSync
<1>2. NoDate \in AskType /\ \A time : Fits(NoDate, time)
  BY DEF NoDate, AskType, Fits
<1>3. ASSUME NEW ask \in AskType, Record(ask),
             epochOffset' \in Int, missionStart' \in Int
      PROVE  PlanType'
  BY <1>1, <1>3, RecordType DEF PlanType
\* Client code runs where the clocks agree.
<1>4. ASSUME NEW call, MayCall(call)
      PROVE  /\ pc \in {"exited", "preExec", "executing", "postExec"}
             /\ simulationTime = simTime
  BY <1>1, <1>4 DEF MayCall, TimeInv, ClocksAgree, PlanClients, ClientsInSync,
                    ConstantsAssumption, Site
<1>5. ASSUME NEW rel \in RelTimes, HasAbsoluteTime(rel), simulationTime = simTime
      PROVE  /\ rel \in Nat \union {Never}
             /\ AbsoluteTime(rel) \in Time /\ AbsoluteTime(rel) # Immediate
  <2>1. rel \in Nat \union {Never}
    BY <1>1 DEF ConstantsAssumption
  <2>2. AbsoluteTime(rel) \in Time
    BY <1>1, <1>5, <2>1, AbsoluteTimeType DEF TypeOK
  <2>3. simTime \in Nat
    BY <1>1 DEF TypeOK
  <2>. QED  BY <1>5, <2>1, <2>2, <2>3 DEF AbsoluteTime, Immediate, Never
<1>6. ASSUME Quiet, Record(NoDate), epochOffset' \in Int, missionStart' \in Int
      PROVE  PlanInv'
  BY <1>1, <1>2, <1>3, <1>6, QuietKeepsPlans
<1>7. CASE Undated /\ ~SetEventSimulationTime /\ Record(NoDate)
  <2>1. scaleVars' = scaleVars /\ PlanType'
    BY <1>1, <1>2, <1>3, <1>7 DEF Undated, scaleVars, PlanType
  <2>2. CASE \/ StopSeen \/ Pause \/ WakeUp \/ Proceed \/ UpdateTime \/ KeepTime
             \/ RefusePast \/ ChangeTime \/ TimeChanged \/ Select \/ EndStep
             \/ RemoveEvent \/ SetSimulationTime \/ Restore \/ Abort
    <3>1. Quiet
      BY <1>1, <2>2, QuietSteps
    <3>. QED  BY <1>6, <1>7, <2>1, <3>1 DEF PlanType
  <2>3. CASE BeginRun
    BY <1>7, <2>1, <2>3, BeginRunKeepsPlans
  <2>4. CASE EndRun
    BY <1>1, <1>7, <2>1, <2>4, EndRunKeepsPlans
  <2>5. CASE AutoHold
    <3>1. /\ nextId < MaxEvents /\ Create("stop", Immediate, 0, 0)
          /\ pc # "run" /\ pc' \in {pc, "step"} /\ pc # "executing" /\ pc # "crashed"
          /\ UNCHANGED <<currentSchedule, simTime>>
      BY <2>5 DEF AutoHold, Loop, timeVars
    <3>2. Immediate \in Time
      BY DEF Time
    <3>. QED
      BY <1>1, <1>2, <1>7, <2>1, <3>1, <3>2, CreateKeepsPlans
  <2>6. CASE AddImmediateEvent
    <3>1. pc \in {"exited", "preExec", "executing", "postExec"} /\ nextId < MaxEvents
      BY <1>1, <1>4, <2>6, MayAddLeavesRoom DEF AddImmediateEvent
    <3>2. /\ Create("user", Immediate, 0, 0) /\ pc' = pc
          /\ UNCHANGED <<currentSchedule, simTime>>
      BY <2>6 DEF AddImmediateEvent, timeVars
    <3>3. Immediate \in Time
      BY DEF Time
    <3>. QED
      BY <1>1, <1>2, <1>7, <2>1, <3>1, <3>2, <3>3, CreateKeepsPlans
  <2>7. CASE AddSimulationTimeEvent
    <3>1. /\ pc \in {"exited", "preExec", "executing", "postExec"}
          /\ nextId < MaxEvents /\ simulationTime = simTime
      BY <1>1, <1>4, <2>7, MayAddLeavesRoom DEF AddSimulationTimeEvent
    <3>2. PICK rel \in RelTimes, cycle \in Cycles, repeat \in Repeats :
            HasAbsoluteTime(rel) /\ Create("user", AbsoluteTime(rel), cycle, repeat)
      BY <2>7 DEF AddSimulationTimeEvent
    <3>3. AbsoluteTime(rel) \in Time /\ cycle \in Int /\ repeat \in Int
      BY <1>1, <1>5, <3>1, <3>2 DEF ConstantsAssumption
    <3>4. pc' = pc /\ UNCHANGED <<currentSchedule, simTime>>
      BY <2>7 DEF AddSimulationTimeEvent, timeVars
    <3>. QED
      BY <1>1, <1>2, <1>7, <2>1, <3>1, <3>2, <3>3, <3>4, CreateKeepsPlans
  <2>8. CASE Hold
    <3>1. /\ pc \in {"exited", "preExec", "executing", "postExec"}
          /\ nextId < MaxEvents /\ simulationTime = simTime
      BY <1>1, <1>4, <2>8, MayAddLeavesRoom DEF Hold
    <3>2. PICK time \in Time : Create("stop", time, 0, 0)
      <4>1. CASE Create("stop", Immediate, 0, 0)
        BY <4>1 DEF Time
      <4>2. CASE HasAbsoluteTime(1) /\ Create("stop", AbsoluteTime(1), 0, 0)
        <5>1. AbsoluteTime(1) \in Time
          BY <1>1, <4>2, AbsoluteTimeType DEF TypeOK
        <5>. QED  BY <4>2, <5>1
      <4>. QED  BY <2>8, <4>1, <4>2 DEF Hold
    <3>3. pc' = pc /\ UNCHANGED <<currentSchedule, simTime>>
      BY <2>8 DEF Hold, timeVars
    <3>. QED
      BY <1>1, <1>2, <1>7, <2>1, <3>1, <3>2, <3>3, CreateKeepsPlans
  <2>9. CASE Run
    <3>1. /\ pc = "exited" /\ pc' = "step" /\ Create("start", Immediate, 0, 0)
          /\ UNCHANGED <<currentSchedule, simTime>>
      BY <2>9 DEF Run
    <3>2. nextId < MaxEvents
      BY <1>1, <2>9 DEF Run, TypeOK, ConstantsAssumption
    <3>3. Immediate \in Time
      BY DEF Time
    <3>. QED
      BY <1>1, <1>2, <1>7, <2>1, <3>1, <3>2, <3>3, CreateKeepsPlans
  <2>10. ~SetEventCycleTime /\ ~SetEventRepeat
    BY <1>1 DEF SetEventCycleTime, SetEventRepeat, MayCall
  <2>. QED
    BY <1>7, <2>2, <2>3, <2>4, <2>5, <2>6, <2>7, <2>8, <2>9, <2>10
    DEF Undated, ThreadStep, UndatedCall
<1>8. CASE (SetEpochTime \/ SetMissionStartTime \/ SetMissionTime) /\ Record(NoDate)
  <2>1. UNCHANGED vars
    BY <1>8 DEF SetEpochTime, SetMissionStartTime, SetMissionTime, MayChange
  <2>2. epochOffset' \in Int /\ missionStart' \in Int
    <3>1. simTime \in Int /\ epochOffset \in Int /\ missionStart \in Int
      BY <1>1 DEF TypeOK, PlanType
    <3>2. \A date \in Dates : date \in Int
      BY MissionAssumption
    <3>3. CASE SetEpochTime
      BY <3>1, <3>2, <3>3 DEF SetEpochTime
    <3>4. CASE SetMissionStartTime
      BY <3>1, <3>2, <3>4 DEF SetMissionStartTime
    <3>5. CASE SetMissionTime
      BY <3>1, <3>2, <3>5 DEF SetMissionTime, GetEpochTime
    <3>. QED  BY <1>8, <3>3, <3>4, <3>5
  <2>3. Quiet
    BY <1>1, <2>1, QuietSteps
  <2>. QED  BY <1>6, <1>8, <2>2, <2>3
<1>9. ASSUME NEW date \in Dates, NEW scale \in {"mission", "epoch"},
             Record([scale |-> scale, date |-> date]),
             Add(date, Now(scale)) \/ Move(date, Now(scale))
      PROVE  PlanInv'
  <2> DEFINE ask == [scale |-> scale, date |-> date]
             rel == Until(date, Now(scale))
  <2>1. ask \in AskType /\ date \in Int
    BY MissionAssumption DEF AskType
  <2>2. scaleVars' = scaleVars
    BY <1>9 DEF Add, Move
  <2>3. PlanType'
    BY <1>1, <1>3, <1>9, <2>1, <2>2 DEF PlanType, scaleVars
  <2>. HIDE DEF ask
  <2>4. CASE Add(date, Now(scale))
    <3>. DEFINE r == rel
    <3>1. r \in RelTimes /\ AddDated(r)
      BY <2>4 DEF Add, TakesDate
    <3>. HIDE DEF r
    <3>2. /\ pc \in {"exited", "preExec", "executing", "postExec"}
          /\ nextId < MaxEvents /\ simulationTime = simTime
      BY <1>1, <1>4, <3>1, MayAddLeavesRoom DEF AddDated
    <3>3. PICK cycle \in Cycles, repeat \in Repeats :
            HasAbsoluteTime(r) /\ Create("user", AbsoluteTime(r), cycle, repeat)
      BY <3>1 DEF AddDated
    <3>4. AbsoluteTime(r) \in Time /\ cycle \in Int /\ repeat \in Int
      BY <1>1, <1>5, <3>1, <3>2, <3>3 DEF ConstantsAssumption
    <3>5. pc' = pc /\ UNCHANGED <<currentSchedule, simTime>>
      BY <3>1 DEF AddDated, timeVars
    <3>6. Fits(ask, AbsoluteTime(r))
      <4>1. r \in Nat \union {Never}
        BY <1>5, <3>1, <3>2, <3>3
      <4>. QED  BY <1>1, <2>1, <3>2, <4>1, DatesFit DEF ask, r
    <3>7. Record(ask)
      BY <1>9 DEF ask
    <3>. QED
      BY <1>1, <2>1, <2>2, <2>3, <3>2, <3>3, <3>4, <3>5, <3>6, <3>7, CreateKeepsPlans
  <2>5. CASE Move(date, Now(scale))
    <3>. DEFINE r == rel
    <3>1. r \in RelTimes
      BY <2>5 DEF Move, TakesDate
    <3>2. PICK m \in EventId : MoveEvent(m, r)
      BY <2>5 DEF Move
    <3>. HIDE DEF r
    <3>3. /\ pc \in {"exited", "preExec", "executing", "postExec"}
          /\ simulationTime = simTime
      BY <1>4, <3>2 DEF MoveEvent
    <3>4. HasAbsoluteTime(r)
      BY <3>2 DEF MoveEvent
    <3>5. /\ r \in Nat \union {Never}
          /\ AbsoluteTime(r) \in Time /\ AbsoluteTime(r) # Immediate
      BY <1>5, <3>1, <3>3, <3>4
    <3>6. Fits(ask, AbsoluteTime(r))
      BY <1>1, <2>1, <3>3, <3>5, DatesFit DEF ask, r
    <3>7. Record(ask)
      BY <1>9 DEF ask
    <3>. QED
      BY <1>1, <2>1, <2>2, <2>3, <3>2, <3>3, <3>5, <3>6, <3>7, MoveKeepsPlans
  <2>. QED  BY <1>9, <2>4, <2>5
<1>10. CASE UNCHANGED planVars
  <2>1. /\ UNCHANGED vars /\ scaleVars' = scaleVars /\ plan' = plan /\ ran' = ran
        /\ asked' = asked /\ pc' = pc /\ sched' = sched /\ nextId' = nextId
        /\ scheduled' = scheduled
    BY <1>10 DEF planVars, missionVars, vars, queueVars
  <2>2. Quiet
    BY <1>1, <2>1, QuietSteps
  <2>3. \A e \in EventId : ~Moved(e)
    BY <2>1 DEF Moved
  <2>4. Record(NoDate)
    BY <1>1, <2>1, <2>3 DEF Record, PlanType
  <2>5. epochOffset' \in Int /\ missionStart' \in Int
    BY <1>1, <2>1 DEF scaleVars, PlanType
  <2>. QED  BY <1>6, <2>2, <2>4, <2>5
<1>11. ASSUME NEW date \in Dates, Dated(date) PROVE PlanInv'
  <2>1. \/ /\ Record([scale |-> "mission", date |-> date])
           /\ Add(date, Now("mission")) \/ Move(date, Now("mission"))
        \/ /\ Record([scale |-> "epoch", date |-> date])
           /\ Add(date, Now("epoch")) \/ Move(date, Now("epoch"))
    BY <1>11 DEF Dated, AddMissionTimeEvent, SetEventMissionTime, AddEpochTimeEvent,
                 SetEventEpochTime, Now
  <2>. QED  BY <1>9, <2>1
<1>. QED
  BY <1>7, <1>8, <1>10, <1>11 DEF PlanNext

LEMMA PlanStepIsMissionStep == [PlanNext]_planVars => [MissionNext]_missionVars
  BY DEF PlanNext, Dated, MissionNext, planVars

\* Events run at the times and dates that were asked for them and at no
\* others (Schedule::run, Scheduler::AddMissionTimeEvent and the others): for
\* all periods, repeat counts and durations, however entry points move events
\* to other dates, and however the time scales change meanwhile, until a date
\* is given that has passed.
THEOREM PlansAreFollowed == PlanClients => (PlanSpec => []RunsAsPlanned)
<1> SUFFICES ASSUME PlanClients PROVE PlanSpec => []RunsAsPlanned
  OBVIOUS
<1>. DEFINE OnTime == late \/ (TimeInv /\ PlanInv)
<1>1. PlanInit => TimeInv
  BY TypeInvInit
  DEF PlanInit, MissionInit, Init, TimeInv, ClocksAgree, NoPastEvent, NextIsFirst,
      SelectedIsDue
<1>2. PlanInit => PlanInv
  BY PlanInvInit
<1>3. OnTime /\ [PlanNext]_planVars => OnTime'
  <2> SUFFICES ASSUME OnTime, [PlanNext]_planVars, ~late'
               PROVE  TimeInv' /\ PlanInv'
    OBVIOUS
  <2>1. [MissionNext]_missionVars
    BY PlanStepIsMissionStep
  <2>2. TimeInv /\ PlanInv
    BY <2>1, LateStays
  <2>3. TimeInv'
    BY <2>1, <2>2, MissionStep, TimeInvStep DEF PlanClients
  <2>. QED  BY <2>2, <2>3, PlanInvStep DEF TimeInv
<1>4. OnTime => RunsAsPlanned
  BY PlansSayIt, DatesSayIt DEF TimeInv, TypeInv, RunsAsPlanned
<1>. HIDE DEF OnTime
<1>5. PlanInit => OnTime
  BY <1>1, <1>2 DEF OnTime
<1>. QED  BY <1>3, <1>4, <1>5, PTL DEF PlanSpec

=============================================================================
