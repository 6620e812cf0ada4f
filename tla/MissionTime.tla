---------------------------- MODULE MissionTime ----------------------------
(***************************************************************************)
(* Epoch and mission time (kern/src/TimeKeeper.cpp) and the events that    *)
(* are scheduled at a date of one of them (kern/src/Scheduler.cpp). Both   *)
(* scales are offsets to the simulation time, so that an event keeps its   *)
(* place in the queue when a scale changes after it was added. Nothing is  *)
(* done for Zulu time: these calls say so and return -1.                   *)
(***************************************************************************)
EXTENDS Scheduler

CONSTANTS
  Dates,       \* dates given to the calls
  MaxChanges   \* bound: changes of the scales and moves of events

ASSUME MissionAssumption ==
  /\ Dates \subseteq Int
  /\ MaxChanges \in Nat

VARIABLES
  epochOffset,   \* TimeKeeper::_epochOffset
  missionStart,  \* TimeKeeper::_missionStart
  late,          \* history: a date was given that had passed
  changes        \* bound on the changes so far

scaleVars == <<epochOffset, missionStart>>
missionVars == <<vars, scaleVars, late, changes>>

MissionInit ==
  /\ Init
  /\ epochOffset = 0 /\ missionStart = 0
  /\ late = FALSE
  /\ changes = 0

GetEpochTime   == epochOffset + simTime
GetMissionTime == GetEpochTime - missionStart

\* How far away a date is. That it has not passed is not checked: the event
\* is put behind the clock, except that getAbsoluteTime takes the nanosecond
\* before now for Never, and that the sum may be the mark of an immediate one.
Until(date, now) == date - now

\* The dates of a call: those that lie ahead as far as RelTimes says (a
\* bound), and those that have passed.
TakesDate(date, now) ==
  \/ Until(date, now) < 0 /\ late' = TRUE
  \/ ~ (Until(date, now) < 0) /\ Until(date, now) \in RelTimes /\ UNCHANGED late

MayChange ==
  /\ MayCall("SetTimeScale")
  /\ changes < MaxChanges
  /\ changes' = changes + 1
  /\ UNCHANGED <<vars, late>>

\* Mission time moves with epoch time.
SetEpochTime ==
  /\ MayChange
  /\ \E date \in Dates : epochOffset' = date - simTime
  /\ UNCHANGED missionStart

SetMissionStartTime ==
  /\ MayChange
  /\ \E date \in Dates : missionStart' = date
  /\ UNCHANGED epochOffset

SetMissionTime ==
  /\ MayChange
  /\ \E date \in Dates : missionStart' = GetEpochTime - date
  /\ UNCHANGED epochOffset

Add(date, now) ==
  /\ TakesDate(date, now)
  /\ AddDated(Until(date, now))
  /\ UNCHANGED <<scaleVars, changes>>

AddMissionTimeEvent(date) == Add(date, GetMissionTime)
AddEpochTimeEvent(date)   == Add(date, GetEpochTime)

Move(date, now) ==
  /\ TakesDate(date, now)
  /\ changes < MaxChanges
  /\ changes' = changes + 1
  /\ \E e \in EventId : MoveEvent(e, Until(date, now))
  /\ UNCHANGED scaleVars

SetEventMissionTime(date) == Move(date, GetMissionTime)
SetEventEpochTime(date)   == Move(date, GetEpochTime)

\* What does not depend on the scales.
Undated ==
  /\ ThreadStep \/ UndatedCall
  /\ UNCHANGED <<scaleVars, late, changes>>

MissionNext ==
  \/ Undated
  \/ SetEpochTime \/ SetMissionStartTime \/ SetMissionTime
  \/ \E date \in Dates :
       \/ AddMissionTimeEvent(date) \/ SetEventMissionTime(date)
       \/ AddEpochTimeEvent(date)   \/ SetEventEpochTime(date)

MissionSpec == MissionInit /\ [][MissionNext]_missionVars

=============================================================================
