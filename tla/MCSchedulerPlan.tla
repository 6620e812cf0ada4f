-------------------------- MODULE MCSchedulerPlan --------------------------
(***************************************************************************)
(* The scheduler with history variables, to compare what each event did    *)
(* with what was asked for it: plan holds the arguments of its Add call,   *)
(* from the last move on; ran the simulation times at which its entry      *)
(* point was called since then; asked the date that the call gave and its  *)
(* scale, if it was a date, as long as the scale has not changed.          *)
(***************************************************************************)
EXTENDS MissionTime, Sequences

VARIABLES plan, ran, asked

planVars == <<missionVars, plan, ran, asked>>

\* Client code calls from entry points and in Standby; it adds events, moves
\* them to a date and sets the scales.
PlanSites == {"exited", "executing"}
PlanCalls == {"AddImmediateEvent", "AddSimulationTimeEvent"}
DateCalls == {"AddDatedEvent", "SetEventSimulationTime", "SetTimeScale"}
AllPlanCalls == PlanCalls \union DateCalls

\* Times, cycle times and repeat counts of the plans: a one-shot event, an
\* aperiodic one, a periodic one; twice, for ever (an immediate event is the
\* one that is completed at once).
PlanRelTimes == {0, 1, Never}
PlanCycles   == {-1, 0, 2}
PlanRepeats  == {-1, 1}

\* A date by which a scale may be set, and the dates it leads to.
PlanDates == {0, 2}

NoDate == [scale |-> "none", date |-> 0]

PlanInit ==
  /\ MissionInit
  /\ plan = sched
  /\ ran = [e \in EventId |-> <<>>]
  /\ asked = [e \in EventId |-> NoDate]

Now(scale) == IF scale = "mission" THEN GetMissionTime ELSE GetEpochTime

\* A client call has given event e another time, or put it into the queue.
Moved(e) ==
  /\ pc' = pc
  /\ e < nextId
  /\ sched'[e].time # sched[e].time \/ e \in scheduled' \ scheduled

\* An aperiodic event that moves itself is unscheduled when its entry point
\* returns (Schedule::run): nothing more is due.
NewPlan(e) ==
  IF pc = "executing" /\ e = currentSchedule /\ sched[e].period = -1
  THEN [sched'[e] EXCEPT !.time = Never]
  ELSE sched'[e]

\* What is due and what was done, when the call has given the date ask.
Record(ask) ==
  /\ plan' = [e \in EventId |->
       IF e = nextId /\ nextId' # nextId THEN sched'[e]
       ELSE IF Moved(e) THEN NewPlan(e) ELSE plan[e]]
  /\ ran' = [e \in EventId |->
       IF Moved(e) THEN <<>>
       ELSE IF pc = "run" /\ pc' = "executing" /\ e = currentSchedule
       THEN Append(ran[e], simTime)
       ELSE ran[e]]
  /\ asked' = [e \in EventId |->
       IF scaleVars' # scaleVars THEN NoDate
       ELSE IF Moved(e) \/ (e = nextId /\ nextId' # nextId) THEN ask
       ELSE asked[e]]

Dated(date) ==
  \/ /\ AddMissionTimeEvent(date) \/ SetEventMissionTime(date)
     /\ Record([scale |-> "mission", date |-> date])
  \/ /\ AddEpochTimeEvent(date) \/ SetEventEpochTime(date)
     /\ Record([scale |-> "epoch", date |-> date])

\* Only the moves that are counted: an entry point that goes on moving
\* events to the present has a run without an end.
PlanNext ==
  \/ Undated /\ ~SetEventSimulationTime /\ Record(NoDate)
  \/ (SetEpochTime \/ SetMissionStartTime \/ SetMissionTime) /\ Record(NoDate)
  \/ \E date \in Dates : Dated(date)

PlanSpec ==
  /\ PlanInit
  /\ [][PlanNext]_planVars
  /\ WF_planVars(ThreadStep /\ UNCHANGED <<scaleVars, late, changes>> /\ Record(NoDate))

\* The times at which a plan asks its entry point to be called. An event
\* with a cycle time of -1 or 0 is activated once.
Activations(p) ==
  IF p.kind = "none" \/ p.time = Never THEN {}
  ELSE IF p.period <= 0 \/ p.repeat = 0 \/ p.time = Immediate THEN {p.time}
  ELSE {t \in p.time .. DurationMax - 1 :
          /\ (t - p.time) % p.period = 0
          /\ p.repeat < 0 \/ (t - p.time) \div p.period <= p.repeat}

\* An event never runs but at a date of its plan, in order and once each: no
\* drift of the period, no activation too many (Schedule::run).
PlansAreKept ==
  \A e \in EventId :
    /\ plan[e].time # Immediate =>
         \A k \in 1 .. Len(ran[e]) :
           /\ ran[e][k] \in Activations(plan[e])
           /\ k > 1 => ran[e][k-1] < ran[e][k]
    /\ plan[e].time = Immediate => Len(ran[e]) <= 1

\* An event that was added or moved to a mission or epoch date runs first
\* when that date has come (Scheduler::AddMissionTimeEvent and the others).
DatesAreKept ==
  pc = "executing" /\ Len(ran[currentSchedule]) = 1 =>
    LET ask == asked[currentSchedule]
    IN ask # NoDate => Now(ask.scale) = ask.date

\* Events run at the times and dates that were asked for them, and at no
\* others, whoever moves them and however the time scales change, as long as
\* no date that has passed is asked for: the code accepts it and may die of it.
RunsAsPlanned == late \/ (PlansAreKept /\ DatesAreKept)

\* The entry point of e was called at every date of its plan.
Done(e) ==
  \A t \in Activations(plan[e]) \ {Immediate} :
    \E k \in 1 .. Len(ran[e]) : ran[e][k] = t

\* Whatever an entry point adds or moves while the simulation runs, or was
\* there when it started, is activated at every date that simulation time has
\* room for, and then the scheduler stops by itself (autoStop,
\* Scheduler.cpp:350-356), unless a date was given that had passed.
RunCompletesThePlans ==
  /\ \A e \in EventId : run /\ plan[e].kind = "user"  ~>  late \/ (~run /\ Done(e))
  /\ run ~> late \/ pc = "exited"

=============================================================================
