----------------------------- MODULE FMIProofs -----------------------------
(***************************************************************************)
(* Proofs about FMIBridge and the FMILoad inside of it, for every number   *)
(* of models, every period, every description of the imported unit, every  *)
(* sequence of step sizes and whatever the unit answers to its steps.      *)
(***************************************************************************)
EXTENDS FMIBridge, TLAPS

-----------------------------------------------------------------------------
(***************************************************************************)
(* The types, as far as the proofs need them.                              *)
(***************************************************************************)

PlanTypes ==
  /\ point \in Nat /\ size \in Nat /\ end \in Nat
  /\ time \in Nat /\ began \in Nat
  /\ due \in [Models -> Nat \union {Never}]
  /\ stops \in Nat
  /\ holds \in Nat

LEMMA PlanTypesInit == Init => PlanTypes
  BY FMIBridgeAssumption DEF Init, PlanTypes

\* The calls on the FMILoad, the writes of fields and the changes of the
\* states of the two threads leave the plan alone.
LEMMA PlanTypesKept ==
  ASSUME PlanTypes, UNCHANGED <<point, size, end, time, began, due, stops, holds>>
  PROVE  PlanTypes'
  BY DEF PlanTypes

LEMMA PlanTypesStep == PlanTypes /\ [Next]_vars => PlanTypes'
<1> SUFFICES ASSUME PlanTypes, [Next]_vars PROVE PlanTypes'
  OBVIOUS
<1>1. CASE Instantiate
  BY <1>1, PlanTypesKept DEF Instantiate, simVars
<1>2. CASE HostSets
  BY <1>2, PlanTypesKept DEF HostSets, hostVars, simVars
<1>3. CASE EnterInitializationMode
  BY <1>3, PlanTypesKept DEF EnterInitializationMode, simVars
<1>4. CASE ExitInitializationMode
  BY <1>4, PlanTypesKept DEF ExitInitializationMode
<1>5. CASE WriteFields \/ UnitFinishes
  BY <1>5, PlanTypesKept DEF WriteFields, UnitFinishes, hostVars, simVars
<1>6. CASE DoStep
  BY <1>6, FMIBridgeAssumption DEF DoStep, PlanTypes, simVars
<1>7. CASE Terminate
  BY <1>7 DEF Terminate, PlanTypes
<1>8. CASE FreeInstance
  BY <1>8, PlanTypesKept DEF FreeInstance
<1>9. CASE HostReturns
  BY <1>9
  DEF HostReturns, RunEnters, RunStarts, RunRefused, StepReturns,
      TerminateReturns, PlanTypes, simVars
<1>10. CASE ChangeTime
  BY <1>10 DEF ChangeTime, onSimTimeChanged, PlanTypes, hostVars
<1>11. CASE Execute
  <2>1. PICK m \in Models : Reschedule(m)
    BY <1>11 DEF Execute
  <2>2. (IF Period[m] = 0 THEN Never ELSE due[m] + Period[m]) \in Nat \union {Never}
    BY FMIBridgeAssumption DEF PlanTypes, Never
  <2>3. due' \in [Models -> Nat \union {Never}]
    BY <2>1, <2>2 DEF Reschedule, PlanTypes
  <2>. QED  BY <1>11, <2>3 DEF Execute, PlanTypes, hostVars
<1>12. CASE EntryPointReturns
  BY <1>12, PlanTypesKept DEF EntryPointReturns, hostVars
<1>13. CASE LeaveExecuting
  BY <1>13 DEF LeaveExecuting, PlanTypes, hostVars
<1>14. CASE EnterStandby \/ NotifyStopped \/ ThreadReturns
  BY <1>14, PlanTypesKept DEF EnterStandby, NotifyStopped, ThreadReturns, hostVars
<1>15. CASE ModelHolds
  BY <1>15 DEF ModelHolds, PlanTypes, hostVars
<1>16. CASE UNCHANGED vars
  BY <1>16, PlanTypesKept DEF vars, hostVars, simVars
<1>. QED
  BY <1>1, <1>2, <1>3, <1>4, <1>5, <1>6, <1>7, <1>8, <1>9, <1>10, <1>11,
     <1>12, <1>13, <1>14, <1>15, <1>16
  DEF Next, ThreadStep

-----------------------------------------------------------------------------
(***************************************************************************)
(* The two threads.                                                        *)
(***************************************************************************)

\* Entry points run only while the host waits in DoStep, and it is told that
\* the run is over when they do not any more.
PhaseInv ==
  /\ host \in {"none", "new", "failed", "initialization", "idle", "run", "joining",
               "wait", "terminating", "terminated", "freed"}
  /\ th \in {"none", "step", "executing", "leaving", "stopped", "notified", "dead"}
  /\ host \in {"none", "new", "failed", "initialization", "freed"} => th = "none"
  /\ th \in {"step", "executing", "dead"} => host = "wait" /\ ~completed
  /\ completed => host = "wait"

LEMMA PhaseInvStep == PhaseInv /\ [Next]_vars => PhaseInv'
<1> SUFFICES ASSUME PhaseInv, [Next]_vars PROVE PhaseInv'
  OBVIOUS
<1>1. CASE Instantiate
  BY <1>1 DEF Instantiate, PhaseInv, simVars
<1>2. CASE HostSets \/ WriteFields \/ UnitFinishes
  BY <1>2 DEF HostSets, WriteFields, UnitFinishes, PhaseInv, hostVars, simVars
<1>3. CASE EnterInitializationMode
  BY <1>3 DEF EnterInitializationMode, PhaseInv, simVars
<1>4. CASE ExitInitializationMode
  BY <1>4 DEF ExitInitializationMode, PhaseInv
<1>5. CASE DoStep
  BY <1>5 DEF DoStep, PhaseInv, simVars
<1>6. CASE Terminate \/ FreeInstance
  BY <1>6 DEF Terminate, FreeInstance, PhaseInv
<1>7. CASE HostReturns
  BY <1>7
  DEF HostReturns, RunEnters, RunStarts, RunRefused, StepReturns,
      TerminateReturns, PhaseInv, simVars
<1>8. CASE ChangeTime \/ ModelHolds
  BY <1>8 DEF ChangeTime, ModelHolds, PhaseInv, hostVars
<1>9. CASE Execute
  <2>1. th' \in {"executing", "dead"}
    BY <1>9 DEF Execute
  <2>. QED  BY <1>9, <2>1 DEF Execute, PhaseInv, hostVars
<1>10. CASE \/ EntryPointReturns \/ LeaveExecuting
            \/ EnterStandby \/ NotifyStopped \/ ThreadReturns
  BY <1>10
  DEF EntryPointReturns, LeaveExecuting, EnterStandby, NotifyStopped,
      ThreadReturns, PhaseInv, hostVars
<1>11. CASE UNCHANGED vars
  BY <1>11 DEF vars, hostVars, simVars, PhaseInv
<1>. QED
  BY <1>1, <1>2, <1>3, <1>4, <1>5, <1>6, <1>7, <1>8, <1>9, <1>10, <1>11
  DEF Next, ThreadStep

LEMMA PhaseInvHolds == Spec => []PhaseInv
<1>1. Init => PhaseInv
  BY DEF Init, PhaseInv
<1>. QED  BY <1>1, PhaseInvStep, PTL DEF Spec

\* While the host is between two steps, and calls the slave without a lock,
\* no entry point of the simulation runs and its time stands still
\* (FMIBridge::DoStep, onLeaveExecuting), also when Run was refused.
THEOREM TheHostIsAlone == Spec => []HostIsAlone
<1>1. PhaseInv => HostIsAlone
  BY DEF PhaseInv, HostIsAlone
<1>. QED  BY <1>1, PhaseInvHolds, PTL

-----------------------------------------------------------------------------
(***************************************************************************)
(* What one step of the host executes.                                     *)
(***************************************************************************)

DueFromEndOn == \A m \in Models : due[m] = Never \/ due[m] >= end

\* Unless models hold the simulation, the only stop event in the queue is the
\* one that the end of the step, or Terminate, puts there. A stop event is
\* waiting or the run is over only when nothing is due before the end, and
\* without a stop event the clock is within the step.
StepInv ==
  /\ holds = 0 =>
       /\ host \in {"none", "new", "failed", "initialization", "idle", "run", "joining"}
            => stops = 0
       /\ host = "wait" /\ th \in {"none", "leaving", "stopped", "notified"}
            => stops = 0
       /\ stops <= 1
       /\ host = "wait" /\ (stops > 0 \/ completed) => DueFromEndOn
  /\ th \in {"step", "executing"} /\ stops = 0 => time < end \/ time = began
  /\ began <= time

StepAssumed == PlanTypes /\ PhaseInv /\ StepInv

LEMMA StepInvKept ==
  ASSUME StepInv,
         UNCHANGED <<th, stops, holds, due, completed, end, time, began>>,
         \/ host' = host
         \/ host' \notin {"none", "new", "failed", "initialization", "idle", "run",
                          "joining", "wait"}
         \/ /\ host \in {"none", "new", "failed", "initialization", "idle"}
            /\ host' # "wait"
  PROVE  StepInv'
  BY DEF StepInv, DueFromEndOn

LEMMA StepInvStep == StepAssumed /\ [Next]_vars => StepInv'
<1> SUFFICES ASSUME PlanTypes, PhaseInv, StepInv, [Next]_vars PROVE StepInv'
  BY DEF StepAssumed
<1>1. CASE Instantiate
  BY <1>1, StepInvKept DEF Instantiate, simVars
<1>2. CASE HostSets \/ WriteFields \/ UnitFinishes
  BY <1>2, StepInvKept DEF HostSets, WriteFields, UnitFinishes, hostVars, simVars
<1>3. CASE EnterInitializationMode
  BY <1>3, StepInvKept DEF EnterInitializationMode, simVars
<1>4. CASE ExitInitializationMode
  BY <1>4, StepInvKept DEF ExitInitializationMode
<1>5. CASE DoStep
  BY <1>5 DEF DoStep, StepInv, PhaseInv, simVars
<1>6. CASE Terminate
  BY <1>6 DEF Terminate, StepInv, PhaseInv, PlanTypes
<1>7. CASE FreeInstance
  BY <1>7, StepInvKept DEF FreeInstance
<1>8. CASE RunEnters \/ RunStarts
  BY <1>8 DEF RunEnters, RunStarts, StepInv, PhaseInv, PlanTypes, DueFromEndOn
<1>9. CASE RunRefused
  BY <1>9 DEF RunRefused, StepInv, PhaseInv, simVars
<1>10. CASE StepReturns
  BY <1>10 DEF StepReturns, StepInv, PhaseInv, simVars
<1>11. CASE TerminateReturns
  BY <1>11, StepInvKept DEF TerminateReturns, simVars
<1>12. CASE ChangeTime
  <2>1. stops = 0 /\ th = "step" /\ th' = th /\ host = "wait" /\ ~completed
    BY <1>12 DEF ChangeTime, PhaseInv
  <2>2. UNCHANGED <<host, completed, th, due, end, began, holds>>
    BY <1>12 DEF ChangeTime, hostVars
  <2>3. time' \in Nat /\ \A m \in Models : due[m] = Never \/ due[m] >= time'
    BY <1>12 DEF ChangeTime, NextIs
  <2>4. stops' = IF time' >= end THEN 1 ELSE 0
    BY <1>12, <2>1 DEF ChangeTime, onSimTimeChanged
  <2>5. stops' > 0 => DueFromEndOn'
    BY <2>2, <2>3, <2>4 DEF DueFromEndOn, PlanTypes, Never
  <2>6. stops' = 0 => time' < end'
    BY <2>2, <2>3, <2>4 DEF PlanTypes
  <2>7. stops' <= 1
    BY <2>4
  <2>8. began' <= time'
    <3>1. time' > time
      BY <1>12 DEF ChangeTime
    <3>. QED  BY <2>2, <2>3, <3>1 DEF StepInv, PlanTypes
  <2>. QED  BY <2>1, <2>2, <2>5, <2>6, <2>7, <2>8 DEF StepInv
<1>13. CASE Execute
  <2>1. th' \in {"executing", "dead"} /\ th = "step" /\ stops = 0 /\ stops' = 0
    BY <1>13 DEF Execute
  <2>2. UNCHANGED <<host, completed, time, end, began, holds>>
    BY <1>13 DEF Execute, hostVars
  <2>. QED  BY <2>1, <2>2 DEF StepInv, PhaseInv
<1>14. CASE EntryPointReturns
  BY <1>14 DEF EntryPointReturns, StepInv, PhaseInv, DueFromEndOn, hostVars
<1>15. CASE LeaveExecuting
  BY <1>15 DEF LeaveExecuting, StepInv, PhaseInv, PlanTypes, DueFromEndOn, hostVars
<1>16. CASE EnterStandby \/ NotifyStopped \/ ThreadReturns
  BY <1>16
  DEF EnterStandby, NotifyStopped, ThreadReturns, StepInv, PhaseInv,
      DueFromEndOn, hostVars
<1>17. CASE ModelHolds
  BY <1>17 DEF ModelHolds, StepInv, PlanTypes, hostVars
<1>18. CASE UNCHANGED vars
  BY <1>18, StepInvKept DEF vars, hostVars, simVars
<1>. QED
  BY <1>1, <1>2, <1>3, <1>4, <1>5, <1>6, <1>7, <1>8, <1>9, <1>10, <1>11,
     <1>12, <1>13, <1>14, <1>15, <1>16, <1>17, <1>18
  DEF Next, HostReturns, ThreadStep

LEMMA StepInvHolds == Spec => []StepAssumed
<1>1. Init => StepAssumed
  BY PlanTypesInit DEF Init, StepAssumed, PhaseInv, StepInv
<1>2. StepAssumed /\ [Next]_vars => StepAssumed'
  BY PlanTypesStep, PhaseInvStep, StepInvStep DEF StepAssumed
<1>. QED  BY <1>1, <1>2, PTL DEF Spec

LEMMA NothingIsSkippedStep ==
  StepAssumed /\ [Next]_vars =>
    (host = "wait" /\ host' = "idle" /\ holds = 0 => DueFromEndOn)
<1> SUFFICES ASSUME StepAssumed, [Next]_vars, host = "wait", host' = "idle", holds = 0
             PROVE  DueFromEndOn
  OBVIOUS
<1>1. StepReturns
  BY DEF Next, HostReturns, ThreadStep, Instantiate, HostSets,
         EnterInitializationMode, ExitInitializationMode, WriteFields,
         UnitFinishes, DoStep, Terminate, FreeInstance, RunEnters, RunStarts,
         RunRefused, TerminateReturns, ChangeTime, Execute, EntryPointReturns,
         LeaveExecuting, EnterStandby, NotifyStopped, ThreadReturns,
         ModelHolds, hostVars, vars
<1>. QED  BY <1>1 DEF StepReturns, StepAssumed, StepInv

LEMMA NothingBeyondStep ==
  StepAssumed /\ [Next]_vars =>
    (th = "step" /\ th' = "executing" =>
       IF AheadOfHost THEN time = began ELSE time < end)
<1> SUFFICES ASSUME StepAssumed, [Next]_vars, th = "step", th' = "executing"
             PROVE  IF AheadOfHost THEN time = began ELSE time < end
  OBVIOUS
<1>1. Execute
  BY DEF Next, HostReturns, ThreadStep, Instantiate, HostSets,
         EnterInitializationMode, ExitInitializationMode, WriteFields,
         UnitFinishes, DoStep, Terminate, FreeInstance, RunEnters, RunStarts,
         RunRefused, StepReturns, TerminateReturns, ChangeTime,
         EntryPointReturns, LeaveExecuting, EnterStandby, NotifyStopped,
         ThreadReturns, ModelHolds, hostVars, simVars, vars
<1>2. time < end \/ time = began
  BY <1>1 DEF Execute, StepAssumed, StepInv
<1>3. began \in Nat /\ end \in Nat /\ time \in Nat /\ began <= time
  BY <1>1 DEF Execute, StepAssumed, StepInv, PlanTypes
<1>. QED  BY <1>2, <1>3 DEF AheadOfHost

\* What a step of the host executes (FMIBridge::DoStep, onSimTimeChanged,
\* onLeaveExecuting): when DoStep returns nothing is due before its end,
\* unless a model held the simulation. No entry point ran from the end on,
\* unless the clock was already there when the step began; then only what
\* was due at that very time ran, however far beyond the end it lies.
THEOREM StepsCatchUpWithTheHost == Spec => StepsExecuteWhatIsDue
<1>1. Spec => NothingIsSkipped
  BY StepInvHolds, NothingIsSkippedStep, PTL
  DEF Spec, NothingIsSkipped, DueFromEndOn
<1>2. Spec => NothingBeyondUnlessAhead
  BY StepInvHolds, NothingBeyondStep, PTL DEF Spec, NothingBeyondUnlessAhead
<1>. QED  BY <1>1, <1>2 DEF StepsExecuteWhatIsDue

-----------------------------------------------------------------------------
(***************************************************************************)
(* The imported unit.                                                      *)
(***************************************************************************)

\* The state of the unit follows the host's. It stops being in step mode by
\* an Error, after which nothing runs, or by a Pending or a Discard, both of
\* which are remembered.
UnitPhase ==
  /\ host \in {"none", "new", "failed"} => unit = "none" /\ misuse = {}
  /\ host = "initialization" => unit = "stepMode" /\ misuse = {}
  /\ host \in {"idle", "run", "joining", "wait", "terminating", "terminated"} =>
       /\ unit \in {"stepMode", "stepInProgress", "stepFailed", "freed"}
       /\ unit = "stepInProgress" => "Pending" \in trouble
       /\ unit = "stepFailed" => th = "dead"
       /\ unit = "freed" => "Discard" \in trouble
  /\ host = "freed" => unit \in {"none", "freed"}

UnitInv == PhaseInv /\ UnitPhase /\ UnitIsInStep

\* Steps that make no call on the unit.
LEMMA UnitIsLeftAlone ==
  ASSUME UnitInv, UNCHANGED <<curComTime, unit, unitTime, misuse, trouble>>,
         th = "dead" => th' = "dead",
         \/ host' = host
         \/ host \in {"none", "new"} /\ host' \in {"new", "failed"}
         \/ /\ host \in {"idle", "run", "joining", "wait", "terminating"}
            /\ host' \in {"idle", "run", "joining", "wait", "terminating", "terminated"}
  PROVE  UnitPhase' /\ UnitIsInStep'
  BY DEF UnitInv, UnitPhase, UnitIsInStep, OnlyKnownMisuse, Tolerated, PointsAgree

\* More trouble only adds to what is tolerated.
LEMMA ToleratedGrows ==
  ASSUME trouble \subseteq trouble'
  PROVE  Tolerated \subseteq Tolerated'
  BY DEF Tolerated

\* The calls of the new step, and the answer to it, are tolerated.
LEMMA StepIsTolerated ==
  ASSUME UnitInv, unit \in {"stepMode", "stepInProgress", "freed"}, host = "wait",
         trouble \subseteq trouble',
         misuse' = misuse \union ({unit} \ {"stepMode"})
                          \union {"set" : x \in Exchanged}
  PROVE  OnlyKnownMisuse'
<1>1. misuse \subseteq Tolerated'
  BY ToleratedGrows DEF UnitInv, UnitIsInStep, OnlyKnownMisuse
<1>2. {"set" : x \in Exchanged} \subseteq Tolerated'
  BY DEF Tolerated
<1>3. {unit} \ {"stepMode"} \subseteq Tolerated'
  BY DEF UnitInv, UnitPhase, Tolerated
<1>. QED  BY <1>1, <1>2, <1>3 DEF OnlyKnownMisuse

\* doStep on the scheduler thread: the unit is in step mode unless a step was
\* left pending or discarded before.
LEMMA UnitStep ==
  ASSUME UnitInv, th = "step", NEW status \in Statuses, DoStepEP(status),
         host' = host,
         th' = IF status = "Error" THEN "dead" ELSE "executing"
  PROVE  UnitPhase' /\ UnitIsInStep'
<1>0. status \in {"OK", "Warning", "Discard", "Pending", "Error"}
  BY FMILoadAssumption
<1>1. host = "wait" /\ unit \in {"stepMode", "stepInProgress", "freed"}
  BY DEF UnitInv, PhaseInv, UnitPhase
<1>2. CASE StepRefused
  BY <1>1, <1>2
  DEF DoStepEP, loadVars, UnitInv, UnitPhase, UnitIsInStep, OnlyKnownMisuse,
      Tolerated, PointsAgree
<1>3. CASE ~StepRefused
  <2>1. /\ misuse' = misuse \union ({unit} \ {"stepMode"})
                            \union {"set" : x \in Exchanged}
        /\ unitTime' = IF status \in {"OK", "Warning"} THEN unitTime + setting.stepSize
                                                       ELSE unitTime
        /\ trouble' = IF status = "OK" THEN trouble ELSE trouble \union {status}
        /\ setting' = setting
        /\ StepAnswered(status)
    BY <1>3 DEF DoStepEP
  <2>2. trouble \subseteq trouble' /\ (status # "OK" => status \in trouble')
    BY <2>1
  <2>3. unit' \in {"stepMode", "stepInProgress", "stepFailed", "freed"}
    BY <1>0, <1>1, <2>1 DEF StepAnswered
  <2>4. unit' = "stepFailed" => th' = "dead"
    BY <1>0, <1>1, <2>1 DEF StepAnswered
  <2>5. unit' = "freed" => "Discard" \in trouble'
    BY <1>0, <1>1, <2>1, <2>2 DEF StepAnswered, UnitInv, UnitPhase
  <2>6. unit' = "stepInProgress" => "Pending" \in trouble'
    BY <1>0, <1>1, <2>1, <2>2 DEF StepAnswered, UnitInv, UnitPhase
  <2>7. OnlyKnownMisuse'
    BY <1>1, <2>1, <2>2, StepIsTolerated
  <2>8. PointsAgree'
    <3>1. SUFFICES ASSUME unit' = "stepMode",
                          trouble' \intersect {"Warning", "Pending"} = {}
                   PROVE  curComTime' = unitTime'
      BY DEF PointsAgree
    <3>2. unit = "stepMode" /\ status = "OK"
      BY <1>0, <1>1, <2>1, <2>2, <3>1 DEF StepAnswered, UnitInv, UnitPhase
    <3>3. curComTime = unitTime
      BY <2>2, <3>1, <3>2 DEF UnitInv, UnitIsInStep, PointsAgree
    <3>. QED  BY <2>1, <3>2, <3>3 DEF StepAnswered
  <2>. QED
    BY <1>1, <2>3, <2>4, <2>5, <2>6, <2>7, <2>8 DEF UnitPhase, UnitIsInStep
<1>. QED  BY <1>2, <1>3

LEMMA UnitInvStep == UnitInv /\ [Next]_vars => UnitInv'
<1> SUFFICES ASSUME UnitInv, [Next]_vars PROVE UnitPhase' /\ UnitIsInStep'
  BY PhaseInvStep DEF UnitInv
<1>1. CASE Instantiate
  BY <1>1, UnitIsLeftAlone DEF Instantiate, simVars, loadVars
<1>2. CASE HostSets
  BY <1>2, UnitIsLeftAlone DEF HostSets, hostVars, simVars
<1>3. CASE WriteFields
  BY <1>3, UnitIsLeftAlone DEF WriteFields, WriteField, hostVars, simVars
<1>4. CASE EnterInitializationMode
  <2>1. CASE ConfigureFails /\ host' = "failed"
    BY <1>4, <2>1, UnitIsLeftAlone DEF EnterInitializationMode, ConfigureFails, simVars
  <2>2. ASSUME NEW d \in Settings, Configure(d), host' = "initialization"
        PROVE  UnitPhase' /\ UnitIsInStep'
    <3>1. host = "new" /\ misuse = {}
      BY <1>4 DEF EnterInitializationMode, UnitInv, UnitPhase
    <3>2. misuse' = {}
      BY <3>1, <2>2 DEF Configure, Setup
    <3>3. unit' = "stepMode" /\ unitTime' = 0 /\ curComTime' = 0
      BY <2>2 DEF Configure, Setup, Live
    <3>. QED
      BY <2>2, <3>2, <3>3 DEF UnitPhase, UnitIsInStep, OnlyKnownMisuse, PointsAgree
  <2>. QED  BY <1>4, <2>1, <2>2 DEF EnterInitializationMode
<1>5. CASE ExitInitializationMode
  <2>1. /\ host = "initialization" /\ host' = "idle"
        /\ unit = "stepMode" /\ misuse = {}
    BY <1>5 DEF ExitInitializationMode, UnitInv, UnitPhase
  <2>2. Setup("instantiated", Start, SentBySetup)
    BY <1>5, <2>1 DEF ExitInitializationMode, Reset, Live
  <2>3. misuse' = {}
    BY <2>1, <2>2 DEF Setup
  <2>4. unit' = "stepMode" /\ unitTime' = 0 /\ curComTime' = 0
    BY <2>2 DEF Setup, Live
  <2>. QED
    BY <2>1, <2>3, <2>4 DEF UnitPhase, UnitIsInStep, OnlyKnownMisuse, PointsAgree
<1>6. CASE DoStep
  BY <1>6, UnitIsLeftAlone DEF DoStep, simVars, loadVars
<1>7. CASE Terminate
  BY <1>7, UnitIsLeftAlone DEF Terminate, loadVars
<1>8. CASE FreeInstance
  <2>1. host' = "freed" /\ Destroy
    BY <1>8 DEF FreeInstance
  <2>2. misuse \subseteq Tolerated
    BY DEF UnitInv, UnitIsInStep, OnlyKnownMisuse
  <2>3. CASE unit = "none"
    <3>1. /\ unit' = "none" /\ trouble' = trouble \union {"neverConfigured"}
          /\ misuse' \subseteq misuse \union {"none"}
      BY <2>1, <2>3 DEF Destroy
    <3>2. Tolerated \subseteq Tolerated' /\ "none" \in Tolerated'
      BY <3>1, ToleratedGrows DEF Tolerated
    <3>. QED
      BY <2>1, <2>2, <3>1, <3>2 DEF UnitPhase, UnitIsInStep, OnlyKnownMisuse, PointsAgree
  <2>4. CASE unit # "none"
    <3>1. /\ misuse' = misuse \union ({unit} \intersect {"freed", "stepInProgress"})
          /\ unit' = "freed" /\ trouble' = trouble
      BY <2>1, <2>4 DEF Destroy
    <3>2. /\ unit = "freed" => "Discard" \in trouble
          /\ unit = "stepInProgress" => "Pending" \in trouble
      BY <1>8, <2>4 DEF FreeInstance, UnitInv, UnitPhase
    <3>3. {unit} \intersect {"freed", "stepInProgress"} \subseteq Tolerated
      BY <3>2 DEF Tolerated
    <3>4. Tolerated' = Tolerated
      BY <3>1 DEF Tolerated
    <3>. QED
      BY <2>1, <2>2, <3>1, <3>3, <3>4 DEF UnitPhase, UnitIsInStep, OnlyKnownMisuse, PointsAgree
  <2>. QED  BY <2>3, <2>4
<1>9. CASE HostReturns
  <2>1. /\ UNCHANGED loadVars
        /\ th = "dead" => th' = "dead"
        /\ host \in {"run", "joining", "wait", "terminating"}
        /\ host' \in {"idle", "joining", "wait", "terminated"}
    BY <1>9
    DEF HostReturns, RunEnters, RunStarts, RunRefused, StepReturns,
        TerminateReturns, simVars
  <2>. QED  BY <2>1, UnitIsLeftAlone DEF loadVars
<1>10. CASE Execute
  <2>1. host' = host /\ th = "step"
    BY <1>10 DEF Execute, hostVars
  <2>2. CASE \E status \in Statuses :
               /\ DoStepEP(status)
               /\ th' = IF status = "Error" THEN "dead" ELSE "executing"
    BY <2>1, <2>2, UnitStep
  <2>3. CASE th' = "executing" /\ UNCHANGED loadVars
    BY <2>1, <2>3, UnitIsLeftAlone DEF loadVars
  <2>. QED  BY <1>10, <2>2, <2>3 DEF Execute
<1>11. CASE \/ ChangeTime \/ EntryPointReturns \/ LeaveExecuting \/ EnterStandby
            \/ NotifyStopped \/ ThreadReturns \/ ModelHolds
  <2>1. UNCHANGED <<host, loadVars>> /\ (th = "dead" => th' = "dead")
    BY <1>11
    DEF ChangeTime, EntryPointReturns, LeaveExecuting, EnterStandby,
        NotifyStopped, ThreadReturns, ModelHolds, hostVars
  <2>. QED  BY <2>1, UnitIsLeftAlone DEF loadVars
<1>12. CASE UnitFinishes
  <2>1. /\ UNCHANGED <<host, th, misuse, trouble>>
        /\ unit = "stepInProgress" /\ unit' = "stepMode"
    BY <1>12 DEF UnitFinishes, StepFinished, hostVars, simVars
  <2>2. /\ host \notin {"none", "new", "failed", "initialization"}
        /\ host \in {"idle", "run", "joining", "wait", "terminating", "terminated"}
             => "Pending" \in trouble
    BY <2>1 DEF UnitInv, UnitPhase
  <2>3. UnitPhase' /\ OnlyKnownMisuse'
    BY <2>1, <2>2
    DEF UnitInv, UnitPhase, UnitIsInStep, OnlyKnownMisuse, Tolerated
  <2>4. host # "freed"
    BY <2>1 DEF UnitInv, UnitPhase
  <2>5. PointsAgree'
    BY <2>1, <2>2, <2>4 DEF UnitInv, PhaseInv, PointsAgree
  <2>. QED  BY <2>3, <2>5 DEF UnitIsInStep
<1>13. CASE UNCHANGED vars
  BY <1>13, UnitIsLeftAlone DEF vars, hostVars, simVars, loadVars
<1>. QED
  BY <1>1, <1>2, <1>3, <1>4, <1>5, <1>6, <1>7, <1>8, <1>9, <1>10, <1>11,
     <1>12, <1>13
  DEF Next, ThreadStep

LEMMA UnitInvHolds == Spec => []UnitInv
<1>1. Init => UnitInv
  BY DEF Init, LoadInit, UnitInv, PhaseInv, UnitPhase, UnitIsInStep,
         OnlyKnownMisuse, PointsAgree
<1>. QED  BY <1>1, UnitInvStep, PTL DEF Spec

\* Every call on the imported unit that its standard forbids is one of the
\* four that Tolerated names, each after the trouble that leads to it
\* (FMILoad::setup, doStep, terminate, ~FMILoad), and its communication point
\* is the time it has reached until a warning or a pending step, for every
\* description of the unit and every sequence of its answers.
THEOREM TheUnitIsInStep == Spec => []UnitIsInStep
<1>1. UnitInv => UnitIsInStep
  BY DEF UnitInv
<1>. QED  BY <1>1, UnitInvHolds, PTL

=============================================================================
