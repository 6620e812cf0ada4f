------------------------------ MODULE SimSync ------------------------------
(***************************************************************************)
(* Two simulators that advance together (mt/src/SimSyncMaster.cpp and      *)
(* SimSyncSlave.cpp): each has its scheduler thread, whose sync entry      *)
(* point publishes data, meets the other one at a Barrier and reads what   *)
(* the other one published. The master connects and initialises the slave  *)
(* with itself, starts it when it starts, holds it when it stops, and      *)
(* stores and restores it.                                                 *)
(*                                                                         *)
(* Of the simulators themselves only the state, the scheduler thread and   *)
(* the pending stop event are kept: RunControl has the rest. The thread of *)
(* the last run has returned when the next run starts.                     *)
(***************************************************************************)
EXTENDS DataShare, FiniteSets

CONSTANTS
  MaxRuns,    \* bound: runs of the master
  MaxRounds,  \* bound: completed rounds of a run
  Outputs,    \* sizes of the fields connected to the outputs of each side
  Inputs      \* and to its inputs

Side == {"master", "slave"}

ASSUME ConstantsAssumption ==
  /\ MaxRuns \in Nat /\ MaxRounds \in Nat
  /\ Outputs \in [Side -> Seq(Nat)] /\ Inputs \in [Side -> Seq(Nat)]

Other(s) == IF s = "master" THEN "slave" ELSE "master"

VARIABLES
  thresh, generation, waiting, released, triggered, canceled, ticket, result,
  state,       \* Simulator::_state of each side
  pc,          \* where the scheduler thread of each side is
  front,       \* where the thread that connects, runs and stores the master is
  stop,        \* the stop event of each side is queued
  exitFlag,    \* SimSyncSlave::_exitFlag
  subscribed,  \* slavestby is subscribed to the slave's EnterStandby
  data,        \* what _data of each side holds, and the round it belongs to
  loaded,      \* what the inputs of each side hold
  round,       \* history: syncs begun by each side in this run
  runs,        \* history: runs of the master so far
  early        \* history: the master went on before the slave was started

barrierVars == <<thresh, generation, waiting, released, triggered, canceled,
                 ticket, result>>
dataVars == <<data, loaded, round>>
vars == <<barrierVars, state, pc, front, stop, exitFlag, subscribed, dataVars,
          runs, early>>

B == INSTANCE Barrier WITH Threads <- Side, Thresholds <- {2},
                           ResetInside <- TRUE, MaxGeneration <- MaxRounds + 1

Init ==
  /\ B!Init
  /\ state = [s \in Side |-> "Building"]
  /\ pc = [s \in Side |-> "none"]
  /\ front = "connect"
  /\ stop = [s \in Side |-> FALSE]
  /\ exitFlag = "EXIT"
  /\ subscribed = FALSE
  /\ data = [s \in Side |-> [run |-> 0, round |-> 0, bytes |-> <<>>]]
  /\ loaded = [s \in Side |-> <<>>]
  /\ round = [s \in Side |-> 0]
  /\ runs = 0
  /\ early = FALSE

GoTo(s, place) == pc' = [pc EXCEPT ![s] = place]

\* What the master does before the slave runs: nothing keeps it from that.
NoteEarly(s) == early' = (early \/ (s = "master" /\ front # "idle"))

Enters(s, to) == state' = [state EXCEPT ![s] = to]

-----------------------------------------------------------------------------
(***************************************************************************)
(* Connect, Store, Restore and Exit of the master, whose handlers call the *)
(* slave. Configure of the slave, which is called from configure, changes  *)
(* nothing that matters here.                                              *)
(***************************************************************************)
frontRest == <<pc, stop, subscribed, dataVars, runs, early>>

\* The slave is connected, and initialised, in connect of the master.
FrontConnect ==
  /\ front = "connect" /\ state["slave"] = "Building"
  /\ Enters("slave", "Standby")
  /\ front' = "initialise"
  /\ UNCHANGED <<barrierVars, exitFlag, frontRest>>

\* Then the master is in Standby and initialises itself; the slave, asked
\* again, has no initialisation entry points left.
FrontInitialise ==
  /\ front = "initialise"
  /\ Enters("master", "Standby")
  /\ front' = "idle"
  /\ UNCHANGED <<barrierVars, exitFlag, frontRest>>

AtRest == front = "idle" /\ state["master"] = "Standby" /\ pc["master"] = "none"

FrontStore ==
  /\ AtRest
  /\ \E s \in {"Storing", "Restoring"} : Enters("master", s)
  /\ front' = "slaveStore"
  /\ UNCHANGED <<barrierVars, exitFlag, frontRest>>

\* The slave does as the master does, or nothing unless it is in Standby.
FrontSlaveStore ==
  /\ front = "slaveStore"
  /\ IF state["slave"] = "Standby"
     THEN Enters("slave", state["master"]) /\ front' = "slaveStored"
     ELSE UNCHANGED state /\ front' = "stored"
  /\ UNCHANGED <<barrierVars, exitFlag, frontRest>>

FrontSlaveStored ==
  /\ front = "slaveStored"
  /\ Enters("slave", "Standby")
  /\ front' = "stored"
  /\ UNCHANGED <<barrierVars, exitFlag, frontRest>>

FrontStored ==
  /\ front = "stored"
  /\ Enters("master", "Standby")
  /\ front' = "idle"
  /\ UNCHANGED <<barrierVars, exitFlag, frontRest>>

\* Exit, or Abort in Standby.
FrontExit ==
  /\ AtRest
  /\ \E s \in {"Exiting", "Aborting"} : Enters("master", s)
  /\ front' = "tell"
  /\ UNCHANGED <<barrierVars, exitFlag, frontRest>>

\* Abort in Executing: LeaveExecuting reaches the scheduler first, which
\* waits for its thread to return. Bound: no Hold of the same run is under
\* way (RunControl has both).
FrontAbort ==
  /\ front = "idle" /\ state["master"] = "Executing" /\ ~stop["master"]
  /\ front' = "join"
  /\ UNCHANGED <<barrierVars, state, exitFlag, frontRest>>

ThreadReturns ==
  /\ front = "join" /\ pc["master"] = "ready"
  /\ GoTo("master", "none")
  /\ UNCHANGED <<barrierVars, state, front, stop, exitFlag, subscribed, dataVars,
                 runs, early>>

\* Then it reaches leaverun, on this thread: pc["master"] says where it is.
FrontLeave ==
  /\ front = "join" /\ pc["master"] = "none"
  /\ exitFlag' = "HOLD"
  /\ GoTo("master", "cancel")
  /\ front' = "leave"
  /\ UNCHANGED <<barrierVars, state, stop, subscribed, dataVars, runs, early>>

\* The slave is told by the flag and the barrier, if it is in sync.
FrontTell ==
  /\ front = "tell"
  /\ exitFlag' = IF state["master"] = "Exiting" THEN "EXIT" ELSE "ABORT"
  /\ B!Cancel
  /\ front' = "idle"
  /\ UNCHANGED <<state, frontRest>>

-----------------------------------------------------------------------------
(***************************************************************************)
(* The thread that calls Run: the subscribers of the master's              *)
(* EnterExecuting are its scheduler, which starts the thread, and then     *)
(* SimSyncMaster::run.                                                     *)
(***************************************************************************)

FrontRun ==
  /\ AtRest
  /\ runs < MaxRuns
  /\ runs' = runs + 1
  /\ Enters("master", "Executing")
  /\ front' = "start"
  /\ UNCHANGED <<barrierVars, pc, stop, exitFlag, subscribed, dataVars, early>>

FrontStart ==
  /\ front = "start"
  /\ GoTo("master", "ready")
  /\ round' = [s \in Side |-> 0]
  /\ front' = "reset"
  /\ UNCHANGED <<barrierVars, state, stop, exitFlag, subscribed, data, loaded,
                 runs, early>>

FrontReset ==
  /\ front = "reset"
  /\ B!Reset
  /\ front' = "slaveRun"
  /\ UNCHANGED <<state, pc, stop, exitFlag, subscribed, dataVars, runs, early>>

\* Simulator::Run of the slave, ignored unless it is in Standby.
FrontSlaveRun ==
  /\ front = "slaveRun"
  /\ IF state["slave"] = "Standby"
     THEN /\ pc["slave"] = "none"
          /\ Enters("slave", "Executing")
          /\ GoTo("slave", "ready")
     ELSE UNCHANGED <<state, pc>>
  /\ front' = "idle"
  /\ UNCHANGED <<barrierVars, stop, exitFlag, subscribed, dataVars, runs, early>>

-----------------------------------------------------------------------------
(***************************************************************************)
(* sync, on the scheduler thread of either side.                           *)
(***************************************************************************)

\* sync is periodic: it goes on until the simulator stops.
SyncBegins(s) ==
  /\ pc[s] = "ready" /\ ~stop[s]
  /\ s = "master" => front # "join"
  /\ round[s] < MaxRounds \/ canceled
  /\ round' = [round EXCEPT ![s] = IF @ > MaxRounds THEN @ ELSE @ + 1]
  /\ GoTo(s, "arrive")
  /\ NoteEarly(s)
  /\ UNCHANGED <<barrierVars, state, front, stop, exitFlag, subscribed, loaded, runs>>

\* Faulty variant: the data of the previous round are sent again.
Publish_KeepsData(s) == SyncBegins(s) /\ UNCHANGED data

\* The outputs are copied to _data.
Publish(s) ==
  /\ SyncBegins(s)
  /\ data' = [data EXCEPT ![s] = [run |-> runs, round |-> round'[s],
                                 bytes |-> retrieveData(Outputs[s])]]

\* Where wait leads to when it returns.
Answered(s) == GoTo(s, IF result'[s] THEN "read" ELSE "refused")

Arrive(s) ==
  /\ pc[s] = "arrive"
  /\ B!Arrive(s)
  /\ IF ticket'[s] = B!Out THEN Answered(s) ELSE GoTo(s, "inside")
  /\ UNCHANGED <<state, front, stop, exitFlag, subscribed, dataVars, runs, early>>

Leave(s) ==
  /\ pc[s] = "inside"
  /\ B!Leave(s)
  /\ Answered(s)
  /\ UNCHANGED <<state, front, stop, exitFlag, subscribed, dataVars, runs, early>>

\* The data that the other side has now are loaded into the inputs.
Read(s) ==
  /\ pc[s] = "read"
  /\ loaded' = [loaded EXCEPT ![s] = loadData(Inputs[s], data[Other(s)].bytes)]
  /\ GoTo(s, "ready")
  /\ UNCHANGED <<barrierVars, state, front, stop, exitFlag, subscribed, data, round,
                 runs, early>>

\* The barrier is cancelled: the master does nothing, the slave calls what
\* the flag says. Exit is ignored, as it is executing; Abort ends its run.
Refused(s) ==
  /\ pc[s] = "refused"
  /\ stop' = [stop EXCEPT ![s] = @ \/ (s = "slave" /\ exitFlag = "HOLD")]
  /\ IF s = "slave" /\ exitFlag = "ABORT"
     THEN Enters("slave", "Aborting") /\ GoTo("slave", "none")
     ELSE UNCHANGED state /\ GoTo(s, "ready")
  /\ UNCHANGED <<barrierVars, front, exitFlag, subscribed, dataVars, runs, early>>

-----------------------------------------------------------------------------
(***************************************************************************)
(* The end of a run. The stop event of the master leads to leaverun.       *)
(***************************************************************************)

\* SimControl, or any other client, calls Hold of the master.
HoldMaster ==
  /\ state["master"] = "Executing" /\ front \notin {"join", "leave"}
  /\ stop' = [stop EXCEPT !["master"] = TRUE]
  /\ UNCHANGED <<barrierVars, state, pc, front, exitFlag, subscribed, dataVars,
                 runs, early>>

SetFlag ==
  /\ pc["master"] = "ready" /\ stop["master"]
  /\ exitFlag' = "HOLD"
  /\ GoTo("master", "cancel")
  /\ NoteEarly("master")
  /\ UNCHANGED <<barrierVars, state, front, stop, subscribed, dataVars, runs>>

Cancel ==
  /\ pc["master"] = "cancel"
  /\ B!Cancel
  /\ GoTo("master", "subscribe")
  /\ UNCHANGED <<state, front, stop, exitFlag, subscribed, dataVars, runs, early>>

Subscribe ==
  /\ pc["master"] = "subscribe"
  /\ subscribed' = TRUE
  /\ GoTo("master", "check")
  /\ UNCHANGED <<barrierVars, state, front, stop, exitFlag, dataVars, runs, early>>

\* Faulty variant: the state of the slave is not looked at.
Check_DoesNotWait ==
  /\ pc["master"] = "check"
  /\ GoTo("master", "unsubscribe")
  /\ UNCHANGED <<barrierVars, state, front, stop, exitFlag, subscribed, dataVars,
                 runs, early>>

\* The condition of waitSlaveStandby. Its mutex is local: the slave may
\* change its state, and notify, before the master sleeps.
Check ==
  /\ pc["master"] = "check"
  /\ GoTo("master", IF state["slave"] = "Standby" THEN "unsubscribe" ELSE "fallAsleep")
  /\ UNCHANGED <<barrierVars, state, front, stop, exitFlag, subscribed, dataVars,
                 runs, early>>

FallAsleep ==
  /\ pc["master"] = "fallAsleep"
  /\ GoTo("master", "asleep")
  /\ UNCHANGED <<barrierVars, state, front, stop, exitFlag, subscribed, dataVars,
                 runs, early>>

\* The state changes, and the thread returns or the abort goes on.
Unsubscribe ==
  /\ pc["master"] = "unsubscribe"
  /\ subscribed' = FALSE
  /\ IF front = "leave"
     THEN Enters("master", "Aborting") /\ front' = "tell"
     ELSE Enters("master", "Standby") /\ UNCHANGED front
  /\ stop' = [stop EXCEPT !["master"] = FALSE]
  /\ GoTo("master", "none")
  /\ UNCHANGED <<barrierVars, exitFlag, dataVars, runs, early>>

\* The stop event of the slave: the state changes, ...
StopSlave ==
  /\ pc["slave"] = "ready" /\ stop["slave"]
  /\ Enters("slave", "Standby")
  /\ stop' = [stop EXCEPT !["slave"] = FALSE]
  /\ GoTo("slave", "notify")
  /\ UNCHANGED <<barrierVars, front, exitFlag, subscribed, dataVars, runs, early>>

\* Faulty variant: slavestby does not notify.
Notify_Nobody ==
  /\ pc["slave"] = "notify"
  /\ GoTo("slave", "none")
  /\ UNCHANGED <<barrierVars, state, front, stop, exitFlag, subscribed, dataVars,
                 runs, early>>

\* ... then EnterStandby is emitted: slavestby, if it is subscribed, wakes
\* the master up, if it sleeps.
Notify ==
  /\ pc["slave"] = "notify"
  /\ pc' = [pc EXCEPT !["slave"] = "none",
                      !["master"] = IF subscribed /\ @ = "asleep" THEN "check" ELSE @]
  /\ UNCHANGED <<barrierVars, state, front, stop, exitFlag, subscribed, dataVars,
                 runs, early>>

-----------------------------------------------------------------------------

Start ==
  \/ FrontConnect \/ FrontInitialise
  \/ FrontStart \/ FrontReset \/ FrontSlaveRun
  \/ FrontSlaveStore \/ FrontSlaveStored \/ FrontStored
  \/ FrontLeave \/ FrontTell

Sync(s) == Publish(s) \/ Arrive(s) \/ Leave(s) \/ Read(s) \/ Refused(s)
Stop(s) ==
  \/ /\ s = "master"
     /\ ThreadReturns \/ SetFlag \/ Cancel \/ Subscribe \/ Check \/ FallAsleep \/ Unsubscribe
  \/ s = "slave" /\ (StopSlave \/ Notify)

Next ==
  \/ FrontRun \/ FrontStore \/ FrontExit \/ FrontAbort \/ HoldMaster \/ Start
  \/ \E s \in Side : Sync(s) \/ Stop(s)

Spec == Init /\ [][Next]_vars

\* The threads run, and sync is scheduled for ever. Nobody has to call Run,
\* Hold or anything else.
FairSpec ==
  /\ Spec
  /\ WF_vars(Start)
  /\ \A s \in Side : WF_vars(Sync(s) \/ Stop(s))

-----------------------------------------------------------------------------
(***************************************************************************)
(* Properties.                                                             *)
(***************************************************************************)

\* What a side reads after the barrier is never older than its own round,
\* and at most one round ahead: the other side may already be at its next
\* sync, and has overwritten the data of this one.
DataAreFresh ==
  \A s \in Side : (pc[s] = "read" /\ ~early) =>
    /\ data[Other(s)].run = runs
    /\ data[Other(s)].round \in {round[s], round[s] + 1}

\* Each input gets the bytes of the output of the same position, if the two
\* sides agree on the sizes of the fields up to this one.
InputsGetTheirOutputs ==
  \A s \in Side : \A i \in DOMAIN loaded[s] :
    (/\ i <= Len(Outputs[Other(s)])
     /\ \A j \in 1 .. i : Inputs[s][j] = Outputs[Other(s)][j])
      => loaded[s][i] = Bytes(Outputs[Other(s)], i)

\* A sync shares the data of this round, field by field (SimSyncMaster::sync,
\* SimSyncSlave::sync, SimSyncDataShare::loadData).
DataAreShared == DataAreFresh /\ InputsGetTheirOutputs

\* When the master is not executing the slave is not either: it is ready to
\* be stored, restored and run with it (leaverun waits for it). And when the
\* slave comes out of a cancelled sync, it is asked to hold: whatever becomes
\* of the master, the slave is neither exited nor aborted.
SlaveFollowsMaster ==
  ~early =>
    /\ state["master"] # "Executing" => state["slave"] # "Executing"
    /\ pc["slave"] = "refused" => exitFlag = "HOLD"

\* "Blocks until every simulators are waiting" (SimSyncMaster.cpp:33), and
\* not longer: both sides get out of every sync, whether the run goes on or
\* is stopped while one of them waits.
EverySyncReturns ==
  \A s \in Side : pc[s] = "inside" ~> pc[s] # "inside" \/ early

\* The slave becomes Standby after the master has looked at its state and
\* before the master sleeps: nobody wakes the master up.
WakeUpMissed == pc["master"] = "fallAsleep" /\ state["slave"] = "Standby"

\* That is the only thing that keeps a Hold or an Abort of the master from
\* completing.
StopCompletes ==
  (stop["master"] \/ front = "join") /\ pc["master"] # "asleep"
    ~> state["master"] # "Executing" \/ early \/ WakeUpMissed

\* Nobody stays in a sync, or in a stop of the master, for ever
\* (SimSyncMaster::leaverun, waitSlaveStandby).
NobodyIsLeftWaiting == EverySyncReturns /\ StopCompletes

=============================================================================
