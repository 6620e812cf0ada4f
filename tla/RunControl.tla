----------------------------- MODULE RunControl -----------------------------
(***************************************************************************)
(* How a simulation is started, stopped and aborted: Simulator::Run, Hold  *)
(* and Abort (kern/src/Simulator.cpp), the scheduler's reactions to        *)
(* EnterExecuting and LeaveExecuting (kern/src/Scheduler.cpp), and the     *)
(* life of the scheduler threads (sys/src/Thread.cpp), as the interleaving *)
(* of the threads that call the simulator and of the scheduler threads.    *)
(*                                                                         *)
(* Time is left out: the queue holds the immediate events, oldest first,   *)
(* and then the others in the order of their times. autoStop is on.        *)
(***************************************************************************)
EXTENDS Naturals, Sequences, SequencesExt

CONSTANTS
  Users,          \* threads that call the simulator
  UserCalls,      \* for each of them, the calls it makes
  EntryCalls,     \* the calls that the entry points make
  HoldAfterStart, \* TRUE: entry points call Hold only after the start event
  MaxThreads,     \* bound: scheduler threads ever created
  MaxCalls        \* bound: calls made by all the clients together

Thread == 1 .. MaxThreads
NoThread == 0
Actor == Users \union Thread

ASSUME ConstantsAssumption ==
  /\ Users \intersect Nat = {}
  /\ UserCalls \in [Users -> SUBSET {"Run", "Hold", "Abort", "Add"}]
  /\ EntryCalls \subseteq {"Hold", "Abort", "Add"}
  /\ HoldAfterStart \in BOOLEAN
  /\ MaxThreads \in Nat /\ MaxCalls \in Nat

VARIABLES
  pc,           \* where each thread is
  state,        \* Simulator::_state
  run,          \* Scheduler::_run
  th,           \* Scheduler::_th, the current thread object
  now, later,   \* Scheduler::_scheduled: kinds of the events of the queue
  current,      \* Scheduler::_currentSchedule
  schedulerId,  \* Simulator::_schedulerThreadId
  waitingStop,  \* Simulator::_waitingStop
  calls,        \* number of calls made so far
  overlap       \* history: an Abort came during a Run, or a Run during an Abort

vars == <<pc, state, run, th, now, later, current, schedulerId, waitingStop,
          calls, overlap>>
queueVars == <<now, later>>
history   == <<calls, overlap>>

Init ==
  /\ pc = [a \in Actor |-> IF a \in Users THEN "idle" ELSE "none"]
  /\ state = "Standby"
  /\ run = FALSE
  /\ th = NoThread
  /\ now = <<>>
  /\ later = <<>>
  /\ current = "none"
  /\ schedulerId = NoThread
  /\ waitingStop = FALSE
  /\ calls = 0
  /\ overlap = FALSE

GoTo(a, place) == pc' = [pc EXCEPT ![a] = place]

\* Where an actor goes when a call of the simulator returns.
Back(a) ==
  IF a \in Users THEN "idle" ELSE IF current = "user" THEN "executing" ELSE "loop"

\* Scheduler::_mutex is only held for long by the thread that, in
\* epEnterExecuting, joins the previous scheduler thread.
MutexFree == \A u \in Users : pc[u] # "joining"

Returned(t) == t # NoThread => pc[t] = "done"

AddNow(kind)   == now' = Append(now, kind) /\ UNCHANGED later
AddLater(kind) ==
  /\ \E i \in 1 .. Len(later) + 1 : later' = InsertAt(later, i, kind)
  /\ UNCHANGED now

-----------------------------------------------------------------------------
(***************************************************************************)
(* Calls. A user thread makes them when it is idle, an entry point while   *)
(* it executes.                                                            *)
(***************************************************************************)

\* A call that begins while another one is half done: Run does not see that
\* Abort comes, nor Abort that Run is starting the scheduler thread.
Overlaps(call) ==
  \/ /\ call = "Abort"
     /\ \E u \in Users : pc[u] \in {"runAdd", "runState", "runEnter", "joining"}
  \/ /\ call = "Run"
     /\ \E a \in Actor : pc[a] \in {"abortLeave", "abortJoin", "abortState"}

MayCall(a, call) ==
  /\ calls < MaxCalls
  /\ IF a \in Users THEN pc[a] = "idle" /\ call \in UserCalls[a]
                    ELSE pc[a] = "executing" /\ call \in EntryCalls
  /\ calls' = calls + 1
  /\ overlap' = (overlap \/ Overlaps(call))

\* IScheduler::AddImmediateEvent and AddSimulationTimeEvent.
AddEvent(a) ==
  /\ MayCall(a, "Add")
  /\ MutexFree
  /\ AddNow("user") \/ AddLater("user")
  /\ UNCHANGED <<pc, state, run, th, current, schedulerId, waitingStop>>

\* Simulator::Run, the check of the state.
RunCheck(u) ==
  /\ MayCall(u, "Run")
  /\ state = "Standby"
  /\ \E t \in Thread : pc[t] = "none"
  /\ GoTo(u, "runAdd")
  /\ UNCHANGED <<state, run, th, queueVars, current, schedulerId, waitingStop>>

RunAddStart(u) ==
  /\ pc[u] = "runAdd"
  /\ MutexFree
  /\ AddNow("start")
  /\ GoTo(u, "runState")
  /\ UNCHANGED <<state, run, th, current, schedulerId, waitingStop, history>>

\* setState(Executing): the state changes, then EnterExecuting is emitted.
RunSetState(u) ==
  /\ pc[u] = "runState"
  /\ state' = "Executing"
  /\ GoTo(u, IF state = "Executing" THEN "idle" ELSE "runEnter")
  /\ UNCHANGED <<run, th, queueVars, current, schedulerId, waitingStop, history>>

\* Faulty variant: the previous thread is not joined.
EnterExecuting_NoJoin(u) ==
  /\ pc[u] = "runEnter"
  /\ MutexFree
  /\ IF run THEN GoTo(u, "idle") /\ UNCHANGED th
     ELSE \E t \in Thread :
            /\ pc[t] = "none"
            /\ \A o \in 1 .. t - 1 : pc[o] # "none"
            /\ th' = t
            /\ pc' = [pc EXCEPT ![u] = "idle", ![t] = "begin"]
  /\ UNCHANGED <<state, run, queueVars, current, schedulerId, waitingStop, history>>

\* Scheduler::epEnterExecuting: unless the scheduler runs, the thread object
\* is replaced, which joins the previous thread with the mutex held.
EnterExecuting(u) ==
  /\ pc[u] = "runEnter"
  /\ MutexFree
  /\ GoTo(u, IF run THEN "idle" ELSE "joining")
  /\ UNCHANGED <<state, run, th, queueVars, current, schedulerId, waitingStop,
                 history>>

\* The previous thread has returned: the new one is started.
StartThread(u) ==
  /\ pc[u] = "joining"
  /\ Returned(th)
  /\ \E t \in Thread :
       /\ pc[t] = "none"
       /\ \A o \in 1 .. t - 1 : pc[o] # "none"
       /\ th' = t
       /\ pc' = [pc EXCEPT ![u] = "idle", ![t] = "begin"]
  /\ UNCHANGED <<state, run, queueVars, current, schedulerId, waitingStop, history>>

\* Simulator::Hold, the check of the state; step() calls it as well when the
\* queue is empty (see Step).
HoldCheck(a) ==
  /\ MayCall(a, "Hold")
  /\ a \in Thread /\ HoldAfterStart => a = schedulerId
  /\ state = "Executing"
  /\ GoTo(a, "holdAdd")
  /\ UNCHANGED <<state, run, th, queueVars, current, schedulerId, waitingStop>>

\* The stop event is immediate, or (never in step) one nanosecond from now.
HoldAddStop(a) ==
  /\ pc[a] = "holdAdd"
  /\ MutexFree
  /\ \/ AddNow("stop")
     \/ ~ (a \in Thread /\ current = "none") /\ AddLater("stop")
  /\ GoTo(a, "holdWho")
  /\ UNCHANGED <<state, run, th, current, schedulerId, waitingStop, history>>

\* Only the scheduler thread returns at once. The others take the lock, set
\* _waitingStop and wait.
HoldReturnOrWait(a) ==
  /\ pc[a] = "holdWho"
  /\ IF a = schedulerId
     THEN GoTo(a, Back(a)) /\ UNCHANGED waitingStop
     ELSE GoTo(a, "holdWait") /\ waitingStop' = TRUE
  /\ UNCHANGED <<state, run, th, queueVars, current, schedulerId, history>>

\* The waiting thread has been notified and finds _waitingStop cleared.
HoldReturn(a) ==
  /\ pc[a] = "holdWait"
  /\ ~waitingStop
  /\ GoTo(a, Back(a))
  /\ UNCHANGED <<state, run, th, queueVars, current, schedulerId, waitingStop,
                 history>>

\* Simulator::Abort: the state decides on the event to emit. The state is
\* assigned only after LeaveExecuting has been handled.
AbortCheck(a) ==
  /\ MayCall(a, "Abort")
  /\ state # "Aborting"
  /\ GoTo(a, IF state = "Executing" THEN "abortLeave" ELSE "abortState")
  /\ UNCHANGED <<state, run, th, queueVars, current, schedulerId, waitingStop>>

\* Scheduler::epLeaveExecuting up to the join.
AbortLeave(a) ==
  /\ pc[a] = "abortLeave"
  /\ MutexFree
  /\ run' = FALSE
  /\ GoTo(a, "abortJoin")
  /\ UNCHANGED <<state, th, queueVars, current, schedulerId, waitingStop, history>>

\* Faulty variant: the state changes without waiting for the thread.
AbortJoin_NoJoin(a) ==
  /\ pc[a] = "abortJoin"
  /\ GoTo(a, "abortState")
  /\ UNCHANGED <<state, run, th, queueVars, current, schedulerId, waitingStop,
                 history>>

\* The end of epLeaveExecuting: the scheduler thread does not join itself.
AbortJoin(a) ==
  /\ pc[a] = "abortJoin"
  /\ IF th \in {NoThread, a} THEN UNCHANGED th
                             ELSE Returned(th) /\ th' = NoThread
  /\ GoTo(a, "abortState")
  /\ UNCHANGED <<state, run, queueVars, current, schedulerId, waitingStop, history>>

\* A thread that joins the scheduler thread while another one does: undefined,
\* in the build an exception of the second join, which ends the call before
\* the state is assigned. (Or the process ends, as any behaviour may.)
AbortThrows(a) ==
  /\ pc[a] = "abortJoin" /\ a \in Users
  /\ ~Returned(th)
  /\ \E u \in Users \ {a} : pc[u] = "abortJoin"
  /\ GoTo(a, "idle")
  /\ UNCHANGED <<state, run, th, queueVars, current, schedulerId, waitingStop, history>>

AbortSetState(a) ==
  /\ pc[a] = "abortState"
  /\ state' = "Aborting"
  /\ GoTo(a, Back(a))
  /\ UNCHANGED <<run, th, queueVars, current, schedulerId, waitingStop, history>>

-----------------------------------------------------------------------------
(***************************************************************************)
(* The scheduler thread: Scheduler::run and step.                          *)
(***************************************************************************)

\* Scheduler::run sets _run without the lock.
Begin(t) ==
  /\ pc[t] = "begin"
  /\ run' = TRUE
  /\ GoTo(t, "loop")
  /\ UNCHANGED <<state, th, queueVars, current, schedulerId, waitingStop, history>>

\* The first critical section of step; with nothing left to run, Hold(true).
Step(t) ==
  /\ pc[t] = "loop"
  /\ IF ~run THEN GoTo(t, "done")
     ELSE /\ MutexFree
          /\ GoTo(t, IF now \o later = <<>> THEN "autoHold" ELSE "select")
  /\ UNCHANGED <<state, run, th, queueVars, current, schedulerId, waitingStop,
                 history>>

AutoHoldCheck(t) ==
  /\ pc[t] = "autoHold"
  /\ GoTo(t, IF state = "Executing" THEN "holdAdd" ELSE "loop")
  /\ UNCHANGED <<state, run, th, queueVars, current, schedulerId, waitingStop,
                 history>>

\* Where the thread is while an event of each kind runs.
Running == [user |-> "executing", start |-> "starting", stop |-> "stopping"]

\* The second critical section of step: the head of the queue is taken,
\* unless a stop came in between.
Select(t) ==
  /\ pc[t] = "select"
  /\ MutexFree
  /\ \/ ~run /\ GoTo(t, "loop") /\ UNCHANGED <<queueVars, current>>
     \/ /\ run
        /\ \E kind \in DOMAIN Running :
             /\ current' = kind
             /\ GoTo(t, Running[kind])
             /\ \/ now # <<>> /\ kind = Head(now)
                   /\ now' = Tail(now) /\ UNCHANGED later
                \/ now = <<>> /\ kind = Head(later)
                   /\ later' = Tail(later) /\ UNCHANGED now
  /\ UNCHANGED <<state, run, th, schedulerId, waitingStop, history>>

\* Faulty variant: the identity of the first scheduler thread is kept.
EpStart_Once(t) ==
  /\ pc[t] = "starting"
  /\ schedulerId' = IF schedulerId = NoThread THEN t ELSE schedulerId
  /\ GoTo(t, "finish")
  /\ UNCHANGED <<state, run, th, queueVars, current, waitingStop, history>>

\* Simulator::epStart.
EpStart(t) ==
  /\ pc[t] = "starting"
  /\ schedulerId' = t
  /\ GoTo(t, "finish")
  /\ UNCHANGED <<state, run, th, queueVars, current, waitingStop, history>>

EntryPointReturns(t) ==
  /\ pc[t] = "executing"
  /\ GoTo(t, "finish")
  /\ UNCHANGED <<state, run, th, queueVars, current, schedulerId, waitingStop,
                 history>>

\* Simulator::epStop, setState(Standby): in Executing, LeaveExecuting is
\* emitted first, and the scheduler thread clears _run but joins nobody.
EpStop(t) ==
  /\ pc[t] = "stopping"
  /\ MutexFree
  /\ run' = (run /\ state # "Executing")
  /\ GoTo(t, IF state = "Standby" THEN "stopNotify" ELSE "stopState")
  /\ UNCHANGED <<state, th, queueVars, current, schedulerId, waitingStop, history>>

EpStopSetState(t) ==
  /\ pc[t] = "stopState"
  /\ state' = "Standby"
  /\ GoTo(t, "stopNotify")
  /\ UNCHANGED <<run, th, queueVars, current, schedulerId, waitingStop, history>>

\* Faulty variant: the flag is left set.
EpStopNotify_FlagKept(t) ==
  /\ pc[t] = "stopNotify"
  /\ GoTo(t, "finish")
  /\ UNCHANGED <<state, run, th, queueVars, current, schedulerId, waitingStop, history>>

\* The rest of epStop: the thread that waits in Hold, if it already does, is
\* released.
EpStopNotify(t) ==
  /\ pc[t] = "stopNotify"
  /\ waitingStop' = FALSE
  /\ GoTo(t, "finish")
  /\ UNCHANGED <<state, run, th, queueVars, current, schedulerId, history>>

\* The end of step, under the lock.
Finish(t) ==
  /\ pc[t] = "finish"
  /\ MutexFree
  /\ current' = "none"
  /\ GoTo(t, "loop")
  /\ UNCHANGED <<state, run, th, queueVars, schedulerId, waitingStop, history>>

-----------------------------------------------------------------------------

\* What an actor does once a call has begun.
Proceed(a) ==
  \/ HoldAddStop(a) \/ HoldReturnOrWait(a) \/ HoldReturn(a)
  \/ AbortLeave(a) \/ AbortJoin(a) \/ AbortThrows(a) \/ AbortSetState(a)
  \/ /\ a \in Users
     /\ RunAddStart(a) \/ RunSetState(a) \/ EnterExecuting(a) \/ StartThread(a)
  \/ /\ a \in Thread
     /\ \/ Begin(a) \/ Step(a) \/ AutoHoldCheck(a) \/ Select(a) \/ EpStart(a)
        \/ EntryPointReturns(a) \/ EpStop(a) \/ EpStopSetState(a)
        \/ EpStopNotify(a) \/ Finish(a)

Call(a) ==
  \/ AddEvent(a) \/ HoldCheck(a) \/ AbortCheck(a)
  \/ a \in Users /\ RunCheck(a)

Next == \E a \in Actor : Proceed(a) \/ Call(a)

Spec == Init /\ [][Next]_vars

(***************************************************************************)
(* Threads are OS threads and entry points return: whoever can proceed     *)
(* does. Nobody is obliged to make a call.                                 *)
(***************************************************************************)
FairSpec == Spec /\ \A a \in Actor : WF_vars(Proceed(a))

-----------------------------------------------------------------------------
(***************************************************************************)
(* Properties.                                                             *)
(***************************************************************************)

Alive(t) == pc[t] \notin {"none", "done"}

TypeOK ==
  /\ pc \in [Actor -> {"idle", "none", "begin", "loop", "autoHold", "select",
                       "executing", "starting", "stopping", "stopState",
                       "stopNotify", "finish", "done", "runAdd", "runState",
                       "runEnter", "joining", "holdAdd", "holdWho", "holdWait",
                       "abortLeave", "abortJoin", "abortState"}]
  /\ state \in {"Standby", "Executing", "Aborting"}
  /\ run \in BOOLEAN
  /\ th \in Thread \union {NoThread}
  /\ now \in Seq({"user", "start", "stop"})
  /\ later \in Seq({"user", "stop"})
  /\ current \in {"none", "user", "start", "stop"}
  /\ schedulerId \in Thread \union {NoThread}
  /\ waitingStop \in BOOLEAN
  /\ calls \in 0 .. MaxCalls
  /\ overlap \in BOOLEAN

\* There are never two scheduler threads in the loop: epEnterExecuting joins
\* the previous one before it starts another.
OneSchedulerThread ==
  \A s, t \in Thread : Alive(s) /\ Alive(t) => s = t

\* In Standby no model code runs: the stop event is the last one that the
\* thread fetched, although _run and _state change at different times. (Here
\* and below: as long as no Abort came in the middle of a Run.)
StandbyIsQuiet ==
  state = "Standby" /\ ~overlap => \A t \in Thread : pc[t] \notin {"executing", "select"}

\* Aborting is final, whatever epStop is doing meanwhile and whoever else
\* aborts, unless a Run was under way when Abort came: Run overwrites the
\* state, or starts a thread that Abort did not find.
AbortIsFinal ==
  [][state = "Aborting" /\ ~overlap => state' = "Aborting"]_vars

\* The scheduler thread itself never waits in Hold (Simulator.cpp:361-362):
\* it is known under its own id by the time it may call it.
SchedulerNeverWaits == ~overlap => \A t \in Thread : pc[t] # "holdWait"

\* Stopping is safe: nothing runs in Standby, and the thread that has to
\* perform the stop does not wait for it.
HoldIsSafe == StandbyIsQuiet /\ SchedulerNeverWaits

\* Run came between the previous thread's last event and its last critical
\* section: it holds the mutex that this thread needs to return.
RestartedTooEarly ==
  \E u \in Users : pc[u] = "joining" /\ th # NoThread /\ pc[th] = "finish"

\* A run ends once its events are exhausted: such a restart, or an Abort
\* during Run, is all that keeps a run from ending.
RunEndsUnlessRestartedEarly ==
  state = "Executing" ~> state # "Executing" \/ RestartedTooEarly \/ overlap

\* Whoever already waits in Hold when the stop event is still to come is
\* released, unless the simulation is aborted or restarted too early.
WaitingHoldReturns ==
  \A u \in Users :
    /\ pc[u] = "holdWait" /\ waitingStop
    /\ state = "Executing" /\ "stop" \in ToSet(now \o later)
    ~> pc[u] # "holdWait" \/ state = "Aborting" \/ RestartedTooEarly \/ overlap

\* Nothing else keeps a run, or one that waits for its end, for ever.
RunAndHoldEnd == RunEndsUnlessRestartedEarly /\ WaitingHoldReturns

=============================================================================
