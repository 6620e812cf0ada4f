--------------------------- MODULE RunControlProofs ---------------------------
(***************************************************************************)
(* Proofs about RunControl, for any number of clients, scheduler threads   *)
(* and calls: two scheduler threads never run at the same time             *)
(* (ThreadInv), nothing runs in Standby and Aborting is final (RestInv),   *)
(* and the scheduler thread does not wait for itself in Hold (KnownInv).   *)
(***************************************************************************)
EXTENDS RunControl, TLAPS

-----------------------------------------------------------------------------
(***************************************************************************)
(* One scheduler thread.                                                   *)
(***************************************************************************)

\* A scheduler thread that has not returned is the one that _th holds.
AliveIsCurrent == \A t \in Thread : Alive(t) => t = th

ThreadInv == DOMAIN pc = Actor /\ AliveIsCurrent

\* A step in which no other actor than a changes place.
Moves(a) ==
  /\ DOMAIN pc' = Actor
  /\ \A b \in Actor : b # a => pc'[b] = pc[b]

-----------------------------------------------------------------------------

\* User threads are no scheduler threads.
LEMMA UsersApart == \A u \in Users, t \in Thread : u # t
<1>1. \A t \in Thread : t \in Nat
  BY ConstantsAssumption DEF ConstantsAssumption, Thread
<1>. QED  BY <1>1, ConstantsAssumption DEF ConstantsAssumption

LEMMA ThreadInvInit == Init => ThreadInv
<1>. SUFFICES ASSUME Init PROVE ThreadInv
  OBVIOUS
<1>1. DOMAIN pc = Actor
  BY DEF Init
<1>2. ASSUME NEW t \in Thread PROVE ~Alive(t)
  BY UsersApart DEF Init, Alive, Actor
<1>. QED  BY <1>1, <1>2 DEF ThreadInv, AliveIsCurrent

\* What GoTo does to the other actors.
LEMMA GoToMoves ==
  ASSUME ThreadInv, NEW a \in Actor, NEW place, GoTo(a, place)
  PROVE  Moves(a)
  BY DEF GoTo, Moves, ThreadInv

\* A step of one actor that leaves _th alone and starts no thread.
LEMMA OneActorMoves ==
  ASSUME ThreadInv, NEW a \in Actor, Moves(a), th' = th, a \in Users \/ Alive(a)
  PROVE  ThreadInv'
<1>1. ASSUME NEW t \in Thread, Alive(t)' PROVE Alive(t)
  BY <1>1, UsersApart DEF Moves, Alive, Actor
<1>. QED  BY <1>1 DEF ThreadInv, AliveIsCurrent, Moves

\* Only a thread that returned makes room for another one.
LEMMA StartThreadKeeps ==
  ASSUME ThreadInv, NEW u \in Users, StartThread(u)
  PROVE  ThreadInv'
<1>1. \A t \in Thread : ~Alive(t)
  BY ConstantsAssumption DEF ConstantsAssumption, StartThread, Returned, ThreadInv,
     AliveIsCurrent, Alive, NoThread, Thread
<1>2. PICK t \in Thread :
        th' = t /\ pc' = [pc EXCEPT ![u] = "idle", ![t] = "begin"]
  BY DEF StartThread
<1>3. DOMAIN pc' = Actor
  BY <1>2 DEF ThreadInv
<1>4. ASSUME NEW o \in Thread, Alive(o)' PROVE o = t
  <2>1. o # t => pc'[o] = pc[o]
    BY <1>2, UsersApart DEF ThreadInv, Actor
  <2>. QED  BY <1>1, <1>4, <2>1 DEF Alive
<1>. QED  BY <1>2, <1>3, <1>4 DEF ThreadInv, AliveIsCurrent

LEMMA AbortJoinKeeps ==
  ASSUME ThreadInv, NEW a \in Actor, AbortJoin(a)
  PROVE  ThreadInv'
<1>1. a \in Users \/ Alive(a)
  BY DEF AbortJoin, Alive, Actor
<1>2. Moves(a)
  BY GoToMoves DEF AbortJoin
<1>3. CASE th' = th
  BY <1>1, <1>2, <1>3, OneActorMoves
<1>4. CASE pc[th] = "done" /\ th # a
  <2>1. \A t \in Thread : ~Alive(t)
    BY <1>4 DEF ThreadInv, AliveIsCurrent, Alive
  <2>2. a \in Users
    BY <1>1, <2>1 DEF Actor
  <2>3. \A t \in Thread : ~Alive(t)'
    BY <1>2, <2>1, <2>2, UsersApart DEF Moves, Alive, Actor
  <2>. QED  BY <1>2, <2>3 DEF ThreadInv, AliveIsCurrent, Moves
<1>. QED  BY <1>3, <1>4 DEF AbortJoin, Returned

-----------------------------------------------------------------------------

\* The calls, up to the first place where the caller may be overtaken.
LEMMA CallKeeps ==
  ASSUME ThreadInv, NEW a \in Actor, Call(a)
  PROVE  ThreadInv'
<1>1. CASE AddEvent(a)
  BY <1>1 DEF AddEvent, ThreadInv, AliveIsCurrent, Alive
<1>2. CASE HoldCheck(a) \/ AbortCheck(a) \/ (a \in Users /\ RunCheck(a))
  <2>1. a \in Users \/ Alive(a)
    BY <1>2 DEF HoldCheck, AbortCheck, RunCheck, MayCall, Alive, Actor
  <2>2. Moves(a) /\ th' = th
    BY <1>2, GoToMoves DEF HoldCheck, AbortCheck, RunCheck
  <2>. QED  BY <2>1, <2>2, OneActorMoves
<1>. QED  BY <1>1, <1>2 DEF Call

\* The rest of a call.
LEMMA CallStepKeeps ==
  ASSUME ThreadInv, NEW a \in Actor,
         \/ HoldAddStop(a) \/ HoldReturnOrWait(a) \/ HoldReturn(a)
         \/ AbortLeave(a) \/ AbortThrows(a) \/ AbortSetState(a)
         \/ /\ a \in Users
            /\ RunAddStart(a) \/ RunSetState(a) \/ EnterExecuting(a)
  PROVE  ThreadInv'
<1>1. a \in Users \/ Alive(a)
  BY DEF HoldAddStop, HoldReturnOrWait, HoldReturn, AbortLeave, AbortThrows,
         AbortSetState, Alive, Actor
<1>2. Moves(a)
  BY GoToMoves DEF HoldAddStop, HoldReturnOrWait, HoldReturn, AbortLeave,
     AbortThrows, AbortSetState, RunAddStart, RunSetState, EnterExecuting
<1>3. th' = th
  BY DEF HoldAddStop, HoldReturnOrWait, HoldReturn, AbortLeave, AbortThrows,
         AbortSetState, RunAddStart, RunSetState, EnterExecuting
<1>. QED  BY <1>1, <1>2, <1>3, OneActorMoves

\* The steps of the scheduler thread.
LEMMA ThreadStepKeeps ==
  ASSUME ThreadInv, NEW a \in Thread,
         \/ Begin(a) \/ Step(a) \/ AutoHoldCheck(a) \/ Select(a) \/ EpStart(a)
         \/ EntryPointReturns(a) \/ EpStop(a) \/ EpStopSetState(a)
         \/ EpStopNotify(a) \/ Finish(a)
  PROVE  ThreadInv'
<1>1. Alive(a) /\ a \in Actor
  BY DEF Begin, Step, AutoHoldCheck, Select, EpStart, EntryPointReturns,
         EpStop, EpStopSetState, EpStopNotify, Finish, Alive, Actor
<1>2. Moves(a)
  <2>1. CASE Step(a) \/ Select(a)
    BY <1>1, <2>1, GoToMoves DEF Step, Select
  <2>2. CASE \/ Begin(a) \/ AutoHoldCheck(a) \/ EpStart(a) \/ EntryPointReturns(a)
             \/ EpStop(a) \/ EpStopSetState(a) \/ EpStopNotify(a) \/ Finish(a)
    BY <1>1, <2>2, GoToMoves DEF Begin, AutoHoldCheck, EpStart, EntryPointReturns,
       EpStop, EpStopSetState, EpStopNotify, Finish
  <2>. QED  BY <2>1, <2>2
<1>3. th' = th
  BY DEF Begin, Step, AutoHoldCheck, Select, EpStart, EntryPointReturns,
         EpStop, EpStopSetState, EpStopNotify, Finish
<1>. QED  BY <1>1, <1>2, <1>3, OneActorMoves

LEMMA ThreadInvStep == ThreadInv /\ [Next]_vars => ThreadInv'
<1>. SUFFICES ASSUME ThreadInv, [Next]_vars  PROVE ThreadInv'
  OBVIOUS
<1>1. ASSUME NEW a \in Actor, Proceed(a)  PROVE ThreadInv'
  BY <1>1, CallStepKeeps, ThreadStepKeeps, StartThreadKeeps, AbortJoinKeeps
  DEF Proceed
<1>2. CASE UNCHANGED vars
  BY <1>2 DEF vars, ThreadInv, AliveIsCurrent, Alive
<1>. QED  BY <1>1, <1>2, CallKeeps DEF Next

\* At most one scheduler thread is between its start and its return, for any
\* number of clients and calls: epEnterExecuting joins before it replaces.
THEOREM OneThreadAtATime == Spec => []OneSchedulerThread
<1>1. ThreadInv => OneSchedulerThread
  BY DEF ThreadInv, AliveIsCurrent, OneSchedulerThread
<1>. QED  BY <1>1, ThreadInvInit, ThreadInvStep, PTL DEF Spec

-----------------------------------------------------------------------------
(***************************************************************************)
(* The types.                                                              *)
(***************************************************************************)
Place == {"idle", "none", "begin", "loop", "autoHold", "select", "executing",
          "starting", "stopping", "stopState", "stopNotify", "finish", "done",
          "runAdd", "runState", "runEnter", "joining", "holdAdd", "holdWho",
          "holdWait", "abortLeave", "abortJoin", "abortState"}

\* The thread that takes the next event has seen one, and takes it alone.
SelectHasEvent == \A t \in Thread : pc[t] = "select" => now # <<>> \/ later # <<>>

LEMMA GoToType ==
  ASSUME pc \in [Actor -> Place], NEW a \in Actor, NEW place \in Place,
         GoTo(a, place)
  PROVE  pc' \in [Actor -> Place]
  BY DEF GoTo

\* Where a call returns to is a place.
LEMMA BackIsPlace == \A a : Back(a) \in Place
  BY DEF Back, Place

LEMMA AddNowType ==
  ASSUME TypeOK, NEW kind \in {"user", "start", "stop"}, AddNow(kind)
  PROVE  now' \in Seq({"user", "start", "stop"}) /\ later' \in Seq({"user", "stop"})
  BY DEF AddNow, TypeOK

LEMMA AddLaterType ==
  ASSUME TypeOK, NEW kind \in {"user", "stop"}, AddLater(kind)
  PROVE  now' \in Seq({"user", "start", "stop"}) /\ later' \in Seq({"user", "stop"})
<1>1. PICK i \in 1 .. Len(later) + 1 : later' = InsertAt(later, i, kind)
  BY DEF AddLater
<1>2. /\ SubSeq(later, 1, i - 1) \in Seq({"user", "stop"})
      /\ SubSeq(later, i, Len(later)) \in Seq({"user", "stop"})
  BY DEF TypeOK
<1>3. later' \in Seq({"user", "stop"})
  BY <1>1, <1>2 DEF InsertAt
<1>. QED  BY <1>3 DEF AddLater, TypeOK

LEMMA TypeCall ==
  ASSUME TypeOK, NEW a \in Actor, Call(a)
  PROVE  TypeOK'
<1>1. pc \in [Actor -> Place]
  BY DEF TypeOK, Place
<1>2. calls' \in 0 .. MaxCalls /\ overlap' \in BOOLEAN
  <2>1. PICK call : MayCall(a, call)
    BY DEF Call, AddEvent, HoldCheck, AbortCheck, RunCheck
  <2>2. calls < MaxCalls /\ calls' = calls + 1
    BY <2>1 DEF MayCall
  <2>3. overlap' \in BOOLEAN
    BY <2>1, Zenon DEF MayCall
  <2>. QED  BY <2>2, <2>3, ConstantsAssumption DEF TypeOK, ConstantsAssumption
<1>3. CASE AddEvent(a)
  BY <1>2, <1>3, AddNowType, AddLaterType DEF AddEvent, TypeOK
<1>4. CASE HoldCheck(a) \/ AbortCheck(a) \/ RunCheck(a)
  <2>1. pc' \in [Actor -> Place]
    BY <1>1, <1>4, GoToType DEF HoldCheck, AbortCheck, RunCheck, Place
  <2>. QED  BY <1>2, <1>4, <2>1 DEF HoldCheck, AbortCheck, RunCheck, TypeOK,
                                    queueVars, Place
<1>. QED  BY <1>3, <1>4 DEF Call

LEMMA TypeCallStep ==
  ASSUME TypeOK, NEW a \in Actor,
         \/ HoldAddStop(a) \/ HoldReturnOrWait(a) \/ HoldReturn(a)
         \/ AbortLeave(a) \/ AbortJoin(a) \/ AbortThrows(a) \/ AbortSetState(a)
         \/ /\ a \in Users
            /\ RunAddStart(a) \/ RunSetState(a) \/ EnterExecuting(a)
  PROVE  TypeOK'
<1>1. pc \in [Actor -> Place]
  BY DEF TypeOK, Place
<1>2. pc' \in [Actor -> Place]
  BY <1>1, GoToType, BackIsPlace
  DEF HoldAddStop, HoldReturnOrWait, HoldReturn, AbortLeave, AbortJoin, AbortThrows, AbortSetState,
      RunAddStart, RunSetState, EnterExecuting, Place
<1>3. CASE HoldAddStop(a) \/ RunAddStart(a)
  <2>1. now' \in Seq({"user", "start", "stop"}) /\ later' \in Seq({"user", "stop"})
    BY <1>3, AddNowType, AddLaterType DEF HoldAddStop, RunAddStart
  <2>. QED  BY <1>2, <1>3, <2>1 DEF HoldAddStop, RunAddStart, TypeOK, history, Place
<1>4. CASE \/ HoldReturnOrWait(a) \/ HoldReturn(a) \/ AbortLeave(a) \/ AbortJoin(a)
           \/ AbortThrows(a) \/ AbortSetState(a) \/ RunSetState(a) \/ EnterExecuting(a)
  BY <1>2, <1>4, ZenonT(30) DEF HoldReturnOrWait, HoldReturn, AbortLeave, AbortJoin,
     AbortThrows, AbortSetState,
     RunSetState, EnterExecuting, TypeOK, history, queueVars, Place
<1>. QED  BY <1>3, <1>4

LEMMA TypeStartThread ==
  ASSUME TypeOK, NEW u \in Users, StartThread(u)
  PROVE  TypeOK'
<1>1. PICK t \in Thread :
        th' = t /\ pc' = [pc EXCEPT ![u] = "idle", ![t] = "begin"]
  BY DEF StartThread
<1>2. pc' \in [Actor -> Place]
  BY <1>1 DEF TypeOK, Actor, Place
<1>. QED  BY <1>1, <1>2 DEF StartThread, TypeOK, history, queueVars, Place

LEMMA TypeThreadStep ==
  ASSUME TypeOK, SelectHasEvent, NEW a \in Thread,
         \/ Begin(a) \/ Step(a) \/ AutoHoldCheck(a) \/ Select(a) \/ EpStart(a)
         \/ EntryPointReturns(a) \/ EpStop(a) \/ EpStopSetState(a)
         \/ EpStopNotify(a) \/ Finish(a)
  PROVE  TypeOK'
<1>1. pc \in [Actor -> Place] /\ a \in Actor
  BY DEF TypeOK, Place, Actor
<1>2. CASE Select(a)
  <2>1. CASE ~run /\ GoTo(a, "loop") /\ UNCHANGED <<queueVars, current>>
    <3>1. pc' \in [Actor -> Place]
      BY <1>1, <2>1, GoToType DEF Place
    <3>. QED  BY <1>2, <2>1, <3>1 DEF Select, TypeOK, history, queueVars, Place
  <2>2. CASE ~ (~run /\ GoTo(a, "loop") /\ UNCHANGED <<queueVars, current>>)
    <3>1. PICK kind \in {"user", "start", "stop"} :
            /\ current' = kind
            /\ GoTo(a, Running[kind])
            /\ \/ now # <<>> /\ now' = Tail(now) /\ UNCHANGED later
               \/ later # <<>> /\ later' = Tail(later) /\ UNCHANGED now
      BY <1>2, <2>2 DEF Select, Running, SelectHasEvent
    <3>2. Running[kind] \in Place
      BY DEF Running, Place
    <3>3. pc' \in [Actor -> Place]
      BY <1>1, <3>1, <3>2, GoToType
    <3>4. now' \in Seq({"user", "start", "stop"}) /\ later' \in Seq({"user", "stop"})
      <4>1. CASE now # <<>> /\ now' = Tail(now) /\ UNCHANGED later
        BY <4>1 DEF TypeOK
      <4>2. CASE later # <<>> /\ later' = Tail(later) /\ UNCHANGED now
        BY <4>2 DEF TypeOK
      <4>. QED  BY <3>1, <4>1, <4>2
    <3>5. UNCHANGED <<state, run, th, schedulerId, waitingStop, calls, overlap>>
      BY <1>2 DEF Select, history
    <3>. QED  BY <3>1, <3>3, <3>4, <3>5 DEF TypeOK, Place
  <2>. QED  BY <2>1, <2>2
<1>3. CASE Step(a)
  <2>1. pc' \in [Actor -> Place]
    BY <1>1, <1>3, GoToType DEF Step, Place
  <2>. QED  BY <1>3, <2>1 DEF Step, TypeOK, history, queueVars, Place
<1>4. CASE \/ Begin(a) \/ AutoHoldCheck(a) \/ EpStart(a) \/ EntryPointReturns(a)
           \/ EpStop(a) \/ EpStopSetState(a) \/ EpStopNotify(a) \/ Finish(a)
  <2>1. pc' \in [Actor -> Place]
    BY <1>1, <1>4, GoToType DEF Begin, AutoHoldCheck, EpStart, EntryPointReturns,
       EpStop, EpStopSetState, EpStopNotify, Finish, Place
  <2>. QED  BY <1>4, <2>1, ZenonT(30) DEF Begin, AutoHoldCheck, EpStart, EntryPointReturns, EpStop,
               EpStopSetState, EpStopNotify, Finish, TypeOK, history, queueVars, Place
<1>. QED  BY <1>2, <1>3, <1>4

LEMMA TypeInit == Init => TypeOK /\ SelectHasEvent
<1>. SUFFICES ASSUME Init PROVE TypeOK /\ SelectHasEvent
  OBVIOUS
<1>1. pc \in [Actor -> Place]
  BY DEF Init, Place
<1>2. SelectHasEvent
  BY <1>1 DEF Init, SelectHasEvent, Actor
<1>3. /\ now \in Seq({"user", "start", "stop"}) /\ later \in Seq({"user", "stop"})
      /\ calls \in 0 .. MaxCalls
  BY ConstantsAssumption DEF Init, ConstantsAssumption
<1>. QED  BY <1>1, <1>2, <1>3 DEF Init, TypeOK, Place

LEMMA InsertedNotEmpty ==
  ASSUME NEW S, NEW left \in Seq(S), NEW right \in Seq(S), NEW kind
  PROVE  (left \o <<kind>>) \o right # <<>>
<1>1. Len((left \o <<kind>>) \o right) = Len(left) + 1 + Len(right)
  OBVIOUS
<1>2. Len(left) \in Nat /\ Len(right) \in Nat
  OBVIOUS
<1>3. Len((left \o <<kind>>) \o right) # 0
  BY <1>1, <1>2
<1>4. Len(<<>>) = 0
  OBVIOUS
<1>. QED  BY <1>3, <1>4, Zenon

LEMMA AddLeavesEvent ==
  ASSUME TypeOK, NEW kind \in {"user", "start", "stop"}, AddNow(kind) \/ AddLater(kind)
  PROVE  now' # <<>> \/ later' # <<>>
<1>1. CASE AddNow(kind)
  BY <1>1 DEF AddNow, TypeOK
<1>2. CASE AddLater(kind)
  <2>1. PICK i \in 1 .. Len(later) + 1 : later' = InsertAt(later, i, kind)
    BY <1>2 DEF AddLater
  <2>2. /\ SubSeq(later, 1, i - 1) \in Seq({"user", "stop"})
        /\ SubSeq(later, i, Len(later)) \in Seq({"user", "stop"})
    BY DEF TypeOK
  <2>3. later' = (SubSeq(later, 1, i - 1) \o <<kind>>) \o SubSeq(later, i, Len(later))
    BY <2>1 DEF InsertAt
  <2>. QED  BY <2>2, <2>3, InsertedNotEmpty
<1>. QED  BY <1>1, <1>2

LEMMA SelectHasEventStep ==
  ASSUME TypeOK, ThreadInv, SelectHasEvent, NEW a \in Actor, Proceed(a) \/ Call(a)
  PROVE  SelectHasEvent'
<1>1. CASE a \in Thread /\ Step(a)
  <2>1. now \o later = <<>> <=> now = <<>> /\ later = <<>>
    BY DEF TypeOK
  <2>2. UNCHANGED <<now, later>>
    BY <1>1 DEF Step, queueVars
  <2>3. pc'[a] = "select" => now # <<>> \/ later # <<>>
    BY <1>1, <2>1 DEF Step, GoTo, ThreadInv
  <2>4. Moves(a)
    BY <1>1, GoToMoves DEF Step
  <2>. QED  BY <2>2, <2>3, <2>4 DEF SelectHasEvent, Moves, Actor
<1>2. CASE a \in Thread /\ Select(a)
  <2>1. pc'[a] # "select" /\ Moves(a)
    <3>1. PICK place \in {"loop", "executing", "starting", "stopping"} : GoTo(a, place)
      BY <1>2 DEF Select, Running
    <3>. QED  BY <3>1, GoToMoves DEF GoTo, ThreadInv
  <2>2. \A t \in Thread : t # a => pc[t] # "select"
    BY <1>2 DEF Select, ThreadInv, AliveIsCurrent, Alive
  <2>. QED  BY <2>1, <2>2 DEF SelectHasEvent, Moves, Actor
<1>3. CASE AddEvent(a) \/ HoldAddStop(a) \/ RunAddStart(a)
  <2>1. now' # <<>> \/ later' # <<>>
    BY <1>3, AddLeavesEvent DEF AddEvent, HoldAddStop, RunAddStart
  <2>. QED  BY <2>1 DEF SelectHasEvent
<1>4. CASE a \in Users /\ StartThread(a)
  BY <1>4 DEF StartThread, SelectHasEvent, queueVars, Actor, ThreadInv
<1>5. ASSUME UNCHANGED queueVars, NEW place, place # "select", GoTo(a, place)
      PROVE  SelectHasEvent'
  BY <1>5 DEF GoTo, SelectHasEvent, queueVars, ThreadInv, Actor
<1>6. CASE \/ HoldReturnOrWait(a) \/ HoldReturn(a)
           \/ AbortLeave(a) \/ AbortJoin(a) \/ AbortThrows(a) \/ AbortSetState(a)
           \/ RunSetState(a) \/ EnterExecuting(a)
  BY <1>5, <1>6 DEF HoldReturnOrWait, HoldReturn, AbortLeave, AbortJoin, AbortThrows, AbortSetState,
     RunSetState, EnterExecuting, Back
<1>7. CASE HoldCheck(a) \/ AbortCheck(a) \/ RunCheck(a)
  BY <1>5, <1>7 DEF HoldCheck, AbortCheck, RunCheck
<1>8. CASE \/ Begin(a) \/ AutoHoldCheck(a) \/ EpStart(a) \/ EntryPointReturns(a)
           \/ EpStop(a) \/ EpStopSetState(a) \/ EpStopNotify(a) \/ Finish(a)
  BY <1>5, <1>8 DEF Begin, AutoHoldCheck, EpStart, EntryPointReturns, EpStop,
     EpStopSetState, EpStopNotify, Finish
<1>. QED  BY <1>1, <1>2, <1>3, <1>4, <1>6, <1>7, <1>8 DEF Proceed, Call

\* What the proofs below start from.
BaseInv == TypeOK /\ ThreadInv /\ SelectHasEvent

LEMMA BaseStep == BaseInv /\ [Next]_vars => BaseInv'
<1>. SUFFICES ASSUME BaseInv, [Next]_vars  PROVE TypeOK' /\ SelectHasEvent'
  BY ThreadInvStep DEF BaseInv
<1>1. ASSUME NEW a \in Actor, Proceed(a)  PROVE TypeOK' /\ SelectHasEvent'
  BY <1>1, TypeCallStep, TypeThreadStep, TypeStartThread, SelectHasEventStep
  DEF Proceed, BaseInv
<1>2. ASSUME NEW a \in Actor, Call(a)  PROVE TypeOK' /\ SelectHasEvent'
  BY <1>2, TypeCall, SelectHasEventStep DEF BaseInv
<1>3. CASE UNCHANGED vars
  BY <1>3 DEF vars, TypeOK, SelectHasEvent, BaseInv
<1>. QED  BY <1>1, <1>2, <1>3 DEF Next

LEMMA BaseInvariant == Spec => []BaseInv
<1>1. Init => BaseInv
  BY TypeInit, ThreadInvInit DEF BaseInv
<1>. QED  BY <1>1, BaseStep, PTL DEF Spec

\* The variables keep their types, for any number of threads and calls.
THEOREM TypeCorrect == Spec => []TypeOK
  BY BaseInvariant, PTL DEF BaseInv

-----------------------------------------------------------------------------
(***************************************************************************)
(* Who may be where, as long as no Abort came during a Run.                *)
(***************************************************************************)

\* A scheduler thread that will fetch no event while _run is FALSE.
Calm(t) == pc[t] \in {"none", "done", "loop", "finish", "stopNotify"}

Starting(a) == pc[a] \in {"runAdd", "runState", "runEnter", "joining"}
Entering(a) == pc[a] \in {"runEnter", "joining"}
Aborts(a)   == pc[a] \in {"abortLeave", "abortJoin", "abortState"}

\* Only a scheduler thread sets _run, and it does not return before _run is
\* FALSE again.
RunNeedsThread == run => \E t \in Thread : Alive(t)

RunOrAbort == \A u \in Users, a \in Actor : ~ (Starting(u) /\ Aborts(a))

StandbyRests == state = "Standby" => ~run /\ \A t \in Thread : Calm(t)

\* The entry point that called Abort goes on in the state Aborting.
AbortingRests ==
  state = "Aborting" =>
    /\ ~run
    /\ \A t \in Thread : Calm(t) \/ pc[t] = "executing"
    /\ \A u \in Users : ~Starting(u)

\* Run has set the state; the thread that it starts will be the only one.
EnterRests ==
  \A u \in Users : Entering(u) =>
    /\ state = "Executing" /\ ~run
    /\ \A t \in Thread : Calm(t)
    /\ \A v \in Users : Entering(v) => v = u

\* Abort is about to assign the state.
AbortedRests ==
  \A a \in Actor : pc[a] = "abortState" =>
    ~run /\ \A t \in Thread : t # a => Calm(t)

\* The scheduler thread stops or aborts, and has cleared _run itself.
LeavingStopped == \A t \in Thread : pc[t] \in {"stopState", "abortJoin"} => ~run

RestInv ==
  /\ RunNeedsThread /\ RunOrAbort /\ StandbyRests /\ AbortingRests /\ EnterRests
  /\ AbortedRests /\ LeavingStopped

LEMMA RestInit == Init => RestInv
<1>. USE DEF RestInv, RunNeedsThread, RunOrAbort, StandbyRests, AbortingRests,
             EnterRests, AbortedRests, LeavingStopped, Calm, Starting, Entering, Aborts
<1>. SUFFICES ASSUME Init PROVE RestInv
  OBVIOUS
<1>1. \A t \in Thread : pc[t] = "none"
  BY UsersApart DEF Init, Actor
<1>2. \A u \in Users : pc[u] = "idle"
  BY DEF Init, Actor
<1>. QED  BY <1>1, <1>2 DEF Init, Actor

\* The calls: Overlaps tells a Run that meets an Abort.
LEMMA RestCall ==
  ASSUME BaseInv, RestInv, NEW a \in Actor, Call(a), ~overlap'
  PROVE  RestInv'
<1>. USE DEF RestInv, RunNeedsThread, RunOrAbort, StandbyRests, AbortingRests,
             EnterRests, AbortedRests, LeavingStopped, Calm, Starting, Entering, Aborts
<1>. USE UsersApart
     DEF GoTo, Actor, Alive, BaseInv, ThreadInv, AliveIsCurrent
<1>1. CASE AddEvent(a)
  BY <1>1 DEF AddEvent
<1>2. CASE HoldCheck(a)
  BY <1>2 DEF HoldCheck, MayCall
<1>3. CASE AbortCheck(a)
  BY <1>3 DEF AbortCheck, MayCall, Overlaps, TypeOK
<1>4. CASE a \in Users /\ RunCheck(a)
  BY <1>4 DEF RunCheck, MayCall, Overlaps
<1>. QED  BY <1>1, <1>2, <1>3, <1>4 DEF Call

\* The rest of Hold and Abort. After the join no scheduler thread is left, or
\* it is the one that aborts.
LEMMA RestHoldAbort ==
  ASSUME BaseInv, RestInv, NEW a \in Actor,
         \/ HoldAddStop(a) \/ HoldReturnOrWait(a) \/ HoldReturn(a)
         \/ AbortLeave(a) \/ AbortJoin(a) \/ AbortThrows(a) \/ AbortSetState(a)
  PROVE  RestInv'
<1>. USE DEF RestInv, RunNeedsThread, RunOrAbort, StandbyRests, AbortingRests,
             EnterRests, AbortedRests, LeavingStopped, Calm, Starting, Entering, Aborts
<1>. USE UsersApart
     DEF GoTo, Actor, Alive, BaseInv, ThreadInv, AliveIsCurrent
<1>1. CASE HoldAddStop(a)
  BY <1>1 DEF HoldAddStop, history
<1>2. CASE HoldReturnOrWait(a) \/ HoldReturn(a)
  BY <1>2 DEF HoldReturnOrWait, HoldReturn, Back, history
<1>3. CASE AbortLeave(a)
  BY <1>3 DEF AbortLeave, history
<1>4. CASE AbortJoin(a)
  <2>1. a \in Users => \A t \in Thread : ~Alive(t)
    <3>1. NoThread \notin Thread
      BY DEF NoThread, Thread
    <3>2. th \in Thread => th # a \/ a \in Thread
      OBVIOUS
    <3>. QED  BY <1>4, <3>1, <3>2 DEF AbortJoin, Returned
  <2>2. a \in Users => ~run
    BY <2>1
  <2>3. a \in Thread => ~run /\ \A t \in Thread : t # a => ~Alive(t)
    BY <1>4 DEF AbortJoin
  <2>4. Moves(a) /\ pc'[a] = "abortState" /\ UNCHANGED <<state, run>>
    BY <1>4 DEF AbortJoin, Moves
  <2>5. pc[a] = "abortJoin"
    BY <1>4 DEF AbortJoin
  <2>. QED  BY <2>1, <2>2, <2>3, <2>4, <2>5 DEF Moves
<1>5. CASE AbortSetState(a)
  BY <1>5 DEF AbortSetState, Back, history
<1>6. CASE AbortThrows(a)
  BY <1>6 DEF AbortThrows, history
<1>. QED  BY <1>1, <1>2, <1>3, <1>4, <1>5, <1>6

\* The rest of Run.
LEMMA RestRun ==
  ASSUME BaseInv, RestInv, NEW a \in Users,
         RunAddStart(a) \/ RunSetState(a) \/ EnterExecuting(a) \/ StartThread(a)
  PROVE  RestInv'
<1>. USE DEF RestInv, RunNeedsThread, RunOrAbort, StandbyRests, AbortingRests,
             EnterRests, AbortedRests, LeavingStopped, Calm, Starting, Entering, Aborts
<1>. USE UsersApart
     DEF GoTo, Actor, Alive, BaseInv, ThreadInv, AliveIsCurrent
<1>1. CASE RunAddStart(a)
  BY <1>1 DEF RunAddStart, history
<1>2. CASE RunSetState(a)
  BY <1>2 DEF RunSetState, history, TypeOK
<1>3. CASE EnterExecuting(a)
  BY <1>3 DEF EnterExecuting, history
<1>4. CASE StartThread(a)
  BY <1>4 DEF StartThread, history
<1>. QED  BY <1>1, <1>2, <1>3, <1>4

\* The scheduler thread.
LEMMA RestThread ==
  ASSUME BaseInv, RestInv, NEW a \in Thread,
         \/ Begin(a) \/ Step(a) \/ AutoHoldCheck(a) \/ Select(a) \/ EpStart(a)
         \/ EntryPointReturns(a) \/ EpStop(a) \/ EpStopSetState(a)
         \/ EpStopNotify(a) \/ Finish(a)
  PROVE  RestInv'
<1>. USE DEF RestInv, RunNeedsThread, RunOrAbort, StandbyRests, AbortingRests,
             EnterRests, AbortedRests, LeavingStopped, Calm, Starting, Entering, Aborts
<1>. USE UsersApart
     DEF GoTo, Actor, Alive, BaseInv, ThreadInv, AliveIsCurrent
<1>1. CASE Begin(a)
  BY <1>1 DEF Begin, history
<1>2. CASE Step(a)
  BY <1>2 DEF Step, history
<1>3. CASE AutoHoldCheck(a)
  BY <1>3 DEF AutoHoldCheck, history
<1>4. CASE Select(a)
  BY <1>4 DEF Select, Running, history
<1>5. CASE EpStart(a) \/ EntryPointReturns(a) \/ EpStopNotify(a) \/ Finish(a)
  BY <1>5 DEF EpStart, EntryPointReturns, EpStopNotify, Finish, history
<1>6. CASE EpStop(a)
  BY <1>6 DEF EpStop, history, TypeOK
<1>7. CASE EpStopSetState(a)
  BY <1>7 DEF EpStopSetState, history
<1>. QED  BY <1>1, <1>2, <1>3, <1>4, <1>5, <1>6, <1>7

\* overlap is never reset.
LEMMA OverlapStays == BaseInv /\ [Next]_vars /\ ~overlap' => ~overlap
<1>. SUFFICES ASSUME BaseInv, [Next]_vars, overlap  PROVE overlap'
  BY DEF BaseInv, TypeOK
<1>1. ASSUME NEW a \in Actor, Call(a)  PROVE overlap'
  BY <1>1 DEF Call, AddEvent, HoldCheck, AbortCheck, RunCheck, MayCall
<1>2. ASSUME NEW a \in Actor, Proceed(a)  PROVE overlap'
  BY <1>2 DEF Proceed, HoldAddStop, HoldReturnOrWait, HoldReturn, AbortLeave, AbortJoin,
     AbortThrows, AbortSetState, RunAddStart, RunSetState, EnterExecuting, StartThread, Begin, Step,
     AutoHoldCheck, Select, EpStart, EntryPointReturns, EpStop, EpStopSetState,
     EpStopNotify, Finish, history
<1>. QED  BY <1>1, <1>2 DEF Next, vars

StopInv == BaseInv /\ (~overlap => RestInv)

LEMMA StopStep == StopInv /\ [Next]_vars => StopInv'
<1>. SUFFICES ASSUME StopInv, [Next]_vars, ~overlap'  PROVE RestInv'
  BY BaseStep DEF StopInv
<1>1. BaseInv /\ RestInv
  BY OverlapStays DEF StopInv
<1>2. ASSUME NEW a \in Actor, Proceed(a)  PROVE RestInv'
  BY <1>1, <1>2, RestHoldAbort, RestRun, RestThread DEF Proceed
<1>3. CASE UNCHANGED vars
  BY <1>1, <1>3 DEF vars, RestInv, RunNeedsThread, RunOrAbort, StandbyRests,
     AbortingRests, EnterRests, AbortedRests, LeavingStopped, Calm, Starting,
     Entering, Aborts, Alive
<1>. QED  BY <1>1, <1>2, <1>3, RestCall DEF Next

LEMMA StopInvariant == Spec => []StopInv
<1>1. Init => StopInv
  BY TypeInit, ThreadInvInit, RestInit DEF BaseInv, StopInv
<1>. QED  BY <1>1, StopStep, PTL DEF Spec

\* In Standby no model code runs, whoever runs, holds and aborts and however
\* often: _state is Standby only while _run is FALSE and the thread, if it has
\* not returned yet, is past its last event.
THEOREM NothingRunsInStandby == Spec => []StandbyIsQuiet
<1>1. StopInv => StandbyIsQuiet
  BY DEF StopInv, RestInv, StandbyRests, Calm, StandbyIsQuiet
<1>. QED  BY <1>1, StopInvariant, PTL

\* Once Simulator::Abort has assigned the state nothing changes it: neither the
\* stop event of a Hold that came before, nor another Abort, nor a Run.
THEOREM AbortingIsFinal == Spec => AbortIsFinal
<1>1. ASSUME StopInv, [Next]_vars, state = "Aborting", ~overlap
      PROVE  state' = "Aborting"
  <2>1. \A u \in Users : pc[u] # "runState"
    BY <1>1 DEF StopInv, RestInv, AbortingRests, Starting
  <2>2. \A t \in Thread : pc[t] # "stopState"
    BY <1>1 DEF StopInv, RestInv, AbortingRests, Calm
  <2>3. ASSUME NEW a \in Actor, Call(a)  PROVE state' = "Aborting"
    BY <1>1, <2>3 DEF Call, AddEvent, HoldCheck, AbortCheck, RunCheck
  <2>4. ASSUME NEW a \in Actor, Proceed(a)  PROVE state' = "Aborting"
    BY <1>1, <2>1, <2>2, <2>4 DEF Proceed, HoldAddStop, HoldReturnOrWait, HoldReturn,
       AbortLeave, AbortJoin, AbortThrows, AbortSetState, RunAddStart, RunSetState, EnterExecuting,
       StartThread, Begin, Step, AutoHoldCheck, Select, EpStart, EntryPointReturns,
       EpStop, EpStopSetState, EpStopNotify, Finish
  <2>. QED  BY <1>1, <2>3, <2>4 DEF Next, vars
<1>. QED  BY <1>1, StopInvariant, PTL DEF Spec, AbortIsFinal

-----------------------------------------------------------------------------
(***************************************************************************)
(* The scheduler thread knows itself by the time it may call Hold.         *)
(***************************************************************************)

\* One client thread runs the simulation. With two of them a thread may take
\* the start events of both Runs, and the next one finds none.
OneRunner ==
  \A u, v \in Users : "Run" \in UserCalls[u] /\ "Run" \in UserCalls[v] => u = v

StartPending == \E i \in 1 .. Len(now) : now[i] = "start"

RunnersRun == \A u \in Users : Starting(u) => "Run" \in UserCalls[u]

StandbyUntilSet == \A u \in Users : pc[u] \in {"runAdd", "runState"} => state = "Standby"

StartAwaitsThread ==
  \A u \in Users : pc[u] \in {"runState", "runEnter", "joining"} => StartPending

\* A thread that may still fetch events has executed the start event, or will.
KnownOrStarts ==
  \A t \in Thread : Alive(t) /\ (run \/ pc[t] = "begin") =>
    schedulerId = t \/ StartPending \/ pc[t] = "starting"

HoldsUnderOwnId ==
  \A t \in Thread : /\ pc[t] \in {"autoHold", "holdAdd", "holdWho"} => schedulerId = t
                    /\ pc[t] # "holdWait"

KnownInv ==
  /\ RunnersRun /\ StandbyUntilSet /\ StartAwaitsThread /\ KnownOrStarts
  /\ HoldsUnderOwnId

LEMMA KnownInit == Init => KnownInv
<1>. SUFFICES ASSUME Init PROVE KnownInv
  OBVIOUS
<1>1. \A t \in Thread : pc[t] = "none"
  BY UsersApart DEF Init, Actor
<1>2. \A u \in Users : pc[u] = "idle"
  BY DEF Init, Actor
<1>. QED  BY <1>1, <1>2 DEF Init, Actor, KnownInv, RunnersRun, StandbyUntilSet,
             StartAwaitsThread, KnownOrStarts, HoldsUnderOwnId, Starting, Alive

\* What the calls on the queue do to a start event that is waiting.
LEMMA AddKeepsStart ==
  ASSUME TypeOK, NEW kind, AddNow(kind) \/ AddLater(kind)
  PROVE  /\ StartPending => StartPending'
         /\ kind = "start" /\ AddNow(kind) => StartPending'
<1>1. CASE AddNow(kind)
  <2>1. /\ Len(now') = Len(now) + 1 /\ Len(now) \in Nat
        /\ now'[Len(now) + 1] = kind
        /\ \A i \in 1 .. Len(now) : now'[i] = now[i]
    BY <1>1 DEF AddNow, TypeOK
  <2>. QED  BY <2>1 DEF StartPending
<1>2. CASE AddLater(kind) /\ UNCHANGED now /\ ~AddNow(kind)
  BY <1>2 DEF StartPending
<1>. QED  BY <1>1, <1>2 DEF AddLater

LEMMA TakeKeepsStart ==
  ASSUME TypeOK, now # <<>>, now' = Tail(now), StartPending, Head(now) # "start"
  PROVE  StartPending'
<1>1. PICK i \in 1 .. Len(now) : now[i] = "start"
  BY DEF StartPending
<1>2. /\ Len(now') = Len(now) - 1
      /\ \A j \in 1 .. Len(now') : now'[j] = now[j + 1]
      /\ Head(now) = now[1] /\ Len(now) \in Nat
  BY DEF TypeOK
<1>3. i - 1 \in 1 .. Len(now') /\ now'[i - 1] = "start"
  BY <1>1, <1>2
<1>. QED  BY <1>3 DEF StartPending

LEMMA KnownCall ==
  ASSUME BaseInv, RestInv, KnownInv, HoldAfterStart, OneRunner,
         NEW a \in Actor, Call(a), ~overlap'
  PROVE  KnownInv'
<1>. USE UsersApart
     DEF KnownInv, RunnersRun, StandbyUntilSet, StartAwaitsThread, KnownOrStarts,
         HoldsUnderOwnId, Starting, Alive, GoTo, Actor, BaseInv, ThreadInv,
         AliveIsCurrent
<1>1. CASE AddEvent(a)
  <2>1. StartPending => StartPending'
    BY <1>1, AddKeepsStart DEF AddEvent
  <2>. QED  BY <1>1, <2>1 DEF AddEvent
<1>2. ASSUME UNCHANGED queueVars  PROVE StartPending' = StartPending
  BY <1>2 DEF queueVars, StartPending
<1>3. CASE HoldCheck(a)
  BY <1>2, <1>3 DEF HoldCheck, MayCall
<1>4. CASE AbortCheck(a)
  BY <1>2, <1>4 DEF AbortCheck, MayCall
<1>5. CASE a \in Users /\ RunCheck(a)
  BY <1>2, <1>5 DEF RunCheck, MayCall
<1>. QED  BY <1>1, <1>3, <1>4, <1>5 DEF Call

LEMMA KnownHoldAbort ==
  ASSUME BaseInv, RestInv, KnownInv, NEW a \in Actor,
         \/ HoldAddStop(a) \/ HoldReturnOrWait(a) \/ HoldReturn(a)
         \/ AbortLeave(a) \/ AbortJoin(a) \/ AbortThrows(a) \/ AbortSetState(a)
  PROVE  KnownInv'
<1>. USE UsersApart
     DEF KnownInv, RunnersRun, StandbyUntilSet, StartAwaitsThread, KnownOrStarts,
         HoldsUnderOwnId, Starting, Alive, GoTo, Actor, BaseInv, ThreadInv,
         AliveIsCurrent
<1>1. CASE HoldAddStop(a)
  <2>1. StartPending => StartPending'
    BY <1>1, AddKeepsStart DEF HoldAddStop
  <2>. QED  BY <1>1, <2>1 DEF HoldAddStop
<1>2. ASSUME UNCHANGED queueVars  PROVE StartPending' = StartPending
  BY <1>2 DEF queueVars, StartPending
<1>3. CASE HoldReturnOrWait(a) \/ HoldReturn(a)
  BY <1>2, <1>3 DEF HoldReturnOrWait, HoldReturn, Back
<1>4. CASE AbortLeave(a) \/ AbortJoin(a) \/ AbortThrows(a)
  BY <1>2, <1>4 DEF AbortLeave, AbortJoin, AbortThrows
<1>5. CASE AbortSetState(a)
  <2>1. \A u \in Users : ~Starting(u)
    BY <1>5 DEF AbortSetState, RestInv, RunOrAbort, Aborts
  <2>. QED  BY <1>2, <1>5, <2>1 DEF AbortSetState, Back
<1>. QED  BY <1>1, <1>3, <1>4, <1>5

LEMMA KnownRun ==
  ASSUME BaseInv, RestInv, KnownInv, OneRunner, NEW a \in Users,
         RunAddStart(a) \/ RunSetState(a) \/ EnterExecuting(a) \/ StartThread(a)
  PROVE  KnownInv'
<1>. USE UsersApart
     DEF KnownInv, RunnersRun, StandbyUntilSet, StartAwaitsThread, KnownOrStarts,
         HoldsUnderOwnId, Starting, Alive, GoTo, Actor, BaseInv, ThreadInv,
         AliveIsCurrent
<1>1. CASE RunAddStart(a)
  <2>1. StartPending'
    BY <1>1, AddKeepsStart DEF RunAddStart
  <2>. QED  BY <1>1, <2>1 DEF RunAddStart
<1>2. ASSUME UNCHANGED queueVars  PROVE StartPending' = StartPending
  BY <1>2 DEF queueVars, StartPending
<1>3. CASE RunSetState(a)
  BY <1>2, <1>3 DEF RunSetState, OneRunner
<1>4. CASE EnterExecuting(a)
  BY <1>2, <1>4 DEF EnterExecuting
<1>5. CASE StartThread(a)
  BY <1>2, <1>5 DEF StartThread
<1>. QED  BY <1>1, <1>3, <1>4, <1>5

LEMMA KnownThread ==
  ASSUME BaseInv, RestInv, KnownInv, NEW a \in Thread,
         \/ Begin(a) \/ Step(a) \/ AutoHoldCheck(a) \/ Select(a) \/ EpStart(a)
         \/ EntryPointReturns(a) \/ EpStop(a) \/ EpStopSetState(a)
         \/ EpStopNotify(a) \/ Finish(a)
  PROVE  KnownInv'
<1>. USE UsersApart
     DEF KnownInv, RunnersRun, StandbyUntilSet, StartAwaitsThread, KnownOrStarts,
         HoldsUnderOwnId, Starting, Alive, GoTo, Actor, BaseInv, ThreadInv,
         AliveIsCurrent
<1>1. ASSUME UNCHANGED queueVars  PROVE StartPending' = StartPending
  BY <1>1 DEF queueVars, StartPending
<1>2. CASE Step(a)
  <2>1. now \o later = <<>> => ~StartPending
    BY DEF TypeOK, StartPending
  <2>. QED  BY <1>1, <1>2, <2>1 DEF Step
<1>3. CASE Select(a)
  <2>1. \A u \in Users : ~ (pc[u] \in {"runAdd", "runState", "runEnter", "joining"})
    BY <1>3 DEF Select, RestInv, StandbyRests, EnterRests, Entering, Calm
  <2>2. \A t \in Thread : t # a => ~Alive(t)
    BY <1>3 DEF Select
  <2>3. ASSUME StartPending PROVE StartPending' \/ pc'[a] = "starting"
    <3>1. now # <<>>
      BY <2>3 DEF StartPending
    <3>2. CASE UNCHANGED queueVars
      BY <1>1, <2>3, <3>2
    <3>3. CASE /\ Head(now) \in DOMAIN Running /\ GoTo(a, Running[Head(now)])
               /\ now' = Tail(now)
      <4>1. Head(now) = "start" => pc'[a] = "starting"
        BY <3>3 DEF Running
      <4>. QED  BY <2>3, <3>1, <3>3, <4>1, TakeKeepsStart
    <3>. QED  BY <1>3, <3>1, <3>2, <3>3 DEF Select
  <2>. QED  BY <1>3, <2>1, <2>2, <2>3 DEF Select, Running
<1>4. CASE EpStart(a)
  BY <1>1, <1>4 DEF EpStart
<1>5. CASE \/ Begin(a) \/ AutoHoldCheck(a) \/ EntryPointReturns(a)
           \/ EpStopNotify(a) \/ Finish(a)
  BY <1>1, <1>5 DEF Begin, AutoHoldCheck, EntryPointReturns, EpStopNotify, Finish
<1>6. CASE EpStop(a) \/ EpStopSetState(a)
  BY <1>1, <1>6 DEF EpStop, EpStopSetState, TypeOK
<1>. QED  BY <1>2, <1>3, <1>4, <1>5, <1>6

HoldInv == StopInv /\ (~overlap => KnownInv)

LEMMA HoldStep ==
  ASSUME OneRunner, HoldAfterStart
  PROVE  HoldInv /\ [Next]_vars => HoldInv'
<1>. SUFFICES ASSUME HoldInv, [Next]_vars, ~overlap'  PROVE KnownInv'
  BY StopStep DEF HoldInv
<1>1. BaseInv /\ RestInv /\ KnownInv
  BY OverlapStays DEF StopInv, HoldInv
<1>2. ASSUME NEW a \in Actor, Proceed(a)  PROVE KnownInv'
  BY <1>1, <1>2, KnownHoldAbort, KnownRun, KnownThread DEF Proceed
<1>3. CASE UNCHANGED vars
  BY <1>1, <1>3 DEF vars, KnownInv, RunnersRun, StandbyUntilSet, StartAwaitsThread,
     KnownOrStarts, HoldsUnderOwnId, StartPending, Starting, Alive
<1>. QED  BY <1>1, <1>2, <1>3, KnownCall DEF Next

\* Stopping is safe when one client runs the simulation and entry points call
\* Hold from the start event on: besides, the scheduler thread never waits in
\* Hold for the stop that it would have to perform itself. It has executed the
\* start event of its own run before it may find its queue empty.
THEOREM StoppingIsSafe ==
  ASSUME OneRunner, HoldAfterStart
  PROVE  Spec => []HoldIsSafe
<1>1. Init => HoldInv
  BY TypeInit, ThreadInvInit, RestInit, KnownInit DEF BaseInv, StopInv, HoldInv
<1>2. HoldInv => HoldIsSafe
  BY DEF HoldInv, StopInv, RestInv, StandbyRests, Calm, KnownInv, HoldsUnderOwnId,
     HoldIsSafe, StandbyIsQuiet, SchedulerNeverWaits
<1>. QED  BY <1>1, <1>2, HoldStep, PTL DEF Spec

=============================================================================
