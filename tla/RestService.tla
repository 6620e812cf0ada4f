---------------------------- MODULE RestService ----------------------------
(***************************************************************************)
(* The REST interface of a simulation (rest/src/RestService.cpp). Requests *)
(* are handled by the threads of the HTTP server, at the same time as the  *)
(* scheduler thread executes entry points. A field is read and set through *)
(* a FieldHandler that lives as long as its request: its update is either  *)
(* called by the HTTP thread or queued as an immediate event, depending on *)
(* _simIsRunning.                                                          *)
(*                                                                         *)
(* All the fields are one field here, an array of two elements that an     *)
(* entry point writes one after the other. The races between two callers   *)
(* of Run and of Hold are the subject of RunControl.                       *)
(***************************************************************************)
EXTENDS Integers, SequencesExt, FiniteSetsExt

CONSTANTS
  Worker,      \* the threads of the HTTP server
  None,        \* no thread
  Paths,       \* paths of the requests: sequences of names
  Fields,      \* the names of the fields of each component, by its path
  Values,      \* values of an element of the field
  Bodies,      \* bodies of the POST requests on the schedule queue
  Unit,        \* nanoseconds of each unit of time
  Half,        \* 2^63: a Duration is in -Half .. Half - 1
  MaxQueue     \* bound: length of the queue when an event is added

Gone == "gone"   \* a handler that has been destroyed

UnitNames == {"s", "ms", "us", "ns"}

ASSUME RestAssumption ==
  /\ None \notin Worker /\ Gone \notin Worker /\ None # Gone
  /\ None \notin [what : {"read", "set", "entryPoint", "stop"},
                  of : Worker \union {None, Gone}]
  /\ Half \in Nat \ {0} /\ MaxQueue \in Nat
  /\ Values \subseteq Int /\ 0 \in Values
  /\ Unit \in [UnitNames -> Nat \ {0}]
  /\ \A b \in Bodies : ~b.immediate =>
       \A t \in {b.offset, b.cycle} :
         DOMAIN t \subseteq UnitNames /\ \A u \in DOMAIN t : t[u] \in Int

VARIABLES
  sim,          \* Simulator::_state
  simIsRunning, \* _simIsRunning
  mutex,        \* who holds _simIsRunningMutex
  pc,           \* where each HTTP thread is
  reads,        \* fields that its GET request still has to read
  handler,      \* its FieldHandler
  th,           \* where the scheduler thread is
  queue,        \* the immediate events
  cur,          \* the immediate event that is being executed
  waitingStop,  \* Simulator::_waitingStop
  element,      \* the two elements of the field
  timed,        \* the event that a request has just added, with its body
  crash,        \* why the process has died, or its memory is corrupted
  late          \* history: a thread waits for what may never come

simVars  == <<sim, simIsRunning, waitingStop, timed, crash>>
thVars   == <<th, queue, cur, element>>
workVars == <<mutex, pc, reads, handler>>
restVars == <<simVars, thVars, workVars, late>>

Pair(n) == [i \in {1, 2} |-> n]

\* A new FieldHandler: buf is _buf, short tells that it has fewer digits than
\* the field, got is _anysimples. The histories tell if the update was queued
\* and if entry points could run during it.
NewHandler(buf) == [buf |-> buf, short |-> FALSE, got |-> Pair(0), updated |-> FALSE,
                    queued |-> FALSE, raced |-> FALSE]

Event(what, of) == [what |-> what, of |-> of]

\* connect, which starts the server before the simulator is in Standby.
RestInit ==
  /\ sim = "Connecting" /\ simIsRunning = FALSE /\ waitingStop = FALSE
  /\ timed = {} /\ crash = "no"
  /\ th = "none" /\ queue = <<>> /\ cur = None /\ element = Pair(0)
  /\ mutex = None
  /\ pc = [w \in Worker |-> "idle"]
  /\ reads = [w \in Worker |-> 0]
  /\ handler = [w \in Worker |-> NewHandler(<<>>)]
  /\ late = FALSE

\* The simulator is connected, and initialised.
Connected ==
  /\ sim = "Connecting"
  /\ sim' = "Standby"
  /\ UNCHANGED <<simIsRunning, waitingStop, timed, crash, thVars, workVars, late>>

\* A new request: none once disconnect has stopped the server.
Accepts(w) == pc[w] = "idle" /\ sim \notin {"Exiting", "Aborting"} /\ crash = "no"

Goto(w, where) == pc' = [pc EXCEPT ![w] = where]

\* Scheduler::_mutex is only held for long by the thread that, in the reaction
\* of the scheduler to EnterExecuting, joins the previous scheduler thread.
MutexFree == \A w \in Worker : pc[w] # "joining"

-----------------------------------------------------------------------------
(***************************************************************************)
(* GET requests.                                                           *)
(***************************************************************************)

\* The path of the component that a request designates: what precedes
\* "fields", "entrypoints" or "fields/<name>", else the whole path.
ComponentOf(p) ==
  IF Last(p) \in {"fields", "entrypoints"} THEN Front(p)
  ELSE IF Len(p) > 1 /\ Last(Front(p)) = "fields" THEN Front(Front(p)) ELSE p

IsFieldPath(p) == Last(p) \notin {"fields", "entrypoints"} /\ ComponentOf(p) # p

\* parseComponent and parseContainer: the fields of c and of its children.
FieldsBelow(c) ==
  MapThenSumSet(LAMBDA d : Fields[d].count,
                {d \in DOMAIN Fields : IsPrefix(c, d)})

\* How many fields a request reads.
Reads(p, recursive) ==
  CASE IsFieldPath(p)           -> 1
    [] Last(p) = "fields"       -> Fields[ComponentOf(p)].count
    [] Last(p) = "entrypoints"  -> 0
    [] OTHER                    -> IF recursive THEN FieldsBelow(p) ELSE 0

\* defaultGetHandler. A path to no component is answered by 404; the name of
\* a field that does not exist is not checked and its field is a null pointer.
Get(w) ==
  /\ Accepts(w)
  /\ \E p \in Paths, recursive \in BOOLEAN :
       /\ ComponentOf(p) \in DOMAIN Fields
       /\ IF IsFieldPath(p) /\ Last(p) \notin Fields[ComponentOf(p)].names
          THEN crash' = "nullField" /\ UNCHANGED <<pc, reads>>
          ELSE /\ reads' = [reads EXCEPT ![w] = Reads(p, recursive)]
               /\ Goto(w, IF Reads(p, recursive) = 0 THEN "idle" ELSE "lock")
               /\ UNCHANGED crash
  /\ UNCHANGED <<sim, simIsRunning, waitingStop, timed, thVars, mutex, handler, late>>

\* getSimulatorStatus: the whole simulation, if recursive is asked for.
GetStatus(w) ==
  /\ Accepts(w)
  /\ reads' = [reads EXCEPT ![w] = FieldsBelow(<<>>)]
  /\ Goto(w, IF FieldsBelow(<<>>) = 0 THEN "idle" ELSE "lock")
  /\ UNCHANGED <<simVars, thVars, mutex, handler, late>>

\* parseField: the mutex is held until the handler is destroyed.
ReadLocks(w) ==
  /\ pc[w] = "lock" /\ mutex = None
  /\ mutex' = w
  /\ Goto(w, "ask")
  /\ UNCHANGED <<simVars, thVars, reads, handler, late>>

\* Faulty variant: the threads that wait in getValue are not told.
Updated_Silent(h) ==
  LET e == IF h.buf = <<>> THEN element ELSE h.buf
  IN  [h EXCEPT !.buf = <<>>, !.got = e]

\* update: the field takes the value of _buf if there is one and is read.
Updated(h) ==
  LET e == IF h.buf = <<>> THEN element ELSE h.buf
  IN  [h EXCEPT !.buf = <<>>, !.got = e, !.updated = TRUE]

Written(h) == IF h.buf = <<>> THEN element ELSE h.buf

\* The scheduler thread is in its loop: an entry point may be executed.
InLoop == th \notin {"none", "stopped", "returning"}

\* scheduleUpdate from getValue.
scheduleUpdate(w) ==
  IF simIsRunning
  THEN /\ queue' = Append(queue, Event("read", w))
       /\ handler' = [handler EXCEPT ![w].queued = TRUE]
       /\ UNCHANGED element
  ELSE /\ element' = Written(handler[w])
       /\ handler' = [handler EXCEPT ![w] = [Updated(@) EXCEPT !.raced = InLoop]]
       /\ UNCHANGED queue

\* getValue up to its wait. An update that is queued after the simulation
\* was left waits for the next run.
ReadAsks(w) ==
  /\ pc[w] = "ask"
  /\ simIsRunning => MutexFree
  /\ scheduleUpdate(w)
  /\ Goto(w, "wait")
  /\ late' = (late \/ (simIsRunning /\ sim # "Executing"))
  /\ UNCHANGED <<simVars, th, cur, mutex, reads>>

\* The events of a handler that is destroyed keep a pointer to its entry point.
Dangle(e, w) == IF e # None /\ e.of = w THEN [e EXCEPT !.of = Gone] ELSE e
Destroy(w) ==
  /\ queue' = [i \in DOMAIN queue |-> Dangle(queue[i], w)]
  /\ cur' = Dangle(cur, w)
  /\ mutex' = None
  /\ handler' = [handler EXCEPT ![w] = NewHandler(<<>>)]

\* Faulty variant: getValue does not wait for the update.
ReadReturns_AtOnce(w) ==
  /\ pc[w] = "wait"
  /\ Destroy(w)
  /\ reads' = [reads EXCEPT ![w] = @ - 1]
  /\ Goto(w, IF reads[w] = 1 THEN "idle" ELSE "lock")
  /\ UNCHANGED <<simVars, th, element, late>>

ReadReturns(w) ==
  /\ pc[w] = "wait" /\ handler[w].updated
  /\ Destroy(w)
  /\ reads' = [reads EXCEPT ![w] = @ - 1]
  /\ Goto(w, IF reads[w] = 1 THEN "idle" ELSE "lock")
  /\ UNCHANGED <<simVars, th, element, late>>

-----------------------------------------------------------------------------
(***************************************************************************)
(* POST requests.                                                          *)
(***************************************************************************)

\* defaultPostHandler: the path must lead to a field that exists (else 404)
\* and the body must be valid (else 422). Its length is not looked at.
Post(w) ==
  /\ Accepts(w)
  /\ \E p \in Paths, n \in Values, short \in BOOLEAN :
       /\ IsFieldPath(p) /\ ComponentOf(p) \in DOMAIN Fields
       /\ Last(p) \in Fields[ComponentOf(p)].names
       /\ handler' = [handler EXCEPT
                        ![w] = [NewHandler(<<n, n>>) EXCEPT !.short = short]]
  /\ Goto(w, "set")
  /\ UNCHANGED <<simVars, thVars, mutex, reads, late>>

\* setBinValue holds _bufMutex while it asks for the update. If the flag is
\* not set it calls update, which locks the same mutex: the thread blocks.
setBinValue(w) ==
  /\ pc[w] = "set" /\ mutex = None
  /\ mutex' = w
  /\ IF simIsRunning
     THEN /\ MutexFree /\ Len(queue) < MaxQueue
          /\ queue' = Append(queue, Event("set", w))
          /\ Goto(w, "asked")
     ELSE Goto(w, "stuck") /\ UNCHANGED queue
  /\ UNCHANGED <<simVars, th, cur, element, reads, handler, late>>

\* The end of setBinValue, and the end of the request.
SetUnlocks(w) ==
  /\ pc[w] = "asked"
  /\ Goto(w, "ending")
  /\ UNCHANGED <<simVars, thVars, mutex, reads, handler, late>>

SetReturns(w) ==
  /\ pc[w] = "ending"
  /\ Destroy(w)
  /\ Goto(w, "idle")
  /\ UNCHANGED <<simVars, th, element, reads, late>>

\* The value of a 64 bit number n: the product of a Duration and of an
\* unsigned constant is unsigned.
Wrapped(n) ==
  LET m == n % (2 * Half) IN IF m >= Half THEN m - 2 * Half ELSE m

\* A time of the body: given in one unit, the largest one is taken.
Asked(t) ==
  LET u == CHOOSE u \in DOMAIN t : \A v \in DOMAIN t : Unit[v] <= Unit[u]
  IN  IF DOMAIN t = {} THEN 0 ELSE t[u] * Unit[u]

\* Faulty variant: the smallest unit is taken.
Nanoseconds_Smallest(t) ==
  LET u == CHOOSE u \in DOMAIN t : \A v \in DOMAIN t : Unit[v] >= Unit[u]
  IN  IF DOMAIN t = {} THEN 0 ELSE Wrapped(t[u] * Unit[u])

Nanoseconds(t) == Wrapped(Asked(t))

\* What the scheduler accepts, at simulation time 0, where a date of -1 stands
\* for no date (Scheduler::AddSimulationTimeEvent, getAbsoluteTime).
Schedulable(time, period, repeat) ==
  /\ repeat > 0 => period >= -1 /\ period # 0
  /\ time < Half - 1

\* postScheduleQueue, once the body and its entry point are found valid
\* (else 422, as for an event that the scheduler refuses): repeat is -1 if it
\* is not given.
PostSchedule(w) ==
  /\ Accepts(w) /\ MutexFree
  /\ timed = {}
  /\ \E b \in Bodies :
       IF b.immediate
       THEN /\ Len(queue) < MaxQueue
            /\ queue' = Append(queue, Event("entryPoint", None))
            /\ UNCHANGED <<timed, pc>>
       ELSE /\ Schedulable(Nanoseconds(b.offset), Nanoseconds(b.cycle), b.repeat)
            /\ timed' = {[body |-> b, time |-> Nanoseconds(b.offset),
                          period |-> Nanoseconds(b.cycle), repeat |-> b.repeat]}
            /\ Goto(w, "scheduled")
            /\ UNCHANGED queue
  /\ UNCHANGED <<sim, simIsRunning, waitingStop, crash, th, cur, element, mutex,
                 reads, handler, late>>

\* The request is answered; the scheduler has the event (see Scheduler).
ScheduleReturns(w) ==
  /\ pc[w] = "scheduled"
  /\ timed' = {}
  /\ Goto(w, "idle")
  /\ UNCHANGED <<sim, simIsRunning, waitingStop, crash, thVars, mutex, reads, handler, late>>

\* postState: each state is asked for by the operation that leads to it. One
\* that the simulator refuses in its state changes nothing (see Lifecycle).
PostRun(w) ==
  /\ Accepts(w) /\ sim = "Standby"
  /\ sim' = "Executing"
  /\ Goto(w, "start")
  /\ UNCHANGED <<simIsRunning, waitingStop, timed, crash, thVars, mutex, reads, handler, late>>

\* EnterExecuting is emitted by the thread that called Run, and calls its
\* subscribers in the order they subscribed in: the scheduler, then
\* onSimExecuting, then onSimLeavingExec, which connect subscribed to the
\* same event. The scheduler joins its previous thread with its mutex locked.
EnterExecuting(w) ==
  /\ pc[w] = "start" /\ MutexFree
  /\ Goto(w, "joining")
  /\ UNCHANGED <<simVars, thVars, mutex, reads, handler, late>>

StartThread(w) ==
  /\ pc[w] = "joining" /\ th = "none"
  /\ th' = "step"
  /\ Goto(w, "flag")
  /\ UNCHANGED <<simVars, queue, cur, element, mutex, reads, handler, late>>

onSimExecuting(w) ==
  /\ pc[w] = "flag" /\ mutex = None
  /\ simIsRunning' = TRUE
  /\ Goto(w, "unflag")
  /\ UNCHANGED <<sim, waitingStop, timed, crash, thVars, mutex, reads, handler, late>>

onSimLeavingExec(w) ==
  /\ pc[w] = "unflag" /\ mutex = None
  /\ simIsRunning' = FALSE
  /\ Goto(w, "idle")
  /\ UNCHANGED <<sim, waitingStop, timed, crash, thVars, mutex, reads, handler, late>>

\* Hold(true) queues the stop event, then waits for it: the event may have
\* been executed before, and a thread that was told of the last stop misses
\* it if it looks at _waitingStop after another one has set it again.
PostHold(w) ==
  /\ Accepts(w) /\ MutexFree
  /\ sim = "Executing" /\ Len(queue) < MaxQueue
  /\ queue' = Append(queue, Event("stop", None))
  /\ Goto(w, "hold")
  /\ UNCHANGED <<simVars, th, cur, element, mutex, reads, handler, late>>

StopPending ==
  \/ cur = Event("stop", None)
  \/ sim = "Executing" /\ \E i \in DOMAIN queue : queue[i].what = "stop"

HoldWaits(w) ==
  /\ pc[w] = "hold"
  /\ waitingStop' = TRUE
  /\ Goto(w, "held")
  /\ late' = \/ late \/ ~StopPending
             \/ ~waitingStop /\ \E o \in Worker : pc[o] = "held"
  /\ UNCHANGED <<sim, simIsRunning, timed, crash, thVars, mutex, reads, handler>>

HoldReturns(w) ==
  /\ pc[w] = "held" /\ ~waitingStop
  /\ Goto(w, "idle")
  /\ UNCHANGED <<simVars, thVars, mutex, reads, handler, late>>

\* Store and Restore by the HTTP thread: an exception is answered by 422
\* and leaves the simulator in the state that it failed in.
PostStorage(w) ==
  /\ Accepts(w) /\ sim = "Standby"
  /\ sim' \in {"Storing", "Restoring"}
  /\ Goto(w, "storage")
  /\ UNCHANGED <<simIsRunning, waitingStop, timed, crash, thVars, mutex, reads, handler, late>>

StorageReturns(w) ==
  /\ pc[w] = "storage"
  /\ sim' \in {"Standby", sim}
  /\ Goto(w, "idle")
  /\ UNCHANGED <<simIsRunning, waitingStop, timed, crash, thVars, mutex, reads, handler, late>>

\* Exit disconnects the services: this one stops the server, on the thread of
\* the server that handles the request.
PostExit(w) ==
  /\ Accepts(w) /\ sim = "Standby"
  /\ sim' = "Exiting"
  /\ Goto(w, "exit")
  /\ UNCHANGED <<simIsRunning, waitingStop, timed, crash, thVars, mutex, reads, handler, late>>

\* Whether a server can be stopped from a thread of its own is its affair: the
\* call returns, or it never does.
ServerStops(w) ==
  /\ pc[w] = "exit"
  /\ Goto(w, "idle")
  /\ UNCHANGED <<simVars, thVars, mutex, reads, handler, late>>

\* Abort in Executing has the scheduler joined, which finishes its entry point
\* first; in any other state nothing waits for the thread.
PostAbort(w) ==
  /\ Accepts(w)
  /\ Goto(w, IF sim = "Executing" THEN "abort" ELSE "abortState")
  /\ UNCHANGED <<simVars, thVars, mutex, reads, handler, late>>

AbortJoins(w) ==
  /\ pc[w] = "abort" /\ th \in {"none", "step"} /\ MutexFree
  /\ th' = "none"
  /\ Goto(w, "abortState")
  /\ UNCHANGED <<simVars, queue, cur, element, mutex, reads, handler, late>>

AbortReturns(w) ==
  /\ pc[w] = "abortState"
  /\ sim' = "Aborting"
  /\ late' = (late \/ queue # <<>>)
  /\ Goto(w, "idle")
  /\ UNCHANGED <<simIsRunning, waitingStop, timed, crash, thVars, mutex, reads, handler>>

-----------------------------------------------------------------------------
(***************************************************************************)
(* The scheduler thread.                                                   *)
(***************************************************************************)

\* Scheduler::run goes on until Abort clears _run.
Continues == th = "step" /\ \A w \in Worker : pc[w] # "abort"

Pop ==
  /\ Continues /\ queue # <<>>
  /\ cur' = Head(queue)
  /\ queue' = Tail(queue)
  /\ th' = "event"
  /\ UNCHANGED <<simVars, element, workVars, late>>

\* The update of a handler: it waits for _bufMutex, which setBinValue holds. A
\* value with too few digits is taken from, and erased in, an empty vector.
Update ==
  /\ th = "event" /\ cur.what \in {"read", "set"}
  /\ IF cur.of = Gone
     THEN crash' = "dangling" /\ UNCHANGED <<handler, element, th, cur>>
     ELSE /\ pc[cur.of] # "asked"
          /\ element' = Written(handler[cur.of])
          /\ handler' = [handler EXCEPT ![cur.of] = Updated(@)]
          /\ th' = "step" /\ cur' = None
          /\ crash' = IF handler[cur.of].short THEN "shortValue" ELSE "no"
  /\ UNCHANGED <<sim, simIsRunning, waitingStop, timed, queue, mutex, pc, reads, late>>

EntryPoint ==
  /\ th = "event" /\ cur.what = "entryPoint"
  /\ th' = "step" /\ cur' = None
  /\ UNCHANGED <<simVars, queue, element, workVars, late>>

\* The entry point of a model: it writes both elements, and may ask for a
\* hold before it returns.
ModelWrites ==
  /\ Continues /\ queue = <<>>
  /\ \E n \in Values : n # element[1] /\ element' = [element EXCEPT ![1] = n]
  /\ th' = "writing"
  /\ UNCHANGED <<simVars, queue, cur, workVars, late>>

ModelReturns ==
  /\ th = "writing"
  /\ element' = Pair(element[1])
  /\ queue' \in {queue} \union
       {q \in {Append(queue, Event("stop", None))} : Len(queue) < MaxQueue}
  /\ th' = "step"
  /\ UNCHANGED <<simVars, cur, workVars, late>>

\* epStop: the simulation is left, with what is still in the queue, then the
\* threads that wait in Hold are told.
Stop ==
  /\ th = "event" /\ cur.what = "stop"
  /\ sim' = "Standby"
  /\ th' = "stopped"
  /\ late' = (late \/ \E i \in DOMAIN queue : queue[i].what = "read")
  /\ UNCHANGED <<simIsRunning, waitingStop, timed, crash, queue, cur, element, workVars>>

StopNotifies ==
  /\ th = "stopped"
  /\ waitingStop' = FALSE
  /\ cur' = None
  /\ th' = "returning"
  /\ UNCHANGED <<sim, simIsRunning, timed, crash, queue, element, workVars, late>>

\* The end of step takes the mutex, and the thread returns.
ThreadReturns ==
  /\ th = "returning" /\ MutexFree
  /\ th' = "none"
  /\ UNCHANGED <<simVars, queue, cur, element, workVars, late>>

Locks(w) ==
  ReadLocks(w) \/ setBinValue(w) \/ onSimExecuting(w) \/ onSimLeavingExec(w)

WorkerStep(w) ==
  \/ Locks(w) \/ ReadAsks(w) \/ ReadReturns(w)
  \/ SetUnlocks(w) \/ SetReturns(w) \/ ScheduleReturns(w)
  \/ EnterExecuting(w) \/ StartThread(w)
  \/ HoldWaits(w) \/ HoldReturns(w) \/ StorageReturns(w)
  \/ AbortJoins(w) \/ AbortReturns(w)

Request(w) ==
  \/ Get(w) \/ GetStatus(w) \/ Post(w) \/ PostSchedule(w)
  \/ PostRun(w) \/ PostHold(w) \/ PostStorage(w) \/ PostExit(w)
  \/ PostAbort(w)

ThreadStep == Pop \/ Update \/ EntryPoint \/ ModelWrites \/ ModelReturns
              \/ Stop \/ StopNotifies \/ ThreadReturns

RestNext ==
  /\ crash = "no"
  /\ \/ Connected \/ ThreadStep
     \/ \E w \in Worker : Request(w) \/ WorkerStep(w) \/ ServerStops(w)

RestSpec == RestInit /\ [][RestNext]_restVars

\* The threads of the server and the scheduler thread are OS threads; a
\* mutex that is released again and again is given to each in the end.
FairRestSpec ==
  /\ RestSpec
  /\ WF_restVars(crash = "no" /\ ThreadStep)
  /\ \A w \in Worker : /\ WF_restVars(crash = "no" /\ WorkerStep(w))
                       /\ SF_restVars(crash = "no" /\ Locks(w))

-----------------------------------------------------------------------------
(***************************************************************************)
(* Properties.                                                             *)
(***************************************************************************)

\* A GET request never sees half of what an entry point writes if its update
\* was queued, or if the scheduler thread was not in its loop during the update.
\* (The flag is false while the simulation executes: see onSimLeavingExec.)
AnswersAreWhole ==
  \A w \in Worker :
    pc[w] = "wait" /\ handler[w].updated /\ (handler[w].queued \/ ~handler[w].raced)
      => handler[w].got[1] = handler[w].got[2]

\* A GET request leaves nothing in the queue: only a value that is set while
\* the flag is set can be destroyed before its update.
ReadsLeaveNothing ==
  /\ \A i \in DOMAIN queue : queue[i].of = Gone => queue[i].what = "set"
  /\ crash = "dangling" => cur.what = "set"

\* Reading is safe beside a simulation that runs.
ReadsAreSafe == AnswersAreWhole /\ ReadsLeaveNothing

\* Run came from Standby while the previous thread had not returned: it is
\* joined with the mutex that it needs for the end of its step.
RestartedTooEarly ==
  \E w \in Worker : pc[w] = "joining" /\ th \in {"stopped", "returning"}

\* Every request is answered, unless a value was set while the flag was not
\* (its thread keeps the mutex for ever), or a thread waits for an event
\* that the end of the run has overtaken, or the simulation was restarted too
\* early, or the server is stopped by its own thread, or the process has died.
EveryRequestIsAnswered ==
  \A w \in Worker :
    pc[w] # "idle" ~> \/ pc[w] \in {"idle", "exit"} \/ late \/ crash # "no"
                      \/ RestartedTooEarly
                      \/ \E o \in Worker : pc[o] = "stuck"

\* The event that POST scheduleQueue adds has the offset and the cycle time
\* that were asked for, whatever the units, if they fit in a Duration.
ScheduledAsAsked ==
  \A e \in timed :
    /\ Asked(e.body.offset) \in -Half .. Half - 1 => e.time = Asked(e.body.offset)
    /\ Asked(e.body.cycle) \in -Half .. Half - 1 => e.period = Asked(e.body.cycle)

=============================================================================
