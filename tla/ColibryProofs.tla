---------------------------- MODULE ColibryProofs ----------------------------
(***************************************************************************)
(* Proofs about Colibry.                                                   *)
(***************************************************************************)
EXTENDS Colibry, TLAPS

-----------------------------------------------------------------------------
(***************************************************************************)
(* The calls on the queue of the SMP scheduler.                            *)
(***************************************************************************)
EventTime == {t \in Int : t >= Immediate}

EventRecord == [time : EventTime, period : Int, repeat : Int,
                completed : BOOLEAN, job : Schedules \union OtherJob]

Queue == [event : [EventId -> EventRecord], waiting : SUBSET EventId,
          next : 0 .. MaxEvents]

\* The queue r is q after calls that concern the event e alone.
Adjusts(q, r, e) ==
  /\ r \in Queue /\ r.next = q.next
  /\ q.waiting \subseteq r.waiting /\ r.waiting \subseteq q.waiting \union {e}
  /\ \A x \in EventId : x # e => r.event[x] = q.event[x]
  /\ r.event[e].job = q.event[e].job
  /\ r.event[e].time \in {q.event[e].time} \union Nat \union {Never}

LEMMA AdjustsItself ==
  ASSUME NEW q \in Queue, NEW e  PROVE Adjusts(q, q, e)
  BY DEF Adjusts, Queue

LEMMA AdjustsTwice ==
  ASSUME NEW q, NEW r, NEW s, NEW e, Adjusts(q, r, e), Adjusts(r, s, e)
  PROVE  Adjusts(q, s, e)
  BY DEF Adjusts

LEMMA SetTimeAdjusts ==
  ASSUME NEW q \in Queue, NEW e \in EventId, NEW t \in Nat \union {Never}
  PROVE  Adjusts(q, SetTime(q, e, t), e) /\ SetTime(q, e, t).event[e].time = t
<1> DEFINE r == SetTime(q, e, t)
<1>1. /\ r.event = [q.event EXCEPT ![e].time = t]
      /\ r.waiting = q.waiting \union {e} /\ r.next = q.next
  BY DEF SetTime, Queue
<1>2. [q.event EXCEPT ![e].time = t] \in [EventId -> EventRecord]
  BY DEF Queue, EventRecord, EventTime, Never, Immediate
<1>3. r \in Queue
  BY <1>2 DEF SetTime, Queue
<1>. HIDE DEF r
<1>4. \A x \in EventId : r.event[x] = IF x = e THEN [q.event[x] EXCEPT !.time = t]
                                             ELSE q.event[x]
  BY <1>1 DEF Queue
<1>5. r.event[e].job = q.event[e].job /\ r.event[e].time = t
  BY <1>4 DEF Queue, EventRecord
<1>. QED  BY <1>1, <1>3, <1>4, <1>5 DEF Adjusts, r

LEMMA TimeAdjusts ==
  ASSUME NEW q \in Queue, NEW e \in EventId \union {None}, NEW rel \in Nat \union {Never},
         schedTime \in Nat
  PROVE  /\ Adjusts(q, SetEventSimulationTime(q, e, rel), e)
         /\ Known(q, e) => SetEventSimulationTime(q, e, rel).event[e].time = Absolute(rel)
<1>1. Absolute(rel) \in Nat \union {Never}
  BY DEF Absolute, Never
<1>. QED  BY <1>1, SetTimeAdjusts, AdjustsItself DEF SetEventSimulationTime, Known

LEMMA CycleAdjusts ==
  ASSUME NEW q \in Queue, NEW e \in EventId \union {None}, NEW cycle \in Int
  PROVE  /\ Adjusts(q, SetEventCycleTime(q, e, cycle), e)
         /\ \A x \in EventId : SetEventCycleTime(q, e, cycle).event[x].time = q.event[x].time
<1>1. CASE Known(q, e)
  <2>1. e \in EventId
    BY <1>1 DEF Known
  <2>2. SetEventCycleTime(q, e, cycle) =
          [event |-> [q.event EXCEPT ![e].period = cycle], waiting |-> q.waiting,
           next |-> q.next]
    BY <1>1 DEF SetEventCycleTime, Queue
  <2>3. [q.event EXCEPT ![e].period = cycle] \in [EventId -> EventRecord]
    BY DEF Queue, EventRecord
  <2>. QED  BY <2>1, <2>2, <2>3 DEF Adjusts, Queue, EventRecord
<1>2. CASE ~Known(q, e)
  BY <1>2, AdjustsItself DEF SetEventCycleTime
<1>. QED  BY <1>1, <1>2

LEMMA RepeatAdjusts ==
  ASSUME NEW q \in Queue, NEW e \in EventId \union {None}, NEW repeat \in Int
  PROVE  /\ Adjusts(q, SetEventRepeat(q, e, repeat), e)
         /\ \A x \in EventId : SetEventRepeat(q, e, repeat).event[x].time = q.event[x].time
<1>1. CASE Known(q, e)
  <2>1. e \in EventId
    BY <1>1 DEF Known
  <2>2. SetEventRepeat(q, e, repeat) =
          [event |-> [q.event EXCEPT ![e].repeat = repeat], waiting |-> q.waiting,
           next |-> q.next]
    BY <1>1 DEF SetEventRepeat, Queue
  <2>3. [q.event EXCEPT ![e].repeat = repeat] \in [EventId -> EventRecord]
    BY DEF Queue, EventRecord
  <2>. QED  BY <2>1, <2>2, <2>3 DEF Adjusts, Queue, EventRecord
<1>2. CASE ~Known(q, e)
  BY <1>2, AdjustsItself DEF SetEventRepeat
<1>. QED  BY <1>1, <1>2

\* A new event goes behind those that were made before.
LEMMA AddedIs ==
  ASSUME NEW q \in Queue, q.next < MaxEvents, NEW job \in Schedules \union OtherJob,
         NEW t \in EventTime, NEW period \in Int, NEW repeat \in Int
  PROVE  LET r == Added(q, job, t, period, repeat)
         IN /\ r \in Queue /\ q.next \in EventId
            /\ r.next = q.next + 1 /\ r.waiting = q.waiting \union {q.next}
            /\ \A x \in EventId : x # q.next => r.event[x] = q.event[x]
            /\ r.event[q.next] = [time |-> t, period |-> period, repeat |-> repeat,
                                  completed |-> FALSE, job |-> job]
<1>1. q.next \in EventId
  BY MetaSchedulerAssumption DEF Queue, EventId, MetaSchedulerAssumption
<1>2. [q.event EXCEPT ![q.next] = [time |-> t, period |-> period, repeat |-> repeat,
                                   completed |-> FALSE, job |-> job]]
        \in [EventId -> EventRecord]
  BY DEF Queue, EventRecord
<1>3. q.next + 1 \in 0 .. MaxEvents
  BY MetaSchedulerAssumption DEF Queue, MetaSchedulerAssumption
<1>. QED  BY <1>1, <1>2, <1>3 DEF Added, Queue

\* There is one first event.
LEMMA OneHead ==
  ASSUME NEW q \in Queue, NEW a, NEW b, IsHead(q, a), IsHead(q, b)
  PROVE  a = b
<1>. SUFFICES ASSUME a # b PROVE FALSE
  OBVIOUS
<1>1. Before(q, a, b) /\ Before(q, b, a) /\ a \in EventId /\ b \in EventId
  BY DEF IsHead, Queue
<1>2. q.event[a] \in EventRecord /\ q.event[b] \in EventRecord
  BY <1>1 DEF Queue
<1>3. q.event[a].time \in Int /\ q.event[b].time \in Int /\ a \in Int /\ b \in Int
  BY <1>1, <1>2 DEF EventRecord, EventTime, EventId
<1>. QED  BY <1>1, <1>3 DEF Before

-----------------------------------------------------------------------------
(***************************************************************************)
(* The schedules and their events.                                         *)
(***************************************************************************)
Made == 0 .. queue.next - 1

MetaTypes ==
  /\ queue \in Queue /\ queue.waiting \subseteq Made
  /\ object \in [Schedules -> ScheduleObject]
  /\ schedTime \in Nat /\ now \in Nat /\ schedTime <= now
  /\ current \in Made \union {None}
  /\ subscribed \in [Event -> SUBSET EventHandler]

\* A schedule and its event know each other; an immediate schedule may have
\* several events, of which it knows the last.
IdsAgree ==
  /\ \A s \in Schedules : object[s].id # None =>
       object[s].id \in Made /\ queue.event[object[s].id].job = s
  /\ \A e \in Made : queue.event[e].job \in Periodic =>
       object[queue.event[e].job].id = e /\ queue.event[e].time # Immediate

ImmediateOnce ==
  \A e \in Made : queue.event[e].time = Immediate => queue.event[e].period = 0

\* The event of a schedule that an event has deactivated has no time.
OffAsleep ==
  \A s \in off : /\ s \in Periodic /\ object[s].id # None
                 /\ queue.event[object[s].id].time = Never

MetaInv == MetaTypes /\ IdsAgree /\ ImmediateOnce /\ OffAsleep

\* Calls on schedules leave the events of others, and the index of the events
\* that exist, alone, and make events of schedules only.
OthersKept ==
  /\ Made \subseteq Made' /\ queue.waiting \subseteq queue'.waiting
  /\ \A e \in Made' : e \in Made \/ queue'.event[e].job \in Schedules
  /\ \A e \in Made :
       /\ queue'.event[e].job = queue.event[e].job
       /\ queue.event[e].job \notin Periodic => queue'.event[e] = queue.event[e]
       /\ e \in DOMAIN index' => e \in DOMAIN index /\ index'[e] = index[e]

LEMMA MadeIsEventId == ASSUME MetaTypes PROVE Made \subseteq EventId
  BY MetaSchedulerAssumption DEF MetaTypes, Made, EventId, Queue, MetaSchedulerAssumption

\* A call that concerns the event of a periodic schedule, or none.
LEMMA AdjustingKeeps ==
  ASSUME MetaInv, UNCHANGED <<current, schedTime, now, index>>,
         subscribed' \in [Event -> SUBSET EventHandler],
         NEW s \in Schedules, NEW o \in ScheduleObject, o.id = object[s].id,
         object' = [object EXCEPT ![s] = o],
         \/ queue' = queue
         \/ s \in Periodic /\ o.id # None /\ Adjusts(queue, queue', o.id),
         \A x \in off' :
           \/ x \in off /\ x # s
           \/ x \in off /\ queue'.event[o.id].time = queue.event[o.id].time
           \/ x = s /\ s \in Periodic /\ o.id # None /\ queue'.event[o.id].time = Never
  PROVE  MetaInv' /\ OthersKept
<1>1. /\ object' \in [Schedules -> ScheduleObject]
      /\ \A x \in Schedules : object'[x].id = object[x].id
  BY DEF MetaInv, MetaTypes
<1>2. /\ queue' \in Queue /\ Made' = Made
      /\ queue.waiting \subseteq queue'.waiting /\ queue'.waiting \subseteq Made
      /\ \A e \in Made : queue'.event[e].job = queue.event[e].job
      /\ \A e \in Made : (s \notin Periodic \/ e # o.id) => queue'.event[e] = queue.event[e]
      /\ s \in Periodic /\ o.id # None =>
           queue'.event[o.id].time \in {queue.event[o.id].time} \union Nat \union {Never}
  <2>1. CASE queue' = queue
    BY <2>1, SMTT(30) DEF MetaInv, MetaTypes, Made
  <2>2. CASE s \in Periodic /\ o.id # None /\ Adjusts(queue, queue', o.id)
    <3>1. o.id \in Made /\ Made \subseteq EventId
      BY <2>2, MadeIsEventId DEF MetaInv, IdsAgree
    <3>. QED  BY <2>2, <3>1, SMTT(30) DEF Adjusts, MetaInv, MetaTypes, Made
  <2>. QED  BY <2>1, <2>2
<1>3. MetaTypes'
  BY <1>1, <1>2 DEF MetaInv, MetaTypes
<1>4. IdsAgree'
  BY <1>1, <1>2, SMTT(30) DEF MetaInv, IdsAgree, Immediate, Never, Schedules
<1>5. ImmediateOnce'
  BY <1>2 DEF MetaInv, ImmediateOnce, IdsAgree, Immediate, Never
<1>6. OffAsleep'
  <2>. SUFFICES ASSUME NEW x \in off'
                PROVE  /\ x \in Periodic /\ object'[x].id # None
                       /\ queue'.event[object'[x].id].time = Never
    BY DEF OffAsleep
  <2>1. CASE x \in off /\ x # s
    <3>1. object[x].id \in Made /\ queue.event[object[x].id].job = x
      BY <2>1 DEF MetaInv, OffAsleep, IdsAgree, Schedules
    <3>2. object[x].id # o.id \/ s \notin Periodic
      <4>1. object[x].id # None
        BY <2>1 DEF MetaInv, OffAsleep
      <4>. QED  BY <2>1, <3>1, <4>1 DEF MetaInv, IdsAgree
    <3>3. queue'.event[object[x].id] = queue.event[object[x].id]
      BY <1>2, <3>1, <3>2
    <3>4. x \in Schedules /\ x \in Periodic /\ object[x].id # None
          /\ queue.event[object[x].id].time = Never
      BY <2>1 DEF MetaInv, OffAsleep, Schedules
    <3>. QED  BY <1>1, <3>3, <3>4
  <2>2. CASE x \in off /\ x = s /\ queue'.event[o.id].time = queue.event[o.id].time
    BY <1>1, <2>2 DEF MetaInv, OffAsleep
  <2>3. CASE x = s /\ s \in Periodic /\ o.id # None /\ queue'.event[o.id].time = Never
    BY <1>1, <2>3
  <2>. QED  BY <2>1, <2>2, <2>3
<1>7. OthersKept
  <2>1. \A e \in Made : queue.event[e].job \notin Periodic => s \notin Periodic \/ e # o.id
    BY DEF MetaInv, IdsAgree, Made, None
  <2>2. index' = index
    OBVIOUS
  <2>3. ASSUME NEW e \in Made, queue.event[e].job \notin Periodic
        PROVE  queue'.event[e] = queue.event[e]
    BY <1>2, <2>1, <2>3
  <2>. QED  BY <1>2, <2>2, <2>3 DEF OthersKept
<1>. QED  BY <1>3, <1>4, <1>5, <1>6, <1>7 DEF MetaInv

\* A call that makes an event for a schedule.
LEMMA AddingKeeps ==
  ASSUME MetaInv, UNCHANGED <<current, schedTime, now, off>>,
         subscribed' \in [Event -> SUBSET EventHandler],
         NEW s \in Schedules, NEW o \in ScheduleObject,
         NEW t \in EventTime, NEW period \in Int, NEW repeat \in Int,
         queue.next < MaxEvents, queue' = Added(queue, s, t, period, repeat),
         object' = [object EXCEPT ![s] = o], o.id = queue.next,
         s \in Periodic => object[s].id = None /\ t # Immediate,
         t = Immediate => period = 0,
         \A e \in Made : e \in DOMAIN index' => e \in DOMAIN index /\ index'[e] = index[e]
  PROVE  MetaInv' /\ OthersKept
<1>1. /\ queue' \in Queue /\ queue.next \in EventId
      /\ queue'.next = queue.next + 1 /\ queue'.waiting = queue.waiting \union {queue.next}
      /\ \A x \in EventId : x # queue.next => queue'.event[x] = queue.event[x]
      /\ queue'.event[queue.next] = [time |-> t, period |-> period, repeat |-> repeat,
                                     completed |-> FALSE, job |-> s]
  BY AddedIs DEF MetaInv, MetaTypes
<1>2. /\ Made' = Made \union {queue.next} /\ queue.next \notin Made
      /\ Made \subseteq EventId
      /\ \A e \in Made : queue'.event[e] = queue.event[e]
  BY <1>1, MadeIsEventId DEF Made, MetaInv, EventId
<1>3. /\ object' \in [Schedules -> ScheduleObject]
      /\ \A x \in Schedules : x # s => object'[x] = object[x]
      /\ object'[s].id = queue.next
  BY DEF MetaInv, MetaTypes
<1>4. MetaTypes'
  BY <1>1, <1>2, <1>3 DEF MetaInv, MetaTypes
<1>5. IdsAgree'
  <2>1. ASSUME NEW x \in Schedules, object'[x].id # None
        PROVE  object'[x].id \in Made' /\ queue'.event[object'[x].id].job = x
    BY <1>1, <1>2, <1>3, <2>1 DEF MetaInv, IdsAgree
  <2>2. ASSUME NEW e \in Made', queue'.event[e].job \in Periodic
        PROVE  object'[queue'.event[e].job].id = e /\ queue'.event[e].time # Immediate
    <3>1. CASE e = queue.next
      BY <1>1, <1>3, <2>2, <3>1
    <3>2. CASE e \in Made
      <4>1. /\ queue'.event[e] = queue.event[e]
            /\ object[queue.event[e].job].id = e /\ queue.event[e].time # Immediate
        BY <1>2, <2>2, <3>2 DEF MetaInv, IdsAgree
      <4>2. e # None
        BY <1>2, <3>2 DEF Made, None
      <4>. QED  BY <1>3, <2>2, <4>1, <4>2 DEF Schedules
    <3>. QED  BY <1>2, <3>1, <3>2
  <2>. QED  BY <2>1, <2>2 DEF IdsAgree
<1>6. ImmediateOnce'
  BY <1>1, <1>2 DEF MetaInv, ImmediateOnce
<1>7. OffAsleep'
  <2>. SUFFICES ASSUME NEW x \in off
                PROVE  /\ x \in Periodic /\ object'[x].id # None
                       /\ queue'.event[object'[x].id].time = Never
    BY DEF OffAsleep
  <2>1. x \in Periodic /\ object[x].id # None /\ queue.event[object[x].id].time = Never
    BY DEF MetaInv, OffAsleep
  <2>2. x # s /\ object[x].id \in Made
    BY <2>1 DEF MetaInv, IdsAgree, Schedules
  <2>. QED  BY <1>2, <1>3, <2>1, <2>2 DEF Schedules
<1>8. OthersKept
  BY <1>1, <1>2 DEF OthersKept
<1>. QED  BY <1>4, <1>5, <1>6, <1>7, <1>8 DEF MetaInv

-----------------------------------------------------------------------------
(***************************************************************************)
(* The calls of the meta scheduler.                                        *)
(***************************************************************************)
LEMMA SettingsKeepId ==
  ASSUME MetaInv, NEW s \in Schedules, NEW o \in Settings(s)
  PROVE  o \in ScheduleObject /\ o.id = object[s].id
<1>1. object[s] \in ScheduleObject
  BY DEF MetaInv, MetaTypes
<1>2. CASE o = object[s]
  BY <1>1, <1>2
<1>3. ASSUME NEW active \in BOOLEAN, o = WithActive(object[s], active)
      PROVE  o \in ScheduleObject /\ o.id = object[s].id
  BY <1>1, <1>3 DEF WithActive, ScheduleObject
<1>4. ASSUME NEW t \in Offsets, o = WithTime(object[s], t)
      PROVE  o \in ScheduleObject /\ o.id = object[s].id
  <2>1. t \in Nat \union {Never}
    BY MetaSchedulerAssumption DEF MetaSchedulerAssumption
  <2>2. Changed(object[s], "time", t # object[s].time) \in SUBSET {"time", "cycle", "repeat"}
    BY <1>1 DEF Changed, ScheduleObject
  <2>. QED  BY <1>1, <1>4, <2>1, <2>2 DEF WithTime, ScheduleObject
<1>5. ASSUME NEW c \in Int, o = WithCycle(object[s], c)
      PROVE  o \in ScheduleObject /\ o.id = object[s].id
  <2>1. Changed(object[s], "cycle", c # object[s].cycle) \in SUBSET {"time", "cycle", "repeat"}
    BY <1>1 DEF Changed, ScheduleObject
  <2>. QED  BY <1>1, <1>5, <2>1 DEF WithCycle, ScheduleObject
<1>6. ASSUME NEW r \in Int, o = WithRepeat(object[s], r)
      PROVE  o \in ScheduleObject /\ o.id = object[s].id
  <2>1. Changed(object[s], "repeat", r # object[s].repeat) \in SUBSET {"time", "cycle", "repeat"}
    BY <1>1 DEF Changed, ScheduleObject
  <2>. QED  BY <1>1, <1>6, <2>1 DEF WithRepeat, ScheduleObject
<1>. QED  BY <1>2, <1>3, <1>4, <1>5, <1>6, MetaSchedulerAssumption
          DEF Settings, MetaSchedulerAssumption

LEMMA FirstTimeType ==
  ASSUME NEW o \in ScheduleObject  PROVE FirstTime(o) \in Nat \union {Never}
  BY DEF ScheduleObject, FirstTime

\* The first Submit of a periodic schedule.
LEMMA SubmitNewKeeps ==
  ASSUME MetaInv, UNCHANGED <<current, schedTime, now, subscribed>>,
         NEW s \in Periodic, NEW o \in ScheduleObject, o.id = object[s].id,
         o.id = None, SubmitNew(s, o)
  PROVE  MetaInv' /\ OthersKept
<1>1. s \in Schedules /\ subscribed' \in [Event -> SUBSET EventHandler]
  BY DEF Schedules, MetaInv, MetaTypes
<1>2. CASE o.repeat > 0 /\ BadCycle(o.cycle)
  <2>1. /\ object' = [object EXCEPT ![s] = o] /\ queue' = queue
        /\ off' = off /\ UNCHANGED <<current, schedTime, now, index>>
    BY <1>2 DEF SubmitNew
  <2>2. \A x \in off' : x \in off /\ x # s
    BY <2>1 DEF MetaInv, OffAsleep
  <2>. QED  BY <1>1, <2>1, <2>2, AdjustingKeeps
<1>3. CASE ~ (o.repeat > 0 /\ BadCycle(o.cycle))
  <2> DEFINE t == Absolute(FirstTime(o))
             p == [o EXCEPT !.id = queue.next, !.dirty = {}]
  <2>1. /\ queue.next < MaxEvents
        /\ queue' = Added(queue, s, t, o.cycle, o.repeat)
        /\ object' = [object EXCEPT ![s] = p]
        /\ index' = Indexed(queue.next, s)
        /\ off' = off
    BY <1>3 DEF SubmitNew
  <2>2. t \in EventTime /\ t # Immediate
    BY FirstTimeType DEF Absolute, EventTime, Never, Immediate, MetaInv, MetaTypes
  <2>3. queue.next \in EventId
    BY <2>1, MetaSchedulerAssumption
    DEF MetaInv, MetaTypes, Queue, EventId, MetaSchedulerAssumption
  <2>4. p \in ScheduleObject /\ p.id = queue.next
    BY <2>3 DEF ScheduleObject
  <2>5. o.cycle \in Int /\ o.repeat \in Int
    BY DEF ScheduleObject
  <2>6. \A e \in Made : e \in DOMAIN index' => e \in DOMAIN index /\ index'[e] = index[e]
    BY <2>1, <2>3 DEF Indexed, Made, EventId
  <2>. HIDE DEF t, p
  <2>. QED  BY <1>1, <2>1, <2>2, <2>4, <2>5, <2>6, AddingKeeps
<1>. QED  BY <1>2, <1>3

\* The next ones.
LEMMA SubmitAgainKeeps ==
  ASSUME MetaInv, UNCHANGED <<current, schedTime, now, subscribed>>,
         NEW s \in Periodic, NEW o \in ScheduleObject, o.id = object[s].id,
         o.id # None, SubmitAgain(s, o)
  PROVE  MetaInv' /\ OthersKept
<1> DEFINE timed  == Resubmitted(queue, o)
           cycled == IF "cycle" \in o.dirty THEN SetEventCycleTime(timed, o.id, o.cycle)
                     ELSE timed
           last   == IF "repeat" \in o.dirty THEN SetEventRepeat(cycled, o.id, o.repeat)
                     ELSE cycled
           p      == [o EXCEPT !.dirty = {}]
<1>1. /\ queue' = timed \/ queue' = last
      /\ \/ object' = [object EXCEPT ![s] = o]
         \/ object' = [object EXCEPT ![s] = p]
      /\ off' = IF "time" \in o.dirty THEN off \ {s} ELSE off
      /\ index' = index
  BY DEF SubmitAgain
<1>2. /\ s \in Schedules /\ o.id \in Made /\ o.id \in EventId /\ queue \in Queue
      /\ schedTime \in Nat /\ o.cycle \in Int /\ o.repeat \in Int
      /\ subscribed' \in [Event -> SUBSET EventHandler]
  BY MadeIsEventId DEF Schedules, MetaInv, MetaTypes, IdsAgree, ScheduleObject
<1>3. Adjusts(queue, timed, o.id)
  BY <1>2, TimeAdjusts, FirstTimeType, AdjustsItself DEF Resubmitted
<1>4. "time" \notin o.dirty => timed = queue
  BY DEF Resubmitted
<1>5. p \in ScheduleObject /\ p.id = o.id
  BY DEF ScheduleObject
<1>6. /\ Adjusts(timed, cycled, o.id)
      /\ \A x \in EventId : cycled.event[x].time = timed.event[x].time
  <2>. HIDE DEF timed
  <2>1. timed \in Queue
    BY <1>3 DEF Adjusts
  <2>. QED  BY <1>2, <2>1, CycleAdjusts, AdjustsItself
<1>7. /\ Adjusts(cycled, last, o.id)
      /\ \A x \in EventId : last.event[x].time = cycled.event[x].time
  <2>. HIDE DEF cycled
  <2>1. cycled \in Queue
    BY <1>6 DEF Adjusts
  <2>. QED  BY <1>2, <2>1, RepeatAdjusts, AdjustsItself
<1>. HIDE DEF timed, cycled, last, p
<1>8. Adjusts(queue, queue', o.id)
  BY <1>1, <1>3, <1>6, <1>7, AdjustsTwice
<1>9. \A x \in off' : \/ x \in off /\ x # s
                      \/ x \in off /\ queue'.event[o.id].time = queue.event[o.id].time
  BY <1>1, <1>2, <1>4, <1>6, <1>7
<1>. QED  BY <1>1, <1>2, <1>5, <1>8, <1>9, AdjustingKeeps

LEMMA SubmitInstantKeeps ==
  ASSUME MetaInv, UNCHANGED <<current, schedTime, now, subscribed>>,
         NEW i \in Instant, NEW o \in ScheduleObject, o.id = object[i].id,
         SubmitInstant(i, o)
  PROVE  MetaInv' /\ OthersKept
<1>1. /\ i \in Schedules /\ i \notin Periodic
      /\ subscribed' \in [Event -> SUBSET EventHandler]
  BY MetaSchedulerAssumption DEF Schedules, MetaInv, MetaTypes, MetaSchedulerAssumption
<1>2. CASE ~ o.active
  <2>1. /\ object' = [object EXCEPT ![i] = o] /\ queue' = queue
        /\ off' = off /\ UNCHANGED <<current, schedTime, now, index>>
    BY <1>2 DEF SubmitInstant
  <2>2. \A x \in off' : x \in off /\ x # i
    BY <1>1, <2>1 DEF MetaInv, OffAsleep
  <2>. QED  BY <1>1, <2>1, <2>2, AdjustingKeeps
<1>3. CASE o.active
  <2> DEFINE p == [o EXCEPT !.id = queue.next]
  <2>1. /\ queue.next < MaxEvents
        /\ queue' = Added(queue, i, Immediate, 0, 0)
        /\ object' = [object EXCEPT ![i] = p]
        /\ index' = [e \in DOMAIN Forgotten(i) \union {queue.next} |->
                       IF e = queue.next THEN i ELSE Forgotten(i)[e]]
        /\ off' = off
    BY <1>3 DEF SubmitInstant
  <2>2. Immediate \in EventTime /\ 0 \in Int
    BY DEF EventTime, Immediate
  <2>3. queue.next \in EventId
    BY <2>1, MetaSchedulerAssumption
    DEF MetaInv, MetaTypes, Queue, EventId, MetaSchedulerAssumption
  <2>4. p \in ScheduleObject /\ p.id = queue.next
    BY <2>3 DEF ScheduleObject
  <2>5. \A e \in Made : e \in DOMAIN index' => e \in DOMAIN index /\ index'[e] = index[e]
    BY <2>1, <2>3 DEF Forgotten, Made, EventId
  <2>. HIDE DEF p
  <2>. QED  BY <1>1, <2>1, <2>2, <2>4, <2>5, AddingKeeps, Zenon
<1>. QED  BY <1>2, <1>3

LEMMA SubmitKeeps ==
  ASSUME MetaInv, UNCHANGED <<current, schedTime, now, subscribed>>,
         NEW s \in Schedules, NEW o \in ScheduleObject, o.id = object[s].id,
         Submit(s, o)
  PROVE  MetaInv' /\ OthersKept
  BY SubmitNewKeeps, SubmitAgainKeeps, SubmitInstantKeeps DEF Submit, SubmitAs, Schedules

\* The handlers of events.
LEMMA NextActivationType ==
  ASSUME now \in Nat, NEW o \in ScheduleObject
  PROVE  NextActivation(o) \in Nat
<1>1. o.time \in Int /\ o.cycle \in Int
  BY DEF ScheduleObject, Never
<1>2. CASE o.time # Never /\ o.cycle > 0
  <2>1. now % o.cycle \in Int
    BY <1>1, <1>2
  <2>2. o.cycle - (now % o.cycle) + o.time \in Int
    BY <1>1, <2>1
  <2>3. \A x \in Int, c \in Int : c > 0 => x % c \in Nat
    OBVIOUS
  <2>. QED  BY <1>1, <1>2, <2>2, <2>3 DEF NextActivation
<1>. QED  BY <1>2 DEF NextActivation

LEMMA ActivateKeeps ==
  ASSUME MetaInv, UNCHANGED <<current, schedTime, now, subscribed>>,
         NEW s \in Schedules, epActivate(s)
  PROVE  MetaInv' /\ OthersKept
<1> DEFINE o == [object[s] EXCEPT !.active = TRUE]
<1>1. /\ object[s] \in ScheduleObject /\ queue \in Queue
      /\ object \in [Schedules -> ScheduleObject]
      /\ schedTime \in Nat /\ now \in Nat
      /\ subscribed' \in [Event -> SUBSET EventHandler]
  BY DEF MetaInv, MetaTypes
<1>2. o \in ScheduleObject /\ o.id = object[s].id
  BY <1>1 DEF ScheduleObject
<1>3. object' = [object EXCEPT ![s] = o]
  BY <1>1 DEF epActivate
<1>4. index' = index /\ \A x \in off' : x \in off /\ x # s
  BY DEF epActivate
<1>5. \/ queue' = queue
      \/ s \in Periodic /\ o.id # None /\ Adjusts(queue, queue', o.id)
  <2>1. CASE s \in Periodic /\ o.id # None
    <3>1. object[s].id \in EventId
      BY <1>1, <1>2, <2>1 DEF ScheduleObject
    <3>2. queue' = SetEventSimulationTime(queue, object[s].id, NextActivation(object[s]))
      BY <2>1 DEF epActivate
    <3>3. NextActivation(object[s]) \in Nat
      BY <1>1, NextActivationType
    <3>. QED  BY <1>1, <1>2, <2>1, <3>1, <3>2, <3>3, TimeAdjusts
  <2>2. CASE ~ (s \in Periodic /\ o.id # None)
    BY <1>2, <2>2 DEF epActivate, SetEventSimulationTime, Known
  <2>. QED  BY <2>1, <2>2
<1>. HIDE DEF o
<1>. QED  BY <1>1, <1>2, <1>3, <1>4, <1>5, AdjustingKeeps

LEMMA DeactivateKeeps ==
  ASSUME MetaInv, UNCHANGED <<current, schedTime, now, subscribed>>,
         NEW s \in Schedules, epDeactivate(s)
  PROVE  MetaInv' /\ OthersKept
<1> DEFINE o == [object[s] EXCEPT !.active = s \in Periodic]
<1>1. /\ object[s] \in ScheduleObject /\ queue \in Queue
      /\ object \in [Schedules -> ScheduleObject]
      /\ schedTime \in Nat /\ now \in Nat
      /\ subscribed' \in [Event -> SUBSET EventHandler]
  BY DEF MetaInv, MetaTypes
<1>2. (s \in Periodic) \in BOOLEAN
  OBVIOUS
<1>3. o \in ScheduleObject /\ o.id = object[s].id
  BY <1>1, <1>2 DEF ScheduleObject
<1>4. object' = [object EXCEPT ![s] = o] /\ index' = index
  BY <1>1 DEF epDeactivate
<1>5. CASE s \in Periodic /\ Known(queue, object[s].id)
  <2>1. object[s].id \in EventId /\ object[s].id # None
    BY <1>1, <1>5 DEF ScheduleObject, Known
  <2>2. /\ queue' = SetEventSimulationTime(queue, object[s].id, Never)
        /\ off' = off \union {s}
    BY <1>5 DEF epDeactivate
  <2>3. /\ Adjusts(queue, queue', object[s].id)
        /\ queue'.event[object[s].id].time = Never
    BY <1>1, <1>5, <2>1, <2>2, TimeAdjusts DEF Absolute
  <2>4. \A x \in off' :
           \/ x \in off /\ x # s
           \/ x = s /\ s \in Periodic /\ o.id # None /\ queue'.event[o.id].time = Never
    BY <1>3, <1>5, <2>1, <2>2, <2>3
  <2>. HIDE DEF o
  <2>. QED  BY <1>1, <1>3, <1>4, <1>5, <2>1, <2>3, <2>4, AdjustingKeeps
<1>6. CASE ~ (s \in Periodic /\ Known(queue, object[s].id))
  <2>1. queue' = queue /\ off' = off
    BY <1>6 DEF epDeactivate, SetEventSimulationTime
  <2>2. \A x \in off' : \/ x \in off /\ x # s
                        \/ x \in off /\ queue'.event[o.id].time = queue.event[o.id].time
    BY <2>1
  <2>. HIDE DEF o
  <2>. QED  BY <1>1, <1>3, <1>4, <2>1, <2>2, AdjustingKeeps
<1>. QED  BY <1>5, <1>6

LEMMA NothingKeeps ==
  ASSUME MetaInv, UNCHANGED <<current, schedTime, now, queue, object, index, off>>,
         subscribed' \in [Event -> SUBSET EventHandler]
  PROVE  MetaInv' /\ OthersKept
  BY DEF MetaInv, MetaTypes, IdsAgree, ImmediateOnce, OffAsleep, OthersKept, Made

LEMMA EmitKeeps ==
  ASSUME MetaInv, UNCHANGED <<current, schedTime, now>>, NEW ev \in Event, Emit(ev)
  PROVE  MetaInv' /\ OthersKept
<1>1. subscribed' = subscribed /\ subscribed[ev] \subseteq EventHandler
  BY DEF Emit, MetaInv, MetaTypes
<1>2. ASSUME NEW h \in subscribed[ev], Handle(h)  PROVE MetaInv' /\ OthersKept
  <2>1. /\ h.schedule \in Schedules /\ h.cycle \in Int
        /\ h.kind = "change" => h.schedule \in Periodic
    BY <1>1 DEF EventHandler
  <2>2. CASE epChange(h.schedule, h.cycle, h.delay) /\ h.schedule \in Periodic
    <3>1. object[h.schedule] \in ScheduleObject
      BY <2>1 DEF MetaInv, MetaTypes
    <3>2. /\ WithCycle(object[h.schedule], h.cycle) \in ScheduleObject
          /\ WithCycle(object[h.schedule], h.cycle).id = object[h.schedule].id
      BY <2>1, <3>1 DEF WithCycle, Changed, ScheduleObject
    <3>. QED  BY <1>1, <2>1, <2>2, <3>2, SubmitKeeps, NothingKeeps
              DEF epChange, Submit, MetaInv, MetaTypes
  <2>. QED  BY <1>1, <1>2, <2>1, <2>2, ActivateKeeps, DeactivateKeeps DEF Handle
<1>3. CASE UNCHANGED <<queue, object, index, off>>
  BY <1>1, <1>3, NothingKeeps DEF MetaInv, MetaTypes
<1>. QED  BY <1>2, <1>3 DEF Emit

LEMMA CallKeeps ==
  ASSUME MetaInv, UNCHANGED <<current, schedTime, now>>, Call
  PROVE  MetaInv' /\ OthersKept
<1>1. ASSUME NEW s \in Schedules, NEW o \in Settings(s), UNCHANGED subscribed,
             \/ object' = [object EXCEPT ![s] = o] /\ UNCHANGED <<queue, index, off>>
             \/ Submit(s, o)
      PROVE  MetaInv' /\ OthersKept
  <2>1. o \in ScheduleObject /\ o.id = object[s].id
    BY SettingsKeepId
  <2>2. CASE object' = [object EXCEPT ![s] = o] /\ UNCHANGED <<queue, index, off>>
    BY <1>1, <2>1, <2>2, AdjustingKeeps DEF MetaInv, MetaTypes
  <2>. QED  BY <1>1, <2>1, <2>2, SubmitKeeps
<1>2. ASSUME NEW s \in Schedules, NEW ev \in Event, Subscribe(s, ev) \/ Unsubscribe(s, ev)
      PROVE  MetaInv' /\ OthersKept
  <2>1. subscribed \in [Event -> SUBSET EventHandler]
    BY DEF MetaInv, MetaTypes
  <2>2. \A kind \in {"activate", "deactivate"} : Handler(kind, s, 0, 0) \in EventHandler
    BY DEF Handler, EventHandler
  <2>3. \A c \in CycleTimes, d \in Delays :
          s \in Periodic => Handler("change", s, c, d) \in EventHandler
    BY MetaSchedulerAssumption DEF Handler, EventHandler, MetaSchedulerAssumption
  <2>4. subscribed' \in [Event -> SUBSET EventHandler]
    BY <1>2, <2>1, <2>2, <2>3 DEF Subscribe, Unsubscribe
  <2>. QED  BY <1>2, <2>4, NothingKeeps DEF Subscribe, Unsubscribe
<1>. QED  BY <1>1, <1>2, EmitKeeps DEF Call

-----------------------------------------------------------------------------
(***************************************************************************)
(* The invariant that the theorems start from.                             *)
(***************************************************************************)
LoopTypes ==
  /\ installed \in Installations
  /\ state \in {"Initialising", "Standby", "Executing", "Exiting"}
  /\ field \in [Tracker -> Values]
  /\ tracker \in [Tracker -> [out : Values, changed : BOOLEAN]]
  /\ announced \in BOOLEAN

\* Where the thread of the scheduler is, and what is under way.
LoopInv ==
  /\ pc # "run" => current = None /\ step = "no"
  /\ pc = "run" => current \in Made
  /\ pc \notin {"preExec", "run"} => emitting = <<>>
  /\ pc \in {"change", "preExec", "select"} => state = "Executing"
  /\ pc = "exited" => state # "Executing"
  /\ state \in {"Initialising", "Exiting"} => pc = "exited"

BaseInv == MetaInv /\ LoopTypes /\ LoopInv

\* The queue that components have filled in connect, without a recorder.
Fresh(q, n) ==
  /\ q \in Queue /\ q.next <= n /\ q.waiting = 0 .. q.next - 1
  /\ \A e \in 0 .. q.next - 1 :
       q.event[e].job \in {"model", "evaluate", "step"} /\ q.event[e].time = 0

LEMMA FreshEmpty == Fresh(Empty, 0)
<1>1. NoEvent \in EventRecord
  BY DEF NoEvent, EventRecord, EventTime, OtherJob, Never, Immediate
<1>. QED  BY <1>1, MetaSchedulerAssumption
          DEF Empty, Fresh, Queue, MetaSchedulerAssumption

LEMMA FreshAdded ==
  ASSUME NEW q, NEW n \in 0 .. 3, Fresh(q, n), NEW job \in {"model", "evaluate", "step"}
  PROVE  Fresh(Added(q, job, 0, 1, -1), n + 1)
<1>1. q \in Queue /\ q.next \in Nat /\ q.next < MaxEvents
  BY ColibryAssumption, MetaSchedulerAssumption
  DEF Fresh, Queue, ColibryAssumption, MetaSchedulerAssumption
<1>2. job \in Schedules \union OtherJob /\ 0 \in EventTime /\ 1 \in Int /\ -1 \in Int
  BY DEF OtherJob, EventTime, Immediate
<1> DEFINE r == Added(q, job, 0, 1, -1)
<1>3. /\ r \in Queue /\ q.next \in EventId
      /\ r.next = q.next + 1 /\ r.waiting = q.waiting \union {q.next}
      /\ \A x \in EventId : x # q.next => r.event[x] = q.event[x]
      /\ r.event[q.next] = [time |-> 0, period |-> 1, repeat |-> -1,
                            completed |-> FALSE, job |-> job]
  BY <1>1, <1>2, AddedIs
<1>. HIDE DEF r
<1>4. 0 .. r.next - 1 = (0 .. q.next - 1) \union {q.next}
  BY <1>1, <1>3
<1>5. 0 .. q.next - 1 \subseteq EventId /\ q.next \notin 0 .. q.next - 1
  BY <1>1, <1>3, MetaSchedulerAssumption DEF EventId, MetaSchedulerAssumption
<1>6. r.next <= n + 1
  BY <1>1, <1>3 DEF Fresh
<1>7. ASSUME NEW e \in 0 .. r.next - 1
      PROVE  r.event[e].job \in {"model", "evaluate", "step"} /\ r.event[e].time = 0
  <2>1. CASE e = q.next
    BY <1>3, <2>1
  <2>2. CASE e \in 0 .. q.next - 1
    <3>1. r.event[e] = q.event[e]
      BY <1>3, <1>5, <2>2
    <3>. QED  BY <2>2, <3>1 DEF Fresh
  <2>. QED  BY <1>4, <2>1, <2>2
<1>8. r.waiting = 0 .. r.next - 1
  BY <1>3, <1>4 DEF Fresh
<1>. QED  BY <1>3, <1>6, <1>7, <1>8 DEF Fresh, r

\* The events of the components when the simulation is made.
LEMMA ConnectedIs ==
  ASSUME NEW services
  PROVE  \E q : /\ Fresh(q, 3)
                /\ Connected(services) = IF "recorder" \in services
                                         THEN Added(q, "record", 0, RecordPeriod, -1) ELSE q
<1> DEFINE model   == Added(Empty, "model", 0, 1, -1)
           trigger == IF "trigger" \in services /\ TriggerAt = "event"
                      THEN Added(model, "evaluate", 0, 1, -1) ELSE model
           pace    == IF "synchronizer" \in services
                      THEN Added(trigger, "step", 0, 1, -1) ELSE trigger
<1>1. ASSUME NEW q, NEW n \in 0 .. 3, Fresh(q, n)  PROVE Fresh(q, n + 1)
  BY <1>1 DEF Fresh, Queue
<1>2. Fresh(model, 1)
  BY FreshEmpty, FreshAdded
<1>. HIDE DEF model
<1>3. Fresh(trigger, 2)
  BY <1>1, <1>2, FreshAdded
<1>. HIDE DEF trigger
<1>4. Fresh(pace, 3)
  BY <1>1, <1>3, FreshAdded
<1>5. Connected(services) = IF "recorder" \in services
                            THEN Added(pace, "record", 0, RecordPeriod, -1) ELSE pace
  BY DEF Connected, model, trigger
<1>. HIDE DEF pace
<1>. QED  BY <1>4, <1>5

LEMMA RecordAdded ==
  ASSUME NEW q, Fresh(q, 3)
  PROVE  LET r == Added(q, "record", 0, RecordPeriod, -1)
         IN /\ r \in Queue /\ r.next = q.next + 1
            /\ q.next \in Nat /\ r.waiting = 0 .. q.next
            /\ \A e \in 0 .. q.next - 1 : r.event[e] = q.event[e]
            /\ r.event[q.next] = [time |-> 0, period |-> RecordPeriod, repeat |-> -1,
                                  completed |-> FALSE, job |-> "record"]
<1>1. q \in Queue /\ q.next \in Nat /\ q.next < MaxEvents
  BY ColibryAssumption, MetaSchedulerAssumption
  DEF Fresh, Queue, ColibryAssumption, MetaSchedulerAssumption
<1>2. /\ "record" \in Schedules \union OtherJob /\ 0 \in EventTime
      /\ RecordPeriod \in Int /\ -1 \in Int
  BY DEF OtherJob, EventTime, Immediate, RecordPeriod
<1> DEFINE r == Added(q, "record", 0, RecordPeriod, -1)
<1>3. /\ r \in Queue /\ q.next \in EventId
      /\ r.next = q.next + 1 /\ r.waiting = q.waiting \union {q.next}
      /\ \A x \in EventId : x # q.next => r.event[x] = q.event[x]
      /\ r.event[q.next] = [time |-> 0, period |-> RecordPeriod, repeat |-> -1,
                            completed |-> FALSE, job |-> "record"]
  BY <1>1, <1>2, AddedIs
<1>. HIDE DEF r
<1>4. r.waiting = 0 .. q.next
  BY <1>1, <1>3 DEF Fresh
<1>5. 0 .. q.next - 1 \subseteq EventId /\ q.next \notin 0 .. q.next - 1
  BY <1>1, <1>3, MetaSchedulerAssumption DEF EventId, MetaSchedulerAssumption
<1>. QED  BY <1>1, <1>3, <1>4, <1>5 DEF r

LEMMA BaseInit == Init => BaseInv
<1>. SUFFICES ASSUME Init PROVE BaseInv
  OBVIOUS
<1>1. /\ queue = Connected(installed) /\ current = None /\ schedTime = 0 /\ now = 0
      /\ object = [s \in Schedules |-> IF s \in Periodic THEN Assembled[s] ELSE NewObject]
      /\ subscribed \in Subscriptions /\ off = {}
  BY DEF Init, MetaInit
<1>2. /\ queue \in Queue /\ queue.waiting \subseteq Made
      /\ \A e \in Made : queue.event[e].job \in OtherJob /\ queue.event[e].time = 0
  <2>1. PICK q : /\ Fresh(q, 3)
                 /\ queue = IF "recorder" \in installed
                            THEN Added(q, "record", 0, RecordPeriod, -1) ELSE q
    BY <1>1, ConnectedIs
  <2>2. CASE queue = q
    BY <2>1, <2>2 DEF Fresh, Made, OtherJob
  <2>3. CASE queue = Added(q, "record", 0, RecordPeriod, -1)
    <3>1. Made = (0 .. q.next - 1) \union {q.next} /\ Made = 0 .. q.next
      BY <2>1, <2>3, RecordAdded DEF Made
    <3>. QED  BY <2>1, <2>3, <3>1, RecordAdded DEF Fresh, OtherJob
  <2>. QED  BY <2>1, <2>2, <2>3
<1>3. object \in [Schedules -> ScheduleObject] /\ \A s \in Schedules : object[s].id = None
  <2>1. NewObject \in ScheduleObject /\ NewObject.id = None
    BY DEF NewObject, NewSchedule, ScheduleObject
  <2>. QED  BY <1>1, <2>1, AssemblyAssumption DEF AssemblyAssumption
<1>4. MetaInv
  <2>1. MetaTypes
    BY <1>1, <1>2, <1>3, AssemblyAssumption DEF MetaTypes, AssemblyAssumption
  <2>2. \A e \in Made : queue.event[e].job \notin Periodic
    BY <1>2, ColibryAssumption DEF ColibryAssumption, Schedules
  <2>3. IdsAgree
    BY <1>3, <2>2 DEF IdsAgree
  <2>4. ImmediateOnce
    BY <1>2 DEF ImmediateOnce, Immediate
  <2>5. OffAsleep
    BY <1>1 DEF OffAsleep
  <2>. QED  BY <2>1, <2>3, <2>4, <2>5 DEF MetaInv
<1>5. LoopTypes
  BY ColibryAssumption DEF Init, LoopTypes, ColibryAssumption
<1>6. LoopInv
  BY <1>1 DEF Init, LoopInv, SyncInit
<1>. QED  BY <1>4, <1>5, <1>6 DEF BaseInv

-----------------------------------------------------------------------------
(***************************************************************************)
(* What the loop and the simulator do with the queue.                      *)
(***************************************************************************)

\* The start and stop events of the simulator.
LEMMA ImmediateAdded ==
  ASSUME MetaInv, UNCHANGED <<current, object, subscribed, off, now>>,
         schedTime' \in Nat, schedTime' <= now, queue.next < MaxEvents,
         NEW job \in {"start", "stop"}, queue' = Added(queue, job, Immediate, 0, 0)
  PROVE  /\ MetaInv'
         /\ queue.next \notin Made /\ Made' = Made \union {queue.next}
         /\ queue'.waiting = queue.waiting \union {queue.next}
         /\ \A e \in Made : queue'.event[e] = queue.event[e]
         /\ queue'.event[queue.next].time = Immediate
         /\ queue'.event[queue.next].job = job
<1>1. /\ Immediate \in EventTime /\ 0 \in Int
      /\ job \in Schedules \union OtherJob /\ job \in OtherJob
  BY DEF EventTime, Immediate, OtherJob
<1>2. /\ queue' \in Queue /\ queue.next \in EventId
      /\ queue'.next = queue.next + 1 /\ queue'.waiting = queue.waiting \union {queue.next}
      /\ \A x \in EventId : x # queue.next => queue'.event[x] = queue.event[x]
      /\ queue'.event[queue.next] = [time |-> Immediate, period |-> 0, repeat |-> 0,
                                     completed |-> FALSE, job |-> job]
  <2>1. queue \in Queue
    BY DEF MetaInv, MetaTypes
  <2>. QED  BY <1>1, <2>1, AddedIs
<1>3. /\ Made' = Made \union {queue.next} /\ queue.next \notin Made
      /\ Made \subseteq EventId
      /\ \A e \in Made : queue'.event[e] = queue.event[e]
  BY <1>2, MadeIsEventId DEF Made, MetaInv, EventId
<1>4. job \notin Periodic
  BY <1>1, ColibryAssumption DEF ColibryAssumption, Schedules
<1>5. MetaTypes'
  BY <1>2, <1>3 DEF MetaInv, MetaTypes
<1>6. IdsAgree'
  BY <1>2, <1>3, <1>4 DEF MetaInv, IdsAgree
<1>7. ImmediateOnce'
  BY <1>2, <1>3 DEF MetaInv, ImmediateOnce
<1>8. OffAsleep'
  <2>1. \A s \in off : object[s].id \in Made
    BY DEF MetaInv, OffAsleep, IdsAgree, Schedules
  <2>. QED  BY <1>3, <2>1 DEF MetaInv, OffAsleep
<1>. QED  BY <1>2, <1>3, <1>5, <1>6, <1>7, <1>8 DEF MetaInv

\* The event that is taken from the queue.
LEMMA TakenIs ==
  ASSUME MetaInv, NEW e \in queue.waiting,
         queue.event[e].time # Never, queue.event[e].time <= now,
         queue' = Updated([queue EXCEPT !.waiting = @ \ {e}], e)
  PROVE  /\ queue' \in Queue /\ queue'.next = queue.next /\ Made' = Made /\ e \in Made
         /\ queue'.waiting \subseteq queue.waiting
         /\ queue.waiting \ {e} \subseteq queue'.waiting
         /\ \A x \in Made : x # e => queue'.event[x] = queue.event[x]
         /\ queue'.event[e].job = queue.event[e].job
         /\ queue'.event[e].period = queue.event[e].period
         /\ IF queue.event[e].repeat # 0 /\ queue.event[e].period > 0
            THEN /\ queue'.event[e].time = queue.event[e].time + queue.event[e].period
                 /\ e \in queue'.waiting
            ELSE queue'.event[e].time = queue.event[e].time
         /\ queue.event[e].repeat = -1 =>
              queue'.event[e].repeat = -1 /\ ~ queue'.event[e].completed
<1>1. /\ queue \in Queue /\ e \in Made /\ e \in EventId /\ Made \subseteq EventId
      /\ queue.event[e] \in EventRecord
  BY MadeIsEventId DEF MetaInv, MetaTypes, Queue
<1> DEFINE r    == queue.event[e]
           rest == [queue EXCEPT !.waiting = @ \ {e}]
           done == r.repeat = 0
           rec  == [r EXCEPT !.completed = done, !.repeat = IF @ > 0 THEN @ - 1 ELSE @]
           left == [rest EXCEPT !.event[e] = rec]
           put  == SetTime(left, e, r.time + r.period)
<1>2. /\ rec \in EventRecord
      /\ rec.job = r.job /\ rec.period = r.period /\ rec.time = r.time
      /\ r.repeat = -1 => rec.repeat = -1 /\ ~rec.completed
  <2> DEFINE one == [r EXCEPT !.completed = done]
             n == IF r.repeat > 0 THEN r.repeat - 1 ELSE r.repeat
  <2>1. done \in BOOLEAN /\ (r.repeat = -1 => ~done) /\ n \in Int /\ (r.repeat = -1 => n = -1)
    BY <1>1 DEF EventRecord
  <2>2. one = [time |-> r.time, period |-> r.period, repeat |-> r.repeat,
               completed |-> done, job |-> r.job]
    <3>. HIDE DEF done
    <3>. QED  BY <1>1 DEF EventRecord
  <2>3. rec = [one EXCEPT !.repeat = n]
    OBVIOUS
  <2>4. r.time \in EventTime /\ r.period \in Int /\ r.job \in Schedules \union OtherJob
    BY <1>1 DEF EventRecord
  <2>. HIDE DEF done, n, one, r, rec
  <2>5. rec = [time |-> r.time, period |-> r.period, repeat |-> n,
               completed |-> done, job |-> r.job]
    BY <2>2, <2>3
  <2>. QED  BY <2>1, <2>4, <2>5 DEF EventRecord
<1>3. /\ rest \in Queue /\ rest.event = queue.event /\ rest.next = queue.next
      /\ rest.waiting = queue.waiting \ {e}
  BY <1>1 DEF Queue
<1>4. queue' = IF ~ done /\ r.period > 0 THEN put ELSE left
  BY <1>3 DEF Updated
<1>. HIDE DEF rest, rec
<1>5. /\ left \in Queue /\ left.next = queue.next /\ left.waiting = queue.waiting \ {e}
      /\ left.event[e] = rec
      /\ \A x \in EventId : x # e => left.event[x] = queue.event[x]
  BY <1>1, <1>2, <1>3 DEF Queue
<1>. HIDE DEF left
<1>6. ASSUME ~ done, r.period > 0  PROVE r.time + r.period \in Nat
  BY <1>1, <1>6 DEF MetaInv, ImmediateOnce, EventRecord, EventTime, Immediate, Never
<1>7. ASSUME ~ done, r.period > 0
      PROVE  /\ Adjusts(left, put, e)
             /\ put.event[e].time = r.time + r.period
             /\ e \in put.waiting
  <2>1. r.time + r.period \in Nat \union {Never}
    BY <1>6, <1>7
  <2>2. e \in put.waiting
    BY <1>5 DEF SetTime, Queue
  <2>. QED  BY <1>1, <1>5, <2>1, <2>2, SetTimeAdjusts
<1>8. ASSUME ~ done, r.period > 0
      PROVE  /\ put.event[e].period = rec.period
             /\ put.event[e].repeat = rec.repeat
             /\ put.event[e].completed = rec.completed
  BY <1>1, <1>2, <1>5 DEF SetTime, Queue, EventRecord
<1>. HIDE DEF put
<1>9. CASE ~ done /\ r.period > 0
  <2>1. queue' = put
    BY <1>4, <1>9
  <2>2. Made' = Made
    BY <1>5, <1>7, <1>9, <2>1 DEF Adjusts, Made
  <2>. QED  BY <1>1, <1>2, <1>5, <1>7, <1>8, <1>9, <2>1, <2>2 DEF Adjusts
<1>10. CASE ~ (~ done /\ r.period > 0)
  <2>1. queue' = left
    BY <1>4, <1>10
  <2>2. Made' = Made
    BY <1>5, <2>1 DEF Made
  <2>. QED  BY <1>1, <1>2, <1>5, <1>10, <2>1, <2>2
<1>. QED  BY <1>9, <1>10

\* What is left of the events of components by a step that takes none.
QueueKept ==
  /\ Made \subseteq Made' /\ queue.waiting \subseteq queue'.waiting
  /\ \A e \in Made' : e \in Made \/ queue'.event[e].job # "record"
  /\ \A e \in Made :
       /\ queue'.event[e].job = queue.event[e].job
       /\ queue.event[e].job \notin Periodic /\ queue.event[e].period # -1 =>
            queue'.event[e] = queue.event[e]

LEMMA SameQueueKept == ASSUME UNCHANGED queue  PROVE QueueKept
  BY DEF QueueKept, Made

LEMMA OthersAreKept == ASSUME OthersKept  PROVE QueueKept
  BY ColibryAssumption DEF OthersKept, QueueKept, ColibryAssumption, OtherJob

LEMMA StillMeta ==
  ASSUME MetaInv, UNCHANGED <<queue, object, off, subscribed>>,
         current' \in Made \union {None},
         schedTime' \in Nat, now' \in Nat, schedTime' <= now'
  PROVE  MetaInv' /\ QueueKept
  BY SameQueueKept DEF MetaInv, MetaTypes, IdsAgree, ImmediateOnce, OffAsleep, Made

\* The start of the simulation, or a hold.
LEMMA ImmediateKept ==
  ASSUME MetaInv, UNCHANGED <<current, object, subscribed, off, now>>,
         schedTime' \in Nat, schedTime' <= now, queue.next < MaxEvents,
         NEW job \in {"start", "stop"}, queue' = Added(queue, job, Immediate, 0, 0)
  PROVE  MetaInv' /\ QueueKept
  BY ImmediateAdded DEF QueueKept

LEMMA EvaluatedType ==
  ASSUME LoopTypes, NEW t \in Tracker
  PROVE  /\ Evaluated(t) \in [Tracker -> [out : Values, changed : BOOLEAN]]
         /\ Evaluated(t)[t] = [out |-> field[t], changed |-> field[t] # tracker[t].out]
         /\ \A x \in Tracker : x # t => Evaluated(t)[x] = tracker[x]
<1>1. /\ field[t] \in Values /\ (field[t] # tracker[t].out) \in BOOLEAN
      /\ tracker \in [Tracker -> [out : Values, changed : BOOLEAN]]
  BY DEF LoopTypes
<1>. QED  BY <1>1 DEF Evaluated

-----------------------------------------------------------------------------
(***************************************************************************)
(* Every step keeps the invariant.                                         *)
(***************************************************************************)
LEMMA EdgesKeep ==
  ASSUME BaseInv, Initialise \/ ExitSimulation \/ Exit \/ Synchronize
  PROVE  BaseInv' /\ QueueKept
<1>1. UNCHANGED metaVars
  BY DEF Initialise, ExitSimulation, Exit, Synchronize
<1>2. MetaInv' /\ QueueKept
  BY <1>1, StillMeta DEF metaVars, BaseInv, MetaInv, MetaTypes
<1>3. LoopTypes' /\ LoopInv'
  <2>1. CASE Initialise
    BY <2>1 DEF Initialise, BaseInv, LoopTypes, LoopInv, metaVars, trackerVars, syncVars, Made
  <2>2. CASE ExitSimulation
    BY <2>2 DEF ExitSimulation, BaseInv, LoopTypes, LoopInv, metaVars, trackerVars, syncVars, Made
  <2>3. CASE Exit
    BY <2>3 DEF Exit, BaseInv, LoopTypes, LoopInv, metaVars, trackerVars, syncVars, loopRest, Made
  <2>4. CASE Synchronize
    <3>1. step # "no" \/ step' = "no"
      BY <2>4 DEF Synchronize, SyncStep, Tick, epInitReads, epInitSets, epInitReturns,
                  epStepReads, epStepWakes, epStepReturns
    <3>. QED  BY <2>4, <3>1 DEF Synchronize, BaseInv, LoopTypes, LoopInv, metaVars,
                                trackerVars, loopRest, Made
  <2>. QED  BY <2>1, <2>2, <2>3, <2>4
<1>. QED  BY <1>2, <1>3 DEF BaseInv

LEMMA RunKeeps ==
  ASSUME BaseInv, Run
  PROVE  BaseInv' /\ QueueKept
<1>1. MetaInv' /\ QueueKept
  BY ImmediateKept DEF Run, quietMeta, BaseInv, MetaInv, MetaTypes
<1>2. step' = step
  BY DEF Run, EnterExecuting, syncVars
<1>3. LoopTypes' /\ LoopInv'
  BY <1>2 DEF Run, BaseInv, LoopTypes, LoopInv, trackerVars, loopRest
<1>. QED  BY <1>1, <1>3 DEF BaseInv

LEMMA UpdateTimeKeeps ==
  ASSUME BaseInv, UpdateTime
  PROVE  BaseInv' /\ QueueKept
<1>1. PICK t : /\ NextTimeIs(t)
               /\ now' = IF t > now THEN t ELSE now
               /\ pc' = IF t > now THEN "change" ELSE IF t = now THEN "preExec" ELSE "dead"
  BY DEF UpdateTime
<1>2. t \in Int
  BY <1>1 DEF NextTimeIs, IsHead, BaseInv, MetaInv, MetaTypes, Queue, EventRecord, EventTime
<1>3. MetaInv' /\ QueueKept
  BY <1>1, <1>2, StillMeta DEF UpdateTime, quietMeta, BaseInv, MetaInv, MetaTypes
<1>4. LoopTypes' /\ LoopInv'
  BY <1>1 DEF UpdateTime, BaseInv, LoopTypes, LoopInv, trackerVars, syncVars, loopRest
<1>. QED  BY <1>3, <1>4 DEF BaseInv

LEMMA ChangeTimeKeeps ==
  ASSUME BaseInv, ChangeTime
  PROVE  BaseInv' /\ QueueKept
<1>1. UNCHANGED <<current, schedTime, now, object, index, notified, subscribed, off>>
  BY DEF ChangeTime, quietMeta
<1>2. ASSUME UNCHANGED queue  PROVE MetaInv' /\ QueueKept
  BY <1>1, <1>2, StillMeta DEF BaseInv, MetaInv, MetaTypes
<1>3. ASSUME queue.next < MaxEvents, queue' = Hold  PROVE MetaInv' /\ QueueKept
  BY <1>1, <1>3, ImmediateKept DEF Hold, BaseInv, MetaInv, MetaTypes
<1>4. MetaInv' /\ QueueKept
  BY <1>2, <1>3 DEF ChangeTime, EvaluateControl
<1>5. tracker' \in [Tracker -> [out : Values, changed : BOOLEAN]]
  BY EvaluatedType DEF ChangeTime, EvaluateControl, EvaluateTrigger, BaseInv, LoopTypes, Tracker
<1>6. LoopTypes' /\ LoopInv'
  BY <1>5 DEF ChangeTime, BaseInv, LoopTypes, LoopInv, syncVars, loopRest
<1>. QED  BY <1>4, <1>6 DEF BaseInv

LEMMA EmitNextKeeps ==
  ASSUME BaseInv, EmitNext
  PROVE  BaseInv' /\ OthersKept /\ pc \in {"preExec", "run"}
<1>1. MetaInv' /\ OthersKept
  <2>1. UNCHANGED <<current, schedTime, now>>
    BY DEF EmitNext
  <2>2. \A c \in DOMAIN Emitted : Emitted[c] \in Event
    BY ColibryAssumption DEF ColibryAssumption
  <2>3. CASE \E ev \in Event : Emit(ev)
    BY <2>1, <2>3, EmitKeeps DEF BaseInv
  <2>4. CASE UNCHANGED <<queue, object, index, subscribed, off, phase>>
    BY <2>1, <2>4, NothingKeeps DEF BaseInv, MetaInv, MetaTypes
  <2>. QED  BY <2>2, <2>3, <2>4 DEF EmitNext
<1>2. pc \in {"preExec", "run"}
  BY DEF EmitNext, BaseInv, LoopInv
<1>3. announced' \in BOOLEAN
  BY DEF EmitNext, BaseInv, LoopTypes
<1>4. LoopTypes' /\ LoopInv'
  BY <1>1, <1>2, <1>3 DEF EmitNext, BaseInv, LoopTypes, LoopInv, syncVars, OthersKept
<1>. QED  BY <1>1, <1>2, <1>4 DEF BaseInv

LEMMA PreExecKeeps ==
  ASSUME BaseInv, PreExec
  PROVE  BaseInv' /\ QueueKept
<1>1. MetaInv' /\ QueueKept
  BY StillMeta DEF PreExec, BaseInv, MetaInv, MetaTypes
<1>2. LoopTypes' /\ LoopInv'
  BY DEF PreExec, BaseInv, LoopTypes, LoopInv, trackerVars, syncVars, loopRest
<1>. QED  BY <1>1, <1>2 DEF BaseInv

\* What the step does that takes the event e from the queue.
Taking(e) ==
  /\ IsHead(queue, e) /\ queue.event[e].time # Never /\ queue.event[e].time <= now
  /\ current' = e /\ pc' = "run"
  /\ queue' = Updated([queue EXCEPT !.waiting = @ \ {e}], e)
  /\ state' = IF queue.event[e].job = "stop" THEN "Standby" ELSE state
  /\ IF queue.event[e].job = "evaluate" THEN EvaluateTrigger ELSE UNCHANGED <<tracker, emitting>>
  /\ IF queue.event[e].job = "step" THEN epStepCalled ELSE UNCHANGED syncVars
  /\ CASE queue.event[e].job = "record" -> Record(schedTime')
       [] queue.event[e].job = "stop"   -> LeaveExecuting
       [] OTHER                         -> UNCHANGED recorderVars

\* The step that finds that the first event is not due.
Waiting ==
  /\ \E e : IsHead(queue, e) /\ ~ (queue.event[e].time # Never /\ queue.event[e].time <= now)
  /\ pc' = "step"
  /\ UNCHANGED <<queue, current, syncVars, tracker, emitting, state, recorderVars>>

ExecuteRest ==
  /\ pc = "select" /\ schedTime' = now
  /\ holdAt' = IF state' = "Standby" THEN None ELSE holdAt
  /\ UNCHANGED <<now, quietMeta, field, announced, runs, installed, calls>>

LEMMA ExecuteIs ==
  Execute => ExecuteRest /\ (Waiting \/ \E e \in queue.waiting : Taking(e))
<1>. SUFFICES ASSUME Execute PROVE ExecuteRest /\ (Waiting \/ \E e \in queue.waiting : Taking(e))
  OBVIOUS
<1>1. ExecuteRest
  BY DEF Execute, ExecuteRest
<1>2. Waiting \/ \E e \in queue.waiting : Taking(e)
  BY Zenon DEF Execute, Waiting, Taking, IsHead
<1>. QED  BY <1>1, <1>2

LEMMA TakingKeeps ==
  ASSUME BaseInv, ExecuteRest, NEW e \in queue.waiting, Taking(e)
  PROVE  BaseInv'
<1>1. /\ queue' \in Queue /\ queue'.next = queue.next /\ Made' = Made /\ e \in Made
      /\ queue'.waiting \subseteq queue.waiting
      /\ \A x \in Made : x # e => queue'.event[x] = queue.event[x]
      /\ queue'.event[e].job = queue.event[e].job
      /\ queue'.event[e].period = queue.event[e].period
      /\ IF queue.event[e].repeat # 0 /\ queue.event[e].period > 0
         THEN queue'.event[e].time = queue.event[e].time + queue.event[e].period
         ELSE queue'.event[e].time = queue.event[e].time
  BY TakenIs DEF Taking, BaseInv
<1>2. UNCHANGED <<object, off, subscribed, now>> /\ schedTime' = now /\ current' = e
  BY DEF ExecuteRest, quietMeta, Taking
<1>3. queue.event[e] \in EventRecord
  BY <1>1, MadeIsEventId DEF BaseInv, MetaInv, MetaTypes, Queue
<1>4. /\ queue.event[e].time \in Int /\ queue.event[e].period \in Int
      /\ queue.event[e].time # Never /\ queue.event[e].time >= Immediate
  BY <1>3 DEF EventRecord, EventTime, Taking
<1>5. MetaTypes'
  BY <1>1, <1>2 DEF BaseInv, MetaInv, MetaTypes
<1>6. /\ queue'.event[e].time = Immediate => queue.event[e].time = Immediate
      /\ queue.event[e].time = Immediate => queue'.event[e].time = Immediate
  BY <1>1, <1>4 DEF BaseInv, MetaInv, ImmediateOnce, Immediate, Never
<1>7. IdsAgree'
  <2>1. \A x \in Made : queue'.event[x].job = queue.event[x].job
    BY <1>1
  <2>2. \A x \in Made : queue'.event[x].time = Immediate => queue.event[x].time = Immediate
    BY <1>1, <1>6
  <2>. QED  BY <1>1, <1>2, <2>1, <2>2 DEF BaseInv, MetaInv, IdsAgree
<1>8. ImmediateOnce'
  BY <1>1, <1>6 DEF BaseInv, MetaInv, ImmediateOnce
<1>9. OffAsleep'
  <2>1. \A s \in off : object[s].id \in Made /\ object[s].id # e
    BY <1>4 DEF BaseInv, MetaInv, OffAsleep, IdsAgree, Schedules
  <2>. QED  BY <1>1, <1>2, <2>1 DEF BaseInv, MetaInv, OffAsleep
<1>10. LoopTypes'
  BY EvaluatedType DEF Taking, ExecuteRest, EvaluateTrigger, BaseInv, LoopTypes, Tracker
<1>11. LoopInv'
  BY <1>1, <1>2 DEF Taking, ExecuteRest, BaseInv, LoopInv
<1>. QED  BY <1>5, <1>7, <1>8, <1>9, <1>10, <1>11 DEF BaseInv, MetaInv

LEMMA WaitingKeeps ==
  ASSUME BaseInv, ExecuteRest, Waiting
  PROVE  BaseInv' /\ QueueKept
<1>1. MetaInv' /\ QueueKept
  BY StillMeta DEF ExecuteRest, Waiting, quietMeta, BaseInv, MetaInv, MetaTypes
<1>2. LoopTypes' /\ LoopInv'
  BY DEF ExecuteRest, Waiting, BaseInv, LoopTypes, LoopInv, syncVars
<1>. QED  BY <1>1, <1>2 DEF BaseInv

LEMMA FinishKeeps ==
  ASSUME BaseInv, Finish
  PROVE  BaseInv' /\ QueueKept
<1>1. /\ current \in Made /\ current \in EventId /\ Made \subseteq EventId /\ queue \in Queue
      /\ pc' # "run" /\ current' = None /\ schedTime' = now
      /\ UNCHANGED <<object, off, subscribed, now>>
  BY MadeIsEventId DEF Finish, BaseInv, LoopInv, MetaInv, MetaTypes
<1>2. ASSUME UNCHANGED queue  PROVE MetaInv' /\ QueueKept
  BY <1>1, <1>2, StillMeta DEF BaseInv, MetaInv, MetaTypes
<1>3. ASSUME queue.event[current].period = -1, queue' = SetTime(queue, current, Never)
      PROVE  MetaInv' /\ QueueKept
  <2>1. Adjusts(queue, queue', current) /\ queue'.event[current].time = Never
    BY <1>1, <1>3, SetTimeAdjusts
  <2>2. /\ Made' = Made /\ \A x \in Made : queue'.event[x].job = queue.event[x].job
        /\ \A x \in Made : x # current => queue'.event[x] = queue.event[x]
    BY <1>1, <2>1 DEF Adjusts, Made
  <2>3. MetaTypes'
    BY <1>1, <2>1, <2>2 DEF Adjusts, BaseInv, MetaInv, MetaTypes
  <2>4. IdsAgree'
    BY <1>1, <2>1, <2>2 DEF BaseInv, MetaInv, IdsAgree, Never, Immediate
  <2>5. ImmediateOnce'
    BY <2>1, <2>2 DEF BaseInv, MetaInv, ImmediateOnce, Never, Immediate
  <2>6. OffAsleep'
    <3>1. \A s \in off : object[s].id \in Made
      BY DEF BaseInv, MetaInv, OffAsleep, IdsAgree, Schedules
    <3>. QED  BY <1>1, <2>1, <2>2, <3>1 DEF BaseInv, MetaInv, OffAsleep
  <2>7. QueueKept
    BY <1>3, <2>1, <2>2 DEF Adjusts, QueueKept
  <2>. QED  BY <2>3, <2>4, <2>5, <2>6, <2>7 DEF MetaInv
<1>4. MetaInv' /\ QueueKept
  BY <1>2, <1>3 DEF Finish
<1>5. LoopTypes' /\ LoopInv'
  BY <1>1 DEF Finish, BaseInv, LoopTypes, LoopInv, trackerVars, syncVars, loopRest
<1>. QED  BY <1>4, <1>5 DEF BaseInv

LEMMA ClientKeeps ==
  ASSUME BaseInv, Client
  PROVE  BaseInv' /\ QueueKept /\ (OthersKept \/ state = "Executing")
<1>1. CASE CallMeta
  <2>1. MetaInv' /\ OthersKept
    BY <1>1, CallKeeps DEF CallMeta, BaseInv
  <2>2. LoopTypes' /\ LoopInv'
    BY <1>1, <2>1 DEF Client, CallMeta, BaseInv, LoopTypes, LoopInv, trackerVars, syncVars, OthersKept
  <2>. QED  BY <2>1, <2>2, OthersAreKept DEF BaseInv
<1>2. CASE WriteField \/ LinkField
  <2>1. UNCHANGED metaVars
    BY <1>2 DEF WriteField, LinkField
  <2>2. MetaInv' /\ QueueKept
    BY <2>1, StillMeta DEF metaVars, BaseInv, MetaInv, MetaTypes
  <2>3. OthersKept
    BY <2>1, NothingKeeps DEF metaVars, BaseInv, MetaInv, MetaTypes
  <2>4. field' \in [Tracker -> Values] /\ UNCHANGED <<tracker, announced, emitting>>
    BY <1>2 DEF WriteField, LinkField, trackerVars, BaseInv, LoopTypes
  <2>5. LoopTypes' /\ LoopInv'
    BY <2>1, <2>4 DEF Client, BaseInv, LoopTypes, LoopInv, metaVars, syncVars, Made
  <2>. QED  BY <2>2, <2>3, <2>5 DEF BaseInv
<1>3. CASE HoldSimulation
  <2>1. MetaInv' /\ QueueKept
    BY <1>3, ImmediateKept DEF HoldSimulation, Hold, quietMeta, BaseInv, MetaInv, MetaTypes
  <2>2. LoopTypes' /\ LoopInv'
    BY <1>3, <2>1 DEF Client, HoldSimulation, BaseInv, LoopTypes, LoopInv, trackerVars, syncVars,
                      QueueKept
  <2>. QED  BY <1>3, <2>1, <2>2 DEF BaseInv, HoldSimulation
<1>. QED  BY <1>1, <1>2, <1>3 DEF Client

\* Each step either takes the first event, or keeps the queue.
LEMMA BaseStep ==
  ASSUME BaseInv, [Next]_vars
  PROVE  /\ BaseInv'
         /\ \/ QueueKept
            \/ ExecuteRest /\ \E e \in queue.waiting : Taking(e)
<1>1. CASE UNCHANGED vars
  <2>1. MetaInv' /\ QueueKept
    BY <1>1, StillMeta DEF vars, metaVars, BaseInv, MetaInv, MetaTypes
  <2>2. LoopTypes' /\ LoopInv'
    BY <1>1, <2>1 DEF vars, metaVars, trackerVars, syncVars, BaseInv, LoopTypes, LoopInv, Made
  <2>. QED  BY <2>1, <2>2 DEF BaseInv
<1>2. CASE Execute
  BY <1>2, ExecuteIs, TakingKeeps, WaitingKeeps
<1>3. CASE EmitNext
  BY <1>3, EmitNextKeeps, OthersAreKept
<1>4. CASE UpdateTime \/ ChangeTime \/ PreExec \/ Finish
  BY <1>4, UpdateTimeKeeps, ChangeTimeKeeps, PreExecKeeps, FinishKeeps
<1>. QED  BY <1>1, <1>2, <1>3, <1>4, EdgesKeep, RunKeeps, ClientKeeps DEF Next, Loop

\* The queue of the scheduler, the schedules, and the place of the scheduler
\* thread in its loop agree: the events wait under ids that were made, a
\* schedule and its event know each other, what an event has deactivated has
\* no time (BaseSchedule and Schedule of MetaScheduler.cpp).
THEOREM SchedulesAgree == Spec => []BaseInv
<1>1. BaseInv /\ [Next]_vars => BaseInv'
  BY BaseStep
<1>. QED  BY BaseInit, <1>1, PTL DEF Spec

\* How an entry point comes to run.
LEMMA RunsBy ==
  ASSUME BaseInv, [Next]_vars, pc' = "run"
  PROVE  \/ pc = "run" /\ current' = current /\ state' = state /\ QueueKept
         \/ ExecuteRest /\ \E e \in queue.waiting : Taking(e)
<1>1. CASE Execute
  BY <1>1, ExecuteIs DEF Waiting
<1>2. CASE EmitNext
  BY <1>2, EmitNextKeeps, OthersAreKept DEF EmitNext
<1>3. CASE Client
  <2>1. UNCHANGED <<pc, state>>
    BY <1>3 DEF Client
  <2>2. current' = current
    BY <1>3 DEF Client, CallMeta, WriteField, LinkField, HoldSimulation, metaVars
  <2>. QED  BY <1>3, <2>1, <2>2, ClientKeeps
<1>4. CASE Initialise \/ Synchronize \/ UNCHANGED vars
  BY <1>4, SameQueueKept DEF Initialise, Synchronize, vars, metaVars, BaseInv, LoopInv
<1>5. CASE UpdateTime \/ ChangeTime \/ PreExec \/ Finish \/ Run \/ Exit \/ ExitSimulation
  BY <1>5 DEF UpdateTime, ChangeTime, PreExec, Finish, Run, Exit, ExitSimulation
<1>. QED  BY <1>1, <1>2, <1>3, <1>4, <1>5 DEF Next, Loop

\* A schedule that an event has deactivated is not executed until an event
\* activates it or a new time is submitted (MetaScheduler.cpp, epDeactivate).
THEOREM DeactivatedStaysQuiet == Spec => DeactivatedIsQuiet
<1>1. BaseInv /\ [Next]_vars =>
        [\A s \in Periodic : ~ Running(s) /\ Running(s)' => s \notin off]_vars
  <2>. SUFFICES ASSUME BaseInv, [Next]_vars, NEW s \in Periodic, ~ Running(s), Running(s)', s \in off
                PROVE  FALSE
    OBVIOUS
  <2>1. pc' = "run" /\ queue'.event[current'].job = s
    BY DEF Running
  <2>2. CASE pc = "run" /\ current' = current /\ QueueKept
    BY <2>1, <2>2 DEF Running, QueueKept, BaseInv, LoopInv
  <2>3. CASE ExecuteRest /\ \E e \in queue.waiting : Taking(e)
    <3>1. PICK e \in queue.waiting : Taking(e)
      BY <2>3
    <3>2. /\ e \in Made /\ queue'.event[e].job = queue.event[e].job
          /\ current' = e /\ queue.event[e].time # Never
      BY <3>1, TakenIs DEF Taking, BaseInv
    <3>3. object[s].id = e
      BY <2>1, <3>2 DEF BaseInv, MetaInv, IdsAgree
    <3>. QED  BY <3>2, <3>3 DEF BaseInv, MetaInv, OffAsleep
  <2>. QED  BY <2>1, <2>2, <2>3, RunsBy
<1>. QED  BY <1>1, SchedulesAgree, PTL DEF Spec, DeactivatedIsQuiet

-----------------------------------------------------------------------------
(***************************************************************************)
(* The hold of a SimControl.                                               *)
(***************************************************************************)
StopWaits == \E h \in queue.waiting :
               queue.event[h].job = "stop" /\ queue.event[h].time = Immediate

\* A hold that was asked for waits in front of everything that has a time.
AskedInv ==
  holdAt # None =>
    /\ now = holdAt /\ state = "Executing" /\ StopWaits
    /\ pc \notin {"change", "exited"}
    /\ pc = "step" => schedTime = now
    /\ pc = "run" => queue.event[current].time = Immediate

LEMMA ImmediateFirst ==
  ASSUME BaseInv, StopWaits, NEW e, IsHead(queue, e)
  PROVE  /\ queue.event[e].time = Immediate
         /\ queue.event[e].time # Never /\ queue.event[e].time <= now
<1>1. PICK h \in queue.waiting :
        queue.event[h].job = "stop" /\ queue.event[h].time = Immediate
  BY DEF StopWaits
<1>2. /\ e \in EventId /\ h \in EventId /\ queue \in Queue /\ now \in Nat
      /\ e \in queue.waiting
  BY DEF BaseInv, MetaInv, MetaTypes, Queue, IsHead
<1>3. queue.event[e].time \in Int /\ queue.event[e].time >= Immediate
  BY <1>2 DEF Queue, EventRecord, EventTime
<1>. QED  BY <1>1, <1>2, <1>3 DEF IsHead, Before, Immediate, Never

LEMMA StopKept ==
  ASSUME BaseInv, QueueKept, StopWaits  PROVE StopWaits'
<1>1. PICK h \in queue.waiting :
        queue.event[h].job = "stop" /\ queue.event[h].time = Immediate
  BY DEF StopWaits
<1>2. h \in Made /\ "stop" \notin Periodic /\ queue.event[h].period = 0
  BY <1>1, ColibryAssumption
  DEF BaseInv, MetaInv, MetaTypes, ImmediateOnce, ColibryAssumption, OtherJob, Schedules
<1>. QED  BY <1>1, <1>2 DEF QueueKept, StopWaits

LEMMA ImmediateTaken ==
  ASSUME BaseInv, NEW e \in queue.waiting, Taking(e), queue.event[e].time = Immediate
  PROVE  queue'.event[e].time = Immediate
<1>1. queue.event[e].period = 0
  BY DEF BaseInv, MetaInv, MetaTypes, ImmediateOnce
<1>2. IF queue.event[e].repeat # 0 /\ queue.event[e].period > 0
      THEN queue'.event[e].time = queue.event[e].time + queue.event[e].period
      ELSE queue'.event[e].time = queue.event[e].time
  BY TakenIs DEF Taking, BaseInv
<1>. QED  BY <1>1, <1>2

LEMMA HoldAtChanges ==
  ASSUME [Next]_vars
  PROVE  \/ holdAt' = holdAt
         \/ /\ ChangeTime /\ EvaluateControl
            /\ queue.next < MaxEvents /\ queue' = Hold /\ holdAt' = now
         \/ Execute /\ holdAt' = None
<1>1. CASE ChangeTime
  BY <1>1 DEF ChangeTime, EvaluateControl
<1>2. CASE Execute
  BY <1>2 DEF Execute
<1>. QED  BY <1>1, <1>2 DEF Next, Loop, Initialise, Run, ExitSimulation, UpdateTime, EmitNext,
                PreExec, Finish, Exit, Client, CallMeta, WriteField, LinkField,
                HoldSimulation, Synchronize, vars, trackerVars

LEMMA AskedStep ==
  ASSUME BaseInv, AskedInv, [Next]_vars
  PROVE  AskedInv'
<1>. SUFFICES ASSUME holdAt' # None
     PROVE  /\ now' = holdAt' /\ state' = "Executing" /\ StopWaits'
            /\ pc' \notin {"change", "exited"}
            /\ pc' = "step" => schedTime' = now'
            /\ pc' = "run" => queue'.event[current'].time = Immediate
  BY DEF AskedInv
<1>1. CASE holdAt = None
  <2>1. ChangeTime /\ EvaluateControl /\ queue.next < MaxEvents /\ queue' = Hold /\ holdAt' = now
    BY <1>1, HoldAtChanges
  <2>2. /\ now' = now /\ state' = state /\ pc' = "preExec" /\ state = "Executing"
        /\ UNCHANGED <<current, object, subscribed, off, schedTime>>
    BY <2>1 DEF ChangeTime, quietMeta, BaseInv, LoopInv
  <2>3. StopWaits'
    <3>1. /\ queue'.waiting = queue.waiting \union {queue.next}
          /\ queue'.event[queue.next].time = Immediate /\ queue'.event[queue.next].job = "stop"
      BY <2>1, <2>2, ImmediateAdded DEF Hold, BaseInv, MetaInv, MetaTypes
    <3>. QED  BY <3>1 DEF StopWaits
  <2>. QED  BY <2>1, <2>2, <2>3
<1>2. CASE holdAt # None
  <2>1. /\ now = holdAt /\ state = "Executing" /\ StopWaits
        /\ pc \notin {"change", "exited"}
        /\ pc = "step" => schedTime = now
        /\ pc = "run" => queue.event[current].time = Immediate
    BY <1>2 DEF AskedInv
  <2>2. CASE UpdateTime
    <3>1. PICK t : NextTimeIs(t) /\ now' = (IF t > now THEN t ELSE now)
                   /\ pc' = IF t > now THEN "change" ELSE IF t = now THEN "preExec" ELSE "dead"
      BY <2>2 DEF UpdateTime
    <3>2. t = schedTime /\ schedTime = now
      BY <2>1, <2>2, <3>1, ImmediateFirst DEF NextTimeIs, UpdateTime
    <3>3. now' = now /\ pc' = "preExec"
      BY <3>1, <3>2 DEF BaseInv, MetaInv, MetaTypes
    <3>. QED  BY <2>1, <2>2, <3>3, UpdateTimeKeeps, StopKept DEF UpdateTime, trackerVars
  <2>3. CASE Execute
    <3>1. ExecuteRest
      BY <2>3, ExecuteIs
    <3>2. CASE Waiting
      BY <2>1, <3>1, <3>2, ImmediateFirst DEF Waiting
    <3>3. CASE \E e \in queue.waiting : Taking(e)
      <4>1. PICK e \in queue.waiting : Taking(e)
        BY <3>3
      <4>2. queue.event[e].time = Immediate
        BY <2>1, <4>1, ImmediateFirst DEF Taking
      <4>3. /\ queue.event[e].job # "stop" /\ state' = state /\ holdAt' = holdAt
            /\ current' = e /\ pc' = "run" /\ now' = now
        BY <3>1, <4>1 DEF Taking, ExecuteRest
      <4>4. PICK h \in queue.waiting :
              queue.event[h].job = "stop" /\ queue.event[h].time = Immediate
        BY <2>1 DEF StopWaits
      <4>5. e \in Made /\ h \in Made /\ h # e
        BY <4>3, <4>4 DEF BaseInv, MetaInv, MetaTypes
      <4>6. h \in queue'.waiting /\ queue'.event[h] = queue.event[h]
        BY <4>1, <4>4, <4>5, TakenIs DEF Taking, BaseInv
      <4>7. queue'.event[e].time = Immediate
        BY <4>1, <4>2, ImmediateTaken
      <4>. QED  BY <2>1, <4>3, <4>4, <4>6, <4>7 DEF StopWaits
    <3>. QED  BY <2>3, <3>2, <3>3, ExecuteIs
  <2>4. CASE Finish
    BY <2>1, <2>4, FinishKeeps, StopKept DEF Finish, trackerVars
  <2>5. CASE EmitNext \/ Client
    <3>1. UNCHANGED <<pc, state, now, current, schedTime, holdAt>>
      BY <2>5 DEF EmitNext, Client, CallMeta, WriteField, LinkField, HoldSimulation,
                  trackerVars, metaVars
    <3>2. QueueKept
      BY <2>5, EmitNextKeeps, ClientKeeps, OthersAreKept
    <3>3. pc = "run" => queue'.event[current].time = Immediate
      <4>1. ASSUME pc = "run"  PROVE queue.event[current].job \notin Periodic /\ current \in Made
        BY <2>1, <4>1 DEF BaseInv, LoopInv, MetaInv, IdsAgree
      <4>2. ASSUME pc = "run"  PROVE queue.event[current].period = 0
        BY <2>1, <4>1, <4>2 DEF BaseInv, MetaInv, ImmediateOnce
      <4>. QED  BY <2>1, <3>2, <4>1, <4>2 DEF QueueKept
    <3>. QED  BY <2>1, <3>1, <3>2, <3>3, StopKept
  <2>6. CASE Synchronize \/ UNCHANGED vars
    BY <2>1, <2>6 DEF Synchronize, vars, metaVars, trackerVars, StopWaits
  <2>7. CASE PreExec
    BY <2>1, <2>7 DEF PreExec, trackerVars, StopWaits
  <2>8. CASE Initialise \/ Run \/ ExitSimulation \/ ChangeTime \/ Exit
    BY <2>1, <2>8 DEF Initialise, Run, ExitSimulation, ChangeTime, Exit
  <2>. QED  BY <2>2, <2>3, <2>4, <2>5, <2>6, <2>7, <2>8 DEF Next, Loop
<1>. QED  BY <1>1, <1>2

\* Once a SimControl has asked for the hold, only immediate events are
\* executed, at the time of the change, until the simulation is held
\* (SimControl::onEvaluate, Simulator::Hold).
THEOREM HoldComesFirst == Spec => NothingRunsAfterTheHold
<1>1. Init => AskedInv
  BY DEF Init, AskedInv
<1>2. BaseInv /\ AskedInv /\ [Next]_vars => AskedInv'
  BY AskedStep
<1>3. BaseInv /\ AskedInv /\ [Next]_vars =>
        [holdAt # None =>
           /\ now' = holdAt
           /\ pc' = "run" => queue'.event[current'].time = Immediate]_vars
  <2>. SUFFICES ASSUME BaseInv, AskedInv, [Next]_vars, holdAt # None
                PROVE  /\ now' = holdAt
                       /\ pc' = "run" => queue'.event[current'].time = Immediate
    OBVIOUS
  <2>1. AskedInv'
    BY AskedStep
  <2>2. CASE holdAt' # None
    <3>1. holdAt' = holdAt
      BY <2>2, HoldAtChanges DEF AskedInv, ChangeTime
    <3>. QED  BY <2>1, <2>2, <3>1 DEF AskedInv
  <2>3. CASE holdAt' = None
    <3>1. Execute
      BY <2>3, HoldAtChanges DEF AskedInv, ChangeTime
    <3>2. ExecuteRest /\ now' = holdAt
      BY <3>1, ExecuteIs DEF ExecuteRest, AskedInv
    <3>3. ASSUME NEW e \in queue.waiting, Taking(e)
          PROVE  queue'.event[current'].time = Immediate
      <4>1. queue.event[e].time = Immediate
        BY <3>3, ImmediateFirst DEF Taking, AskedInv
      <4>. QED  BY <3>3, <4>1, ImmediateTaken DEF Taking
    <3>4. ASSUME Waiting  PROVE pc' # "run"
      BY <3>4 DEF Waiting
    <3>. QED  BY <3>1, <3>2, <3>3, <3>4, ExecuteIs
  <2>. QED  BY <2>2, <2>3
<1>. QED  BY <1>1, <1>2, <1>3, SchedulesAgree, PTL DEF Spec, NothingRunsAfterTheHold

-----------------------------------------------------------------------------
(***************************************************************************)
(* The synchronisation with the host's clock.                              *)
(***************************************************************************)
SyncTypes ==
  /\ wall \in Int /\ goal \in Int /\ waking \in Int /\ goalSeen \in Int
  /\ origin \in Int /\ steps \in Nat
  /\ step \in {"no", "called", "sleeping", "woken"}

\* A step that overlaps with no epInit has read the goal of its own number.
DriftInv ==
  ~ raced /\ origin > 0 /\ starting \in {"no", "sleeping"} =>
    /\ goal = origin + (steps + 1) * Period
    /\ step = "sleeping" => goalSeen = goal
    /\ step = "woken" => wall + Threshold >= goal
    /\ step = "no" => wall + Threshold >= origin + steps * Period \/ steps = 0

LEMMA SyncActions ==
  ASSUME [Next]_vars
  PROVE  SyncStep \/ Tick \/ EnterExecuting \/ epStepCalled \/ UNCHANGED syncVars
<1>1. CASE Execute
  BY <1>1, ExecuteIs DEF Waiting, Taking
<1>. QED  BY <1>1 DEF Next, Loop, Initialise, Run, ExitSimulation, UpdateTime, ChangeTime, EmitNext,
                PreExec, Finish, Exit, Client, Synchronize, vars

LEMMA DriftStep ==
  ASSUME SyncTypes, DriftInv,
         SyncStep \/ Tick \/ EnterExecuting \/ epStepCalled \/ UNCHANGED syncVars
  PROVE  SyncTypes' /\ DriftInv'
<1>1. Period \in Nat /\ Second \in Nat \ {0} /\ Threshold \in Nat
  BY SynchronizerAssumption DEF SynchronizerAssumption
<1>2. CASE epInitReads
  <2>1. wall \div Second \in Int
    BY <1>1 DEF SyncTypes
  <2>2. ((wall \div Second) + 1) * Second \in Int
    BY <1>1, <2>1
  <2>. QED  BY <1>2, <2>2 DEF epInitReads, SyncTypes, DriftInv
<1>3. CASE epInitSets
  <2>1. /\ steps' = 0 /\ goal' = waking + Period /\ origin' = waking
        /\ UNCHANGED <<wall, waking, step, goalSeen>>
    BY <1>3 DEF epInitSets
  <2>2. ~ raced' => step = "no"
    BY <1>3, Zenon DEF epInitSets
  <2>3. (steps' + 1) * Period = Period
    BY <1>1, <2>1
  <2>. QED  BY <1>1, <2>1, <2>2, <2>3 DEF SyncTypes, DriftInv
<1>4. CASE epStepReturns
  <2>1. (steps + 1 + 1) * Period = (steps + 1) * Period + Period
    BY <1>1 DEF SyncTypes
  <2>2. (steps + 1) * Period \in Int
    BY <1>1 DEF SyncTypes
  <2>. QED  BY <1>1, <1>4, <2>1, <2>2 DEF epStepReturns, NextGoal, SyncTypes, DriftInv
<1>5. CASE epStepReads
  <2>1. (steps + 1) * Period \in Int /\ steps * Period \in Int
    BY <1>1 DEF SyncTypes
  <2>. QED  BY <1>1, <1>5, <2>1 DEF epStepReads, SyncTypes, DriftInv
<1>6. CASE epStepWakes
  BY <1>1, <1>6 DEF epStepWakes, SyncTypes, DriftInv
<1>7. CASE Tick
  <2>1. (steps + 1) * Period \in Int /\ steps * Period \in Int
    BY <1>1 DEF SyncTypes
  <2>. QED  BY <1>1, <1>7, <2>1 DEF Tick, SyncTypes, DriftInv
<1>8. CASE epStepCalled
  <2>1. /\ step = "no" /\ step' = "called"
        /\ UNCHANGED <<wall, goal, starting, waking, goalSeen, origin, steps>>
    BY <1>8 DEF epStepCalled
  <2>2. ~ raced' => ~ raced
    BY <1>8, Zenon DEF epStepCalled
  <2>. QED  BY <2>1, <2>2 DEF SyncTypes, DriftInv
<1>9. CASE epInitReturns
  BY <1>9 DEF epInitReturns, SyncTypes, DriftInv
<1>10. CASE EnterExecuting \/ UNCHANGED syncVars
  BY <1>10 DEF EnterExecuting, syncVars, SyncTypes, DriftInv
<1>. QED  BY <1>2, <1>3, <1>4, <1>5, <1>6, <1>7, <1>8, <1>9, <1>10 DEF SyncStep

\* However late the steps are, and whenever the initialisation runs, unless it
\* overlaps with a step: the goals are the origin plus multiples of the period,
\* and the simulation is not ahead by more than the threshold
\* (Synchronizer::epInit and epStep).
THEOREM StepsDoNotDrift == Spec => []NoDrift
<1>1. Init => SyncTypes /\ DriftInv
  BY DEF Init, SyncInit, SyncTypes, DriftInv
<1>2. SyncTypes /\ DriftInv /\ [Next]_vars => SyncTypes' /\ DriftInv'
  BY SyncActions, DriftStep
<1>3. DriftInv => NoDrift
  BY DEF DriftInv, NoDrift
<1>. QED  BY <1>1, <1>2, <1>3, PTL DEF Spec

-----------------------------------------------------------------------------
(***************************************************************************)
(* What the EventTrigger announces.                                        *)
(***************************************************************************)
Result == tracker["trigger"]

\* What onEvaluate has still to look at, and what was said before of the
\* result.
AnnouncedInv ==
  /\ emitting \in {<<>>, <<"changed">>, <<"becomeFalse", "changed">>,
                    <<"becomeTrue", "becomeFalse", "changed">>,
                    <<"true", "becomeTrue", "becomeFalse", "changed">>}
  /\ ~ Result.changed \/ emitting = <<>> \/ emitting = <<"changed">> =>
       (announced <=> Result.out # 0)
  /\ emitting = <<"becomeFalse", "changed">> /\ Result.out # 0 => announced

LEMMA EvaluateAnnounces ==
  ASSUME LoopTypes, AnnouncedInv, emitting = <<>>, EvaluateTrigger, announced' = announced
  PROVE  AnnouncedInv'
<1>1. Result' = [out |-> field["trigger"], changed |-> field["trigger"] # Result.out]
  BY EvaluatedType DEF EvaluateTrigger, Tracker, Result
<1>2. emitting' = <<"true", "becomeTrue", "becomeFalse", "changed">>
  BY DEF EvaluateTrigger
<1>3. emitting' # <<>> /\ emitting' # <<"changed">> /\ emitting' # <<"becomeFalse", "changed">>
  BY <1>2
<1>4. ~ Result'.changed => Result'.out = Result.out
  BY <1>1
<1>. QED  BY <1>2, <1>3, <1>4 DEF AnnouncedInv

LEMMA EmitAnnounces ==
  ASSUME LoopTypes, AnnouncedInv, EmitNext
  PROVE  AnnouncedInv'
<1>1. /\ Result' = Result /\ emitting # <<>> /\ emitting' = Tail(emitting)
      /\ announced' = IF ~ Holds(Head(emitting)) THEN announced
                      ELSE CASE Head(emitting) = "becomeTrue"  -> TRUE
                             [] Head(emitting) = "becomeFalse" -> FALSE
                             [] OTHER                          -> announced
  BY DEF EmitNext, Result
<1>2. CASE emitting = <<"changed">>
  <2>1. Head(emitting) = "changed" /\ emitting' = <<>>
    BY <1>1, <1>2
  <2>2. announced' = announced
    BY <1>1, <2>1
  <2>. QED  BY <1>1, <1>2, <2>1, <2>2 DEF AnnouncedInv
<1>3. CASE emitting = <<"becomeFalse", "changed">>
  <2>1. Head(emitting) = "becomeFalse" /\ emitting' = <<"changed">>
    BY <1>1, <1>3
  <2>2. announced' = IF Result.changed /\ Result.out = 0 THEN FALSE ELSE announced
    BY <1>1, <2>1 DEF Holds, Result
  <2>3. announced' <=> Result.out # 0
    BY <1>3, <2>2 DEF AnnouncedInv
  <2>. QED  BY <1>1, <2>1, <2>3 DEF AnnouncedInv
<1>4. CASE emitting = <<"becomeTrue", "becomeFalse", "changed">>
  <2>1. Head(emitting) = "becomeTrue" /\ emitting' = <<"becomeFalse", "changed">>
    BY <1>1, <1>4
  <2>2. announced' = IF Result.changed /\ Result.out # 0 THEN TRUE ELSE announced
    BY <1>1, <2>1 DEF Holds, Result
  <2>3. ~ Result.changed => (announced' <=> Result.out # 0)
    BY <2>2 DEF AnnouncedInv
  <2>4. Result.out # 0 => announced'
    BY <2>2, <2>3
  <2>5. emitting' # <<>> /\ emitting' # <<"changed">>
    BY <2>1
  <2>. QED  BY <1>1, <2>1, <2>3, <2>4, <2>5 DEF AnnouncedInv
<1>5. CASE emitting = <<"true", "becomeTrue", "becomeFalse", "changed">>
  <2>1. Head(emitting) = "true" /\ emitting' = <<"becomeTrue", "becomeFalse", "changed">>
    BY <1>1, <1>5
  <2>2. announced' = announced
    BY <1>1, <2>1
  <2>. QED  BY <1>1, <1>5, <2>1, <2>2 DEF AnnouncedInv
<1>. QED  BY <1>1, <1>2, <1>3, <1>4, <1>5 DEF AnnouncedInv

LEMMA AnnouncedStep ==
  ASSUME BaseInv, AnnouncedInv, [Next]_vars
  PROVE  AnnouncedInv'
<1>1. CASE UNCHANGED <<Result, emitting, announced>>
  BY <1>1 DEF AnnouncedInv
<1>2. CASE EvaluateTrigger /\ announced' = announced /\ emitting = <<>>
  BY <1>2, EvaluateAnnounces DEF BaseInv
<1>3. CASE EmitNext
  BY <1>3, EmitAnnounces DEF BaseInv
<1>4. CASE ChangeTime
  <2>1. emitting = <<>> /\ announced' = announced
    BY <1>4 DEF ChangeTime, BaseInv, LoopInv
  <2>2. CASE EvaluateTrigger
    BY <1>2, <2>1, <2>2
  <2>3. CASE emitting' = emitting /\ (EvaluateControl \/ tracker' = tracker)
    <3>1. Result' = Result
      BY <2>3, EvaluatedType DEF EvaluateControl, Tracker, Result, BaseInv
    <3>. QED  BY <1>1, <2>1, <2>3, <3>1
  <2>. QED  BY <1>4, <2>2, <2>3 DEF ChangeTime
<1>5. CASE Execute
  <2>1. emitting = <<>> /\ announced' = announced
    BY <1>5 DEF Execute, BaseInv, LoopInv
  <2>2. EvaluateTrigger \/ UNCHANGED <<tracker, emitting>>
    BY <1>5, ExecuteIs DEF Waiting, Taking
  <2>. QED  BY <1>1, <1>2, <2>1, <2>2 DEF Result
<1>6. CASE ~ (EmitNext \/ ChangeTime \/ Execute)
  BY <1>1, <1>6 DEF Next, Loop, Initialise, Run, ExitSimulation, UpdateTime, PreExec, Finish, Exit,
                Client, CallMeta, WriteField, LinkField, HoldSimulation, Synchronize, vars,
                trackerVars, Result
<1>. QED  BY <1>3, <1>4, <1>5, <1>6

\* Between evaluations the last of becomeTrue and becomeFalse that was emitted
\* says what the last result was (EventTrigger::onEvaluate).
THEOREM LastAnnouncementHolds == Spec => []AnnouncementsAgree
<1>1. Init => AnnouncedInv
  BY DEF Init, AnnouncedInv, Result, Tracker
<1>2. BaseInv /\ AnnouncedInv /\ [Next]_vars => AnnouncedInv'
  BY AnnouncedStep
<1>3. AnnouncedInv => AnnouncementsAgree
  BY DEF AnnouncedInv, AnnouncementsAgree, Result
<1>. QED  BY <1>1, <1>2, <1>3, SchedulesAgree, PTL DEF Spec

-----------------------------------------------------------------------------
(***************************************************************************)
(* The schedule that the meta scheduler takes for the one that runs.       *)
(***************************************************************************)
NotifiedInv ==
  "meta" \in installed =>
    /\ pc = "select" => \A e \in queue.waiting :
         IsHead(queue, e) =>
           \/ queue.event[e].job = "stop"
           \/ e \in DOMAIN index /\ notified = index[e]
    /\ pc = "run" /\ current \in DOMAIN index =>
         notified = index[current] \/ queue.event[current].job = "stop"

LEMMA PreExecNotifies ==
  ASSUME BaseInv, PreExec, "meta" \in installed, NEW e, IsHead(queue, e)
  PROVE  e \in DOMAIN index' /\ notified' = index'[e]
<1>1. current = None /\ queue \in Queue /\ e \in queue.waiting
  BY DEF PreExec, BaseInv, LoopInv, MetaInv, MetaTypes, IsHead
<1>2. GetCurrentEventId = CHOOSE x \in queue.waiting : IsHead(queue, x)
  BY <1>1 DEF GetCurrentEventId
<1>3. GetCurrentEventId = e
  BY <1>1, <1>2, OneHead
<1>. QED  BY <1>3 DEF PreExec, epPreEpExec, Indexed

\* A hold puts itself in front, and leaves the others in their order.
LEMMA HeadAfterHold ==
  ASSUME BaseInv, HoldSimulation, NEW e, IsHead(queue, e)'
  PROVE  \/ queue'.event[e].job = "stop"
         \/ IsHead(queue, e) /\ queue'.event[e].job = queue.event[e].job
<1>1. /\ queue.next \notin Made /\ queue'.waiting = queue.waiting \union {queue.next}
      /\ \A x \in Made : queue'.event[x] = queue.event[x]
      /\ queue'.event[queue.next].job = "stop"
      /\ queue.waiting \subseteq Made
  <2>1. /\ UNCHANGED <<current, object, subscribed, off, now>>
        /\ schedTime' \in Nat /\ schedTime' <= now /\ queue.next < MaxEvents
        /\ queue' = Added(queue, "stop", Immediate, 0, 0)
        /\ MetaInv /\ queue.waiting \subseteq Made
    BY DEF HoldSimulation, Hold, quietMeta, BaseInv, MetaInv, MetaTypes
  <2>. QED  BY <2>1, ImmediateAdded
<1>2. e \in queue'.waiting /\ \A o \in queue'.waiting \ {e} : Before(queue', e, o)
  BY DEF IsHead
<1>. QED  BY <1>1, <1>2 DEF IsHead, Before

LEMMA NotifiedStep ==
  ASSUME BaseInv, NotifiedInv, [Next]_vars
  PROVE  NotifiedInv'
<1>. SUFFICES ASSUME "meta" \in installed'
     PROVE  /\ pc' = "select" => \A e \in queue'.waiting :
                 IsHead(queue, e)' =>
                   \/ queue'.event[e].job = "stop"
                   \/ e \in DOMAIN index' /\ notified' = index'[e]
            /\ pc' = "run" /\ current' \in DOMAIN index' =>
                 notified' = index'[current'] \/ queue'.event[current'].job = "stop"
  BY DEF NotifiedInv
<1>1. "meta" \in installed
  BY DEF Next, Loop, Initialise, Run, ExitSimulation, UpdateTime, ChangeTime, EmitNext,
         PreExec, Execute, Finish, Exit, Client, Synchronize, vars, loopRest
<1>2. CASE PreExec
  BY <1>1, <1>2, PreExecNotifies DEF PreExec, IsHead, Before
<1>3. CASE Execute
  <2>1. ExecuteRest
    BY <1>3, ExecuteIs
  <2>2. CASE Waiting
    BY <2>2 DEF Waiting
  <2>3. CASE \E e \in queue.waiting : Taking(e)
    <3>1. PICK e \in queue.waiting : Taking(e)
      BY <2>3
    <3>2. /\ current' = e /\ pc' = "run" /\ UNCHANGED <<index, notified>>
          /\ queue'.event[e].job = queue.event[e].job
      BY <2>1, <3>1, TakenIs DEF Taking, ExecuteRest, quietMeta, BaseInv
    <3>. QED  BY <1>1, <2>1, <3>1, <3>2 DEF NotifiedInv, ExecuteRest, Taking
  <2>. QED  BY <1>3, <2>2, <2>3, ExecuteIs
<1>4. CASE EmitNext \/ (Client /\ ~ HoldSimulation)
  <2>1. OthersKept /\ UNCHANGED <<pc, current, notified>>
    <3>1. CASE Client /\ CallMeta
      BY <3>1, CallKeeps DEF Client, CallMeta, BaseInv
    <3>2. CASE Client /\ (WriteField \/ LinkField)
      <4>1. UNCHANGED <<metaVars, pc>>
        BY <3>2 DEF Client, WriteField, LinkField
      <4>. QED  BY <4>1, NothingKeeps DEF metaVars, BaseInv, MetaInv, MetaTypes
    <3>3. CASE EmitNext
      BY <3>3, EmitNextKeeps DEF EmitNext
    <3>. QED  BY <1>4, <3>1, <3>2, <3>3 DEF Client
  <2>2. pc # "select"
    BY <1>4, EmitNextKeeps DEF Client, CallMeta, WriteField, LinkField, InClient
  <2>3. pc = "run" => current \in Made
    BY DEF BaseInv, LoopInv
  <2>. QED  BY <1>1, <2>1, <2>2, <2>3 DEF NotifiedInv, OthersKept
<1>5. CASE Client /\ HoldSimulation
  <2>1. UNCHANGED <<pc, current, notified, index>>
    BY <1>5 DEF Client, HoldSimulation, quietMeta
  <2>2. QueueKept
    BY <1>5, ClientKeeps
  <2>3. pc = "run" => current \in Made
    BY DEF BaseInv, LoopInv
  <2>4. ASSUME NEW e, IsHead(queue, e)'
        PROVE  \/ queue'.event[e].job = "stop"
               \/ IsHead(queue, e) /\ queue'.event[e].job = queue.event[e].job
    BY <1>5, <2>4, HeadAfterHold
  <2>. QED  BY <1>1, <2>1, <2>2, <2>3, <2>4 DEF NotifiedInv, QueueKept, IsHead
<1>6. CASE Initialise \/ Synchronize \/ UNCHANGED vars
  <2>1. UNCHANGED <<pc, queue, current, index, notified>>
    BY <1>6 DEF Initialise, Synchronize, vars, metaVars
  <2>. QED  BY <1>1, <2>1 DEF NotifiedInv, IsHead, Before
<1>7. CASE Run \/ ExitSimulation \/ UpdateTime \/ ChangeTime \/ Finish \/ Exit
  BY <1>7 DEF Run, ExitSimulation, UpdateTime, ChangeTime, Finish, Exit
<1>. QED  BY <1>2, <1>3, <1>4, <1>5, <1>6, <1>7 DEF Next, Loop

\* The schedule that epPreEpExec finds at the head of the queue is the one that
\* the scheduler takes, unless a stop came first (MetaScheduler::epPreEpExec,
\* Scheduler::step).
THEOREM TheRightOneIsNotified == Spec => []NotifiedIsTheOneRun
<1>1. Init => NotifiedInv
  BY DEF Init, NotifiedInv
<1>2. BaseInv /\ NotifiedInv /\ [Next]_vars => NotifiedInv'
  BY NotifiedStep
<1>3. NotifiedInv => NotifiedIsTheOneRun
  BY DEF NotifiedInv, NotifiedIsTheOneRun
<1>. QED  BY <1>1, <1>2, <1>3, SchedulesAgree, PTL DEF Spec

-----------------------------------------------------------------------------
(***************************************************************************)
(* The field recorder.                                                     *)
(***************************************************************************)
FileIs(f) ==
  /\ f = [open |-> f.open, header |-> f.header, rows |-> f.rows, saved |-> f.saved]
  /\ \E S : f.rows \in Seq(S)

\* The rows that are in the file, and where they are.
FileInv ==
  /\ FileIs(file)
  /\ "recorder" \notin installed => file = NoFile /\ state \in {"Standby", "Executing"}
  /\ "recorder" \in installed /\ state \in {"Standby", "Executing"} => file.open
  /\ state # "Executing" => file.saved = Len(file.rows)
  /\ \A i \in 1 .. Len(file.rows) - 1 :
       file.rows[i + 1].time = file.rows[i].time + RecordPeriod
  /\ format = "hdf5" \/ ~ relinked =>
       \A i \in DOMAIN file.rows : file.rows[i].columns = file.header
  /\ format = "csv" /\ ~ relinked /\ file.open => file.header = CsvColumns(recFields)

\* The event of the recorder, which is never lost, is due one period after the
\* last row, and not before the present time.
RecordEvent(r) ==
  /\ r \in Made /\ r \in queue.waiting
  /\ queue.event[r].repeat = -1 /\ queue.event[r].period = RecordPeriod
  /\ \A e \in Made : queue.event[e].job = "record" <=> e = r
  /\ queue.event[r].time >= now
  /\ Len(file.rows) > 0 =>
       queue.event[r].time = file.rows[Len(file.rows)].time + RecordPeriod

NextRowInv == "recorder" \in installed => \E r : RecordEvent(r)

LEMMA NoFileIs == FileIs(NoFile) /\ Len(NoFile.rows) = 0
<1>1. <<>> \in Seq({})
  OBVIOUS
<1>. QED  BY <1>1 DEF FileIs, NoFile

LEMMA RecordAdds ==
  ASSUME FileIs(file), file.open, NEW t, Record(t)
  PROVE  /\ FileIs(file') /\ file'.open /\ file'.header = file.header
         /\ Len(file.rows) \in Nat /\ Len(file'.rows) = Len(file.rows) + 1
         /\ DOMAIN file.rows = 1 .. Len(file.rows)
         /\ DOMAIN file'.rows = 1 .. Len(file.rows) + 1
         /\ \A i \in 1 .. Len(file.rows) : file'.rows[i] = file.rows[i]
         /\ file'.rows[Len(file.rows) + 1] = Row(t)
<1>1. PICK S : file.rows \in Seq(S)
  BY DEF FileIs
<1>2. file' = [open |-> file.open, header |-> file.header,
               rows |-> Append(file.rows, Row(t)), saved |-> file.saved]
  BY DEF Record, FileIs
<1>3. file'.rows = Append(file.rows, Row(t))
  BY <1>2
<1>4. file.rows \in Seq(S \union {Row(t)}) /\ Row(t) \in S \union {Row(t)}
  BY <1>1
<1> DEFINE T == S \union {Row(t)}
<1>. HIDE DEF T
<1>5. file.rows \in Seq(T) /\ Row(t) \in T
  BY <1>4 DEF T
<1>6. file'.rows \in Seq(T)
  BY <1>3, <1>5
<1>7. FileIs(file') /\ file'.open /\ file'.header = file.header
  BY <1>2, <1>6 DEF FileIs
<1>. QED  BY <1>3, <1>5, <1>7

LEMMA FileInit == Init => FileInv /\ NextRowInv
<1>. SUFFICES ASSUME Init PROVE FileInv /\ NextRowInv
  OBVIOUS
<1>1. /\ file = NoFile /\ pc = "exited" /\ now = 0 /\ queue = Connected(installed)
      /\ state = IF "recorder" \in installed THEN "Initialising" ELSE "Standby"
  BY DEF Init, MetaInit, RecorderInit, RecorderAbsent
<1>2. FileInv
  BY <1>1, NoFileIs DEF FileInv, NoFile
<1>3. ASSUME "recorder" \in installed  PROVE \E r : RecordEvent(r)
  <2>1. PICK q : /\ Fresh(q, 3)
                 /\ queue = Added(q, "record", 0, RecordPeriod, -1)
    BY <1>1, <1>3, ConnectedIs
  <2>2. RecordEvent(q.next)
    <3>1. /\ queue.next = q.next + 1 /\ q.next \in Nat /\ queue.waiting = 0 .. q.next
          /\ \A e \in 0 .. q.next - 1 : queue.event[e] = q.event[e]
          /\ queue.event[q.next] = [time |-> 0, period |-> RecordPeriod, repeat |-> -1,
                                    completed |-> FALSE, job |-> "record"]
      BY <2>1, RecordAdded
    <3>2. Made = 0 .. q.next /\ Made = (0 .. q.next - 1) \union {q.next}
      BY <3>1 DEF Made
    <3>3. \A e \in Made : queue.event[e].job = "record" <=> e = q.next
      BY <2>1, <3>1, <3>2 DEF Fresh
    <3>. QED  BY <1>1, <3>1, <3>2, <3>3, NoFileIs DEF RecordEvent
  <2>. QED  BY <2>2
<1>. QED  BY <1>2, <1>3 DEF NextRowInv

\* Only the step of the recorder changes when the next row is due.
LEMMA NextRowKept ==
  ASSUME BaseInv, NextRowInv, QueueKept, installed' = installed,
         file'.rows = file.rows \/ Len(file'.rows) = 0,
         \A r \in queue.waiting : queue.event[r].time >= now => queue.event[r].time >= now'
  PROVE  NextRowInv'
<1>. SUFFICES ASSUME "recorder" \in installed PROVE \E r : RecordEvent(r)'
  BY DEF NextRowInv
<1>1. PICK r : RecordEvent(r)
  BY DEF NextRowInv
<1>2. r \in Made /\ queue.event[r].job = "record" /\ "record" \notin Periodic
  BY <1>1, ColibryAssumption DEF RecordEvent, ColibryAssumption, OtherJob, Schedules
<1>3. queue'.event[r] = queue.event[r]
  BY <1>1, <1>2 DEF RecordEvent, RecordPeriod, QueueKept
<1>4. \A e \in Made' : queue'.event[e].job = "record" <=> e = r
  BY <1>1, <1>2, <1>3 DEF RecordEvent, QueueKept
<1>5. RecordEvent(r)'
  BY <1>1, <1>3, <1>4 DEF RecordEvent, QueueKept
<1>. QED  BY <1>5

\* What the time is moved to is not past the next row.
LEMMA RowIsNotPassed ==
  ASSUME BaseInv, UpdateTime, NEW r \in queue.waiting, queue.event[r].time >= now
  PROVE  queue.event[r].time >= now'
<1>1. PICK t : NextTimeIs(t) /\ now' = (IF t > now THEN t ELSE now)
  BY DEF UpdateTime
<1>2. PICK e \in queue.waiting :
        /\ IsHead(queue, e)
        /\ t = IF queue.event[e].time = Immediate THEN schedTime ELSE queue.event[e].time
  BY <1>1 DEF NextTimeIs
<1>3. /\ queue.event[e].time \in Int /\ queue.event[r].time \in Int
      /\ now \in Nat /\ schedTime \in Nat /\ schedTime <= now
  BY DEF BaseInv, MetaInv, MetaTypes, Queue, EventRecord, EventTime
<1>4. queue.event[e].time <= queue.event[r].time
  BY <1>2, <1>3 DEF IsHead, Before, Never
<1>. QED  BY <1>1, <1>2, <1>3, <1>4

\* The row is written at the time of the event.
LEMMA RecordTakenKeeps ==
  ASSUME BaseInv, FileInv, NextRowInv, ExecuteRest, NEW e \in queue.waiting, Taking(e),
         queue.event[e].job = "record", "recorder" \in installed
  PROVE  FileInv' /\ NextRowInv'
<1>1. PICK r : RecordEvent(r)
  BY DEF NextRowInv
<1>2. r = e /\ e \in Made
  BY <1>1 DEF RecordEvent, BaseInv, MetaInv, MetaTypes
<1>3. /\ Made' = Made /\ e \in queue'.waiting
      /\ \A x \in Made : x # e => queue'.event[x] = queue.event[x]
      /\ queue'.event[e].job = queue.event[e].job
      /\ queue'.event[e].period = queue.event[e].period
      /\ queue'.event[e].time = queue.event[e].time + RecordPeriod
      /\ queue'.event[e].repeat = -1
  <2>1. /\ queue.event[e].repeat = -1 /\ queue.event[e].period = RecordPeriod
        /\ queue.event[e].repeat # 0 /\ queue.event[e].period > 0
    BY <1>1, <1>2 DEF RecordEvent, RecordPeriod
  <2>2. /\ queue.event[e].time # Never /\ queue.event[e].time <= now
        /\ queue' = Updated([queue EXCEPT !.waiting = @ \ {e}], e)
        /\ MetaInv
    BY DEF Taking, BaseInv
  <2>. QED  BY <2>1, <2>2, TakenIs
<1>4. queue.event[e].time = now /\ now' = now /\ now \in Nat
  <2>1. queue.event[e].time \in Int /\ now \in Nat
    BY DEF BaseInv, MetaInv, MetaTypes, Queue, EventRecord, EventTime
  <2>. QED  BY <1>1, <1>2, <2>1 DEF RecordEvent, Taking, ExecuteRest
<1>5. /\ Record(now) /\ UNCHANGED <<format, recFields, relinked, state, installed>>
      /\ state = "Executing"
  BY DEF Taking, ExecuteRest, Record, BaseInv, LoopInv
<1>6. file.open /\ FileIs(file)
  BY <1>5 DEF FileInv
<1>7. /\ FileIs(file') /\ file'.open /\ file'.header = file.header
      /\ Len(file.rows) \in Nat /\ Len(file'.rows) = Len(file.rows) + 1
      /\ DOMAIN file.rows = 1 .. Len(file.rows)
      /\ DOMAIN file'.rows = 1 .. Len(file.rows) + 1
      /\ \A i \in 1 .. Len(file.rows) : file'.rows[i] = file.rows[i]
      /\ file'.rows[Len(file.rows) + 1] = Row(now)
  BY <1>5, <1>6, RecordAdds
<1>8. Row(now).time = now /\ Row(now).columns = IF format = "csv" THEN CsvColumns(recFields)
                                               ELSE file.header
  BY DEF Row
<1>9. FileInv'
  <2>1. ASSUME NEW i \in 1 .. Len(file'.rows) - 1
        PROVE  file'.rows[i + 1].time = file'.rows[i].time + RecordPeriod
    <3>1. CASE i = Len(file.rows)
      BY <1>1, <1>2, <1>4, <1>7, <1>8, <3>1, SMTT(30) DEF RecordEvent
    <3>2. CASE i # Len(file.rows)
      BY <1>7, <2>1, <3>2, SMTT(30) DEF FileInv
    <3>. QED  BY <3>1, <3>2
  <2>2. ASSUME format' = "hdf5" \/ ~ relinked', NEW i \in DOMAIN file'.rows
        PROVE  file'.rows[i].columns = file'.header
    <3>1. CASE i = Len(file.rows) + 1
      BY <1>5, <1>6, <1>7, <1>8, <2>2, <3>1 DEF FileInv
    <3>2. CASE i # Len(file.rows) + 1
      BY <1>5, <1>7, <2>2, <3>2 DEF FileInv
    <3>. QED  BY <3>1, <3>2
  <2>. QED  BY <1>5, <1>6, <1>7, <2>1, <2>2 DEF FileInv
<1>10. RecordEvent(e)'
  BY <1>1, <1>2, <1>3, <1>4, <1>7, <1>8 DEF RecordEvent, RecordPeriod
<1>. QED  BY <1>5, <1>9, <1>10 DEF NextRowInv

\* Another event is taken.
LEMMA OtherTakenKeeps ==
  ASSUME BaseInv, FileInv, NextRowInv, ExecuteRest, NEW e \in queue.waiting, Taking(e),
         queue.event[e].job # "record" \/ "recorder" \notin installed
  PROVE  FileInv' /\ NextRowInv'
<1>1. installed' = installed /\ now' = now /\ state = "Executing"
  BY DEF ExecuteRest, BaseInv, LoopInv
<1>2. \/ UNCHANGED recorderVars /\ state' = state
      \/ "recorder" \in installed /\ Flush /\ state' = "Standby"
      \/ "recorder" \notin installed /\ UNCHANGED recorderVars /\ state' = "Standby"
  <2>1. CASE queue.event[e].job = "record"
    BY <2>1 DEF Taking, Record, FileInv, NoFile, recorderVars
  <2>2. CASE queue.event[e].job # "record"
    BY <2>2 DEF Taking, LeaveExecuting
  <2>. QED  BY <2>1, <2>2
<1>3. FileInv' /\ file'.rows = file.rows
  <2>1. CASE UNCHANGED recorderVars /\ state' = state
    BY <1>1, <2>1 DEF FileInv, recorderVars
  <2>2. CASE "recorder" \in installed /\ Flush /\ state' = "Standby"
    <3>1. file' = [open |-> file.open, header |-> file.header, rows |-> file.rows,
                   saved |-> Len(file.rows)]
      BY <2>2 DEF Flush, FileInv, FileIs
    <3>2. FileIs(file')
      BY <3>1 DEF FileInv, FileIs
    <3>. QED  BY <1>1, <2>2, <3>1, <3>2 DEF Flush, FileInv
  <2>3. CASE "recorder" \notin installed /\ UNCHANGED recorderVars /\ state' = "Standby"
    BY <1>1, <2>3, NoFileIs DEF FileInv, recorderVars, NoFile
  <2>. QED  BY <1>2, <2>1, <2>2, <2>3
<1>4. ASSUME "recorder" \in installed  PROVE \E r : RecordEvent(r)'
  <2>1. PICK r : RecordEvent(r)
    BY <1>4 DEF NextRowInv
  <2>2. r \in Made /\ r \in queue.waiting /\ r # e
    BY <1>4, <2>1 DEF RecordEvent
  <2>3. /\ Made' = Made /\ r \in queue'.waiting
        /\ \A x \in Made : x # e => queue'.event[x] = queue.event[x]
        /\ queue'.event[e].job = queue.event[e].job
    BY <2>2, TakenIs DEF Taking, BaseInv
  <2>4. \A x \in Made : queue'.event[x].job = queue.event[x].job
    BY <2>3
  <2>5. RecordEvent(r)'
    BY <1>1, <1>3, <2>1, <2>2, <2>3, <2>4 DEF RecordEvent
  <2>. QED  BY <2>5
<1>. QED  BY <1>1, <1>3, <1>4 DEF NextRowInv

LEMMA FileStep ==
  ASSUME BaseInv, FileInv, NextRowInv, [Next]_vars
  PROVE  FileInv' /\ NextRowInv'
<1>1. CASE ExecuteRest /\ \E e \in queue.waiting : Taking(e)
  BY <1>1, RecordTakenKeeps, OtherTakenKeeps
<1>2. CASE ~ (ExecuteRest /\ \E e \in queue.waiting : Taking(e))
  <2>1. QueueKept
    BY <1>2, BaseStep
  <2>2. CASE UpdateTime
    <3>1. UNCHANGED <<recorderVars, state, installed>>
      BY <2>2 DEF UpdateTime, loopRest
    <3>2. FileInv' /\ file' = file
      BY <3>1 DEF FileInv, recorderVars
    <3>. QED  BY <2>1, <2>2, <3>1, <3>2, RowIsNotPassed, NextRowKept
  <2>3. CASE Initialise
    <3>1. /\ file'.open /\ file'.rows = <<>> /\ file'.saved = 0
          /\ format' = format /\ relinked' = relinked /\ recFields' = recFields
          /\ format = "csv" => file'.header = CsvColumns(recFields)
          /\ file' = [open |-> TRUE, rows |-> <<>>, saved |-> 0, header |-> file'.header]
          /\ installed' = installed /\ now' = now /\ state = "Initialising"
          /\ state' \in {"Initialising", "Standby"}
      BY <2>3 DEF Initialise, RecorderOpens, metaVars
    <3>2. FileIs(file') /\ Len(file'.rows) = 0 /\ DOMAIN file'.rows = {}
      <4>1. <<>> \in Seq({}) /\ Len(<<>>) = 0 /\ DOMAIN <<>> = {}
        OBVIOUS
      <4>. QED  BY <3>1, <4>1 DEF FileIs
    <3>3. "recorder" \in installed
      BY <3>1 DEF FileInv
    <3>4. FileInv'
      BY <3>1, <3>2, <3>3 DEF FileInv
    <3>. QED  BY <2>1, <3>1, <3>2, <3>4, NextRowKept
  <2>4. CASE ExitSimulation
    <3>1. /\ file' = [open |-> FALSE, header |-> file.header, rows |-> file.rows,
                      saved |-> Len(file.rows)]
          /\ format' = format /\ relinked' = relinked /\ recFields' = recFields
          /\ installed' = installed /\ now' = now /\ state' = "Exiting"
          /\ "recorder" \in installed
      BY <2>4 DEF ExitSimulation, Close, metaVars, FileInv, FileIs
    <3>2. FileIs(file')
      BY <3>1 DEF FileInv, FileIs
    <3>3. FileInv'
      BY <3>1, <3>2 DEF FileInv
    <3>. QED  BY <2>1, <3>1, <3>3, NextRowKept
  <2>5. CASE Client /\ LinkField
    <3>1. /\ file' = file /\ format' = format /\ relinked' = TRUE
          /\ UNCHANGED <<now, state, installed>>
      BY <2>5 DEF Client, LinkField, FieldHolderConnect, FieldHolderDisconnect, metaVars
    <3>2. FileInv'
      <4>1. CASE format = "hdf5" \/ ~ relinked
        BY <3>1, <4>1 DEF FileInv
      <4>2. CASE ~ (format = "hdf5" \/ ~ relinked)
        BY <3>1, <4>2 DEF FileInv
      <4>. QED  BY <4>1, <4>2
    <3>. QED  BY <2>1, <3>1, <3>2, NextRowKept
  <2>6. CASE ~ (UpdateTime \/ Initialise \/ ExitSimulation \/ (Client /\ LinkField))
    <3>1. /\ UNCHANGED <<recorderVars, installed, now>>
          /\ state' = state \/ Run
      <4>1. ASSUME Execute  PROVE Waiting /\ ExecuteRest
        BY <1>2, <4>1, ExecuteIs
      <4>2. CASE Execute
        BY <4>1, <4>2 DEF Waiting, ExecuteRest
      <4>3. CASE Client /\ ~ LinkField
        BY <4>3 DEF Client, CallMeta, WriteField, HoldSimulation, metaVars
      <4>4. CASE Run
        BY <4>4 DEF Run, loopRest
      <4>5. CASE ChangeTime \/ EmitNext \/ PreExec \/ Finish
        BY <4>5 DEF ChangeTime, EmitNext, PreExec, Finish, loopRest
      <4>6. CASE Exit \/ Synchronize \/ UNCHANGED vars
        BY <4>6 DEF Exit, Synchronize, loopRest, vars, metaVars
      <4>. QED  BY <2>6, <4>2, <4>3, <4>4, <4>5, <4>6 DEF Next, Loop
    <3>2. UNCHANGED <<format, recFields, file, relinked>>
      BY <3>1 DEF recorderVars
    <3>3. FileInv'
      <4>1. CASE state' = state
        BY <3>1, <3>2, <4>1 DEF FileInv
      <4>2. CASE Run
        BY <3>1, <3>2, <4>2 DEF Run, FileInv
      <4>. QED  BY <3>1, <4>1, <4>2
    <3>. QED  BY <2>1, <3>1, <3>2, <3>3, NextRowKept
  <2>. QED  BY <2>2, <2>3, <2>4, <2>5, <2>6
<1>. QED  BY <1>1, <1>2

\* In Standby all rows have left the process; there is one for each recording
\* period, with the cells of the columns (FieldRecorderCsv and
\* FieldRecorderHDF5: init, step, flush and disconnect).
THEOREM RowsAreKept == Spec => []RecordsAreKept
<1>1. BaseInv /\ FileInv /\ NextRowInv /\ [Next]_vars => FileInv' /\ NextRowInv'
  BY FileStep
<1>2. BaseInv /\ FileInv => RecordsAreKept
  BY DEF BaseInv, LoopInv, FileInv, RecordsAreKept
<1>. QED  BY FileInit, <1>1, <1>2, SchedulesAgree, PTL DEF Spec

-----------------------------------------------------------------------------
(***************************************************************************)
(* The phase of a schedule.                                                *)
(***************************************************************************)
LEMMA DivisionIs ==
  ASSUME NEW P \in Nat \ {0}, NEW x \in Int
  PROVE  x \div P \in Int /\ x % P \in 0 .. P - 1 /\ x = (P * (x \div P)) + (x % P)
<1>1. \A Q \in Nat \ {0}, y \in Int :
        y \div Q \in Int /\ y % Q \in 0 .. Q - 1 /\ y = (Q * (y \div Q)) + (y % Q)
  OBVIOUS
<1>. QED  BY <1>1

LEMMA DivisionIsUnique ==
  ASSUME NEW P \in Nat \ {0}, NEW q \in Int, NEW r \in 0 .. P - 1
  PROVE  ((P * q) + r) % P = r
<1> DEFINE x == (P * q) + r
           d == x \div P
           m == x % P
<1>1. P * q \in Int /\ x \in Int /\ x = (P * q) + r
  OBVIOUS
<1>. HIDE DEF x
<1>2. d \in Int /\ m \in 0 .. P - 1 /\ x = (P * d) + m
  BY <1>1, DivisionIs
<1>. HIDE DEF d, m
<1>3. P * (q - d) = m - r
  <2>1. P * (q - d) = (P * q) - (P * d)
    BY <1>2
  <2>2. P * d \in Int
    BY <1>2
  <2>. QED  BY <1>1, <1>2, <2>1, <2>2
<1>4. q = d
  <2>1. ASSUME NEW k \in Int, k >= 1  PROVE P * k >= P
    BY <2>1
  <2>2. CASE q > d
    <3>1. P * (q - d) >= P
      BY <1>2, <2>1, <2>2
    <3>. QED  BY <1>2, <1>3, <3>1
  <2>3. CASE q < d
    <3>1. P * (d - q) >= P
      BY <1>2, <2>1, <2>3
    <3>2. P * (d - q) = 0 - (P * (q - d))
      BY <1>2
    <3>. QED  BY <1>2, <1>3, <3>1, <3>2
  <2>. QED  BY <1>2, <2>2, <2>3
<1>5. m = r
  BY <1>1, <1>2, <1>4
<1>. QED  BY <1>5 DEF m, x

\* Whole periods later the phase is the same.
LEMMA PeriodsLater ==
  ASSUME NEW P \in Nat \ {0}, NEW k \in Int, NEW t \in Int
  PROVE  ((P * k) + t) % P = t % P
<1> DEFINE d == t \div P
           m == t % P
<1>1. d \in Int /\ m \in 0 .. P - 1 /\ t = (P * d) + m
  BY DivisionIs
<1>. HIDE DEF d, m
<1>2. (P * k) + t = (P * (k + d)) + m
  <2>1. P * (k + d) = (P * k) + (P * d)
    BY <1>1
  <2>2. P * k \in Int /\ P * d \in Int
    BY <1>1
  <2>. QED  BY <1>1, <2>1, <2>2
<1>3. ((P * (k + d)) + m) % P = m
  BY <1>1, DivisionIsUnique
<1>. QED  BY <1>2, <1>3 DEF m

\* After the time to the next multiple of the period plus an offset, the phase
\* is that of the offset.
LEMMA WaitIsInPhase ==
  ASSUME NEW P \in Nat \ {0}, NEW n \in Int, NEW T \in Int
  PROVE  (n + ((P - (n % P) + T) % P)) % P = T % P
<1> DEFINE d == n \div P
           a == n % P
           e == (P - a + T) \div P
           y == (P - a + T) % P
           k == d + 1 - e
<1>1. d \in Int /\ a \in 0 .. P - 1 /\ n = (P * d) + a
  BY DivisionIs
<1>. HIDE DEF d, a
<1>2. P - a + T \in Int
  BY <1>1
<1>3. e \in Int /\ y \in 0 .. P - 1 /\ P - a + T = (P * e) + y
  BY <1>2, DivisionIs
<1>. HIDE DEF e, y
<1>4. n + y = (P * k) + T
  <2>1. P * k = (P * d) + P - (P * e)
    BY <1>1, <1>3
  <2>2. P * d \in Int /\ P * e \in Int
    BY <1>1, <1>3
  <2>. HIDE DEF k
  <2>. QED  BY <1>1, <1>3, <2>1, <2>2
<1>5. k \in Int
  BY <1>1, <1>3
<1>. HIDE DEF k
<1>6. ((P * k) + T) % P = T % P
  BY <1>5, PeriodsLater
<1>7. (n + y) % P = T % P
  BY <1>4, <1>6
<1>. QED  BY <1>7 DEF y, a

\* What is waited for after an activation leads to a time of the schedule.
LEMMA ActivationIsInPhase ==
  ASSUME now \in Nat, NEW o \in ScheduleObject, o.time # Never, o.cycle > 0
  PROVE  (now + NextActivation(o)) % o.cycle = o.time % o.cycle
<1>1. o.cycle \in Nat \ {0} /\ o.time \in Int /\ now \in Int
  BY DEF ScheduleObject
<1>2. NextActivation(o) = (o.cycle - (now % o.cycle) + o.time) % o.cycle
  BY DEF NextActivation
<1>. QED  BY <1>1, <1>2, WaitIsInPhase

\* The event r is activated in the phase p, if at all.
InPhase(r, p) == r.period > 0 /\ (r.time # Never => r.time % r.period = p)

\* The event of a schedule that has a phase to respect is in this phase, and
\* no event that waits is late.
TimesInv ==
  /\ phase \in [Periodic -> Int]
  /\ \A s \in Periodic : phase[s] # None =>
       object[s].id # None /\ InPhase(queue.event[object[s].id], phase[s])
  /\ \A e \in queue.waiting :
       queue.event[e].time \in {Never, Immediate} \/ queue.event[e].time >= now

\* A call that leaves the events alone.
LEMMA SameTimes ==
  ASSUME TimesInv, UNCHANGED <<queue, phase, now>>,
         \A x \in Periodic : object'[x].id = object[x].id
  PROVE  TimesInv'
  BY DEF TimesInv, InPhase

\* A call that concerns the event of one periodic schedule.
LEMMA AdjustingTimes ==
  ASSUME MetaInv, TimesInv, now' = now, NEW s \in Periodic, NEW id, id = object[s].id,
         \A x \in Periodic : object'[x].id = object[x].id,
         NEW p \in Int, phase' = [phase EXCEPT ![s] = p],
         \/ queue' = queue
         \/ /\ id # None /\ Adjusts(queue, queue', id)
            /\ \/ queue'.event[id].time = Never \/ queue'.event[id].time >= now
               \/ /\ queue'.event[id].time = queue.event[id].time
                  /\ id \in queue.waiting \/ id \notin queue'.waiting,
         p # None => id # None /\ InPhase(queue'.event[id], p)
  PROVE  TimesInv'
<1>1. /\ phase' \in [Periodic -> Int] /\ phase'[s] = p
      /\ \A x \in Periodic : x # s => phase'[x] = phase[x]
  BY DEF TimesInv
<1>2. ASSUME NEW x \in Periodic, phase'[x] # None
      PROVE  object'[x].id # None /\ InPhase(queue'.event[object'[x].id], phase'[x])
  <2>1. CASE x = s
    BY <1>1, <1>2, <2>1
  <2>2. CASE x # s
    <3>1. object[x].id # None /\ InPhase(queue.event[object[x].id], phase[x])
      BY <1>1, <1>2, <2>2 DEF TimesInv
    <3>2. object[x].id \in EventId /\ (id # None => object[x].id # id)
      BY <2>2, <3>1, MadeIsEventId DEF MetaInv, IdsAgree, Schedules
    <3>3. queue'.event[object[x].id] = queue.event[object[x].id]
      BY <3>2 DEF Adjusts
    <3>. QED  BY <1>1, <2>2, <3>1, <3>3
  <2>. QED  BY <2>1, <2>2
<1>3. ASSUME NEW e \in queue'.waiting
      PROVE  queue'.event[e].time \in {Never, Immediate} \/ queue'.event[e].time >= now'
  <2>1. CASE queue' = queue
    BY <1>3, <2>1 DEF TimesInv
  <2>2. CASE id # None /\ Adjusts(queue, queue', id) /\ e # id
    <3>1. e \in queue.waiting /\ e \in EventId
      BY <1>3, <2>2, MadeIsEventId DEF Adjusts, MetaInv, MetaTypes
    <3>2. queue'.event[e] = queue.event[e]
      BY <2>2, <3>1 DEF Adjusts
    <3>. QED  BY <3>1, <3>2 DEF TimesInv
  <2>3. CASE id # None /\ Adjusts(queue, queue', id) /\ e = id
    BY <1>3, <2>3 DEF TimesInv
  <2>. QED  BY <2>1, <2>2, <2>3
<1>. QED  BY <1>1, <1>2, <1>3 DEF TimesInv

\* A call that makes an event.
LEMMA AddingTimes ==
  ASSUME MetaInv, TimesInv, UNCHANGED <<now, phase>>, queue.next < MaxEvents,
         NEW job \in Schedules \union OtherJob, NEW t \in EventTime,
         NEW period \in Int, NEW repeat \in Int,
         queue' = Added(queue, job, t, period, repeat),
         t \in {Never, Immediate} \/ t >= now,
         \A x \in Periodic : object'[x].id = object[x].id \/ object[x].id = None
  PROVE  TimesInv'
<1>1. /\ queue.next \in EventId /\ queue'.waiting = queue.waiting \union {queue.next}
      /\ \A x \in EventId : x # queue.next => queue'.event[x] = queue.event[x]
      /\ queue'.event[queue.next].time = t
  <2>1. queue \in Queue
    BY DEF MetaInv, MetaTypes
  <2>2. queue'.event[queue.next] = [time |-> t, period |-> period, repeat |-> repeat,
                                    completed |-> FALSE, job |-> job]
    BY <2>1, AddedIs
  <2>. QED  BY <2>1, <2>2, AddedIs
<1>2. \A x \in Made : x \in EventId /\ x # queue.next
  BY <1>1, MadeIsEventId DEF MetaInv, Made, EventId
<1>3. \A x \in Made : queue'.event[x] = queue.event[x]
  BY <1>1, <1>2
<1>4. ASSUME NEW x \in Periodic, phase[x] # None
      PROVE  object'[x].id # None /\ InPhase(queue'.event[object'[x].id], phase[x])
  <2>1. object[x].id # None /\ InPhase(queue.event[object[x].id], phase[x])
    BY <1>4 DEF TimesInv
  <2>2. object[x].id \in Made
    BY <2>1 DEF MetaInv, IdsAgree, Schedules
  <2>. QED  BY <1>3, <2>1, <2>2
<1>5. \A e \in queue.waiting : queue'.event[e] = queue.event[e]
  BY <1>3 DEF MetaInv, MetaTypes
<1>6. \A e \in queue'.waiting :
        queue'.event[e].time \in {Never, Immediate} \/ queue'.event[e].time >= now
  BY <1>1, <1>5 DEF TimesInv
<1>. QED  BY <1>4, <1>6 DEF TimesInv

-----------------------------------------------------------------------------
(***************************************************************************)
(* The calls of the meta scheduler, at a time that the scheduler knows.    *)
(***************************************************************************)
LEMMA SetTimeTimes ==
  ASSUME MetaInv, schedTime = now, NEW id \in EventId \union {None}, NEW rel \in Nat \union {Never},
         NEW q, q = SetEventSimulationTime(queue, id, rel)
  PROVE  /\ q = queue \/ (id # None /\ Adjusts(queue, q, id))
         /\ Known(queue, id) => /\ q.event[id].time = IF rel = Never THEN Never ELSE now + rel
                                /\ q.event[id].period = queue.event[id].period
         /\ ~ Known(queue, id) => q = queue
<1>1. queue \in Queue /\ schedTime \in Nat
  BY DEF MetaInv, MetaTypes
<1>2. CASE Known(queue, id)
  <2>1. id \in EventId /\ id # None
    BY <1>2 DEF Known
  <2>2. /\ Adjusts(queue, q, id)
        /\ q.event[id].time = Absolute(rel)
    BY <1>1, <1>2, TimeAdjusts
  <2>3. q.event[id].period = queue.event[id].period
    <3>1. queue.event[id] \in EventRecord
      BY <1>1, <2>1 DEF Queue
    <3>2. q.event = [queue.event EXCEPT ![id].time = Absolute(rel)]
      BY <1>1, <1>2 DEF SetEventSimulationTime, SetTime, Queue
    <3>. QED  BY <1>1, <2>1, <3>1, <3>2 DEF Queue, EventRecord
  <2>. QED  BY <1>2, <2>1, <2>2, <2>3 DEF Absolute
<1>3. CASE ~ Known(queue, id)
  <2>1. q = queue
    BY <1>3 DEF SetEventSimulationTime
  <2>. QED  BY <1>3, <2>1
<1>. QED  BY <1>2, <1>3

LEMMA ActivateTimes ==
  ASSUME MetaInv, TimesInv, schedTime = now, UNCHANGED now,
         NEW s \in Schedules, epActivate(s)
  PROVE  TimesInv'
<1>1. /\ object \in [Schedules -> ScheduleObject] /\ object[s] \in ScheduleObject
      /\ now \in Nat /\ queue \in Queue
  BY DEF MetaInv, MetaTypes
<1>2. \A x \in Periodic : object'[x].id = object[x].id
  BY <1>1 DEF epActivate, Schedules, ScheduleObject
<1>3. CASE s \notin Periodic
  BY <1>2, <1>3, SameTimes DEF epActivate, PhaseAfterActivation
<1>4. CASE s \in Periodic
  <2> DEFINE o == object[s]
             p == IF /\ Known(queue, o.id) /\ o.time # Never /\ o.cycle > 0
                     /\ queue.event[o.id].period = o.cycle
                  THEN o.time % o.cycle ELSE None
  <2>1. /\ queue' = SetEventSimulationTime(queue, o.id, NextActivation(o))
        /\ phase' = [phase EXCEPT ![s] = p]
    BY <1>4 DEF epActivate, PhaseAfterActivation
  <2>2. /\ o.id \in EventId \union {None} /\ o \in ScheduleObject
        /\ o.time \in Int /\ o.cycle \in Int
    BY <1>1 DEF ScheduleObject, Never
  <2>3. NextActivation(o) \in Nat /\ NextActivation(o) # Never
    BY <1>1, NextActivationType DEF Never
  <2>4. /\ queue' = queue \/ (o.id # None /\ Adjusts(queue, queue', o.id))
        /\ Known(queue, o.id) => /\ queue'.event[o.id].time = now + NextActivation(o)
                                 /\ queue'.event[o.id].period = queue.event[o.id].period
        /\ ~ Known(queue, o.id) => queue' = queue
    <3> DEFINE id  == o.id
               rel == NextActivation(o)
    <3>1. /\ id \in EventId \union {None} /\ rel \in Nat \union {Never} /\ rel # Never
          /\ queue' = SetEventSimulationTime(queue, id, rel)
      BY <2>1, <2>2, <2>3
    <3>. HIDE DEF id, rel
    <3>2. /\ queue' = queue \/ (id # None /\ Adjusts(queue, queue', id))
          /\ Known(queue, id) => /\ queue'.event[id].time = now + rel
                                 /\ queue'.event[id].period = queue.event[id].period
          /\ ~ Known(queue, id) => queue' = queue
      BY <3>1, SetTimeTimes
    <3>. QED  BY <3>2 DEF id, rel
  <2>5. p \in Int
    <3>1. ASSUME o.cycle > 0  PROVE o.time % o.cycle \in Int
      BY <2>2, <3>1
    <3>. QED  BY <3>1 DEF None
  <2>6. p # None => o.id # None /\ InPhase(queue'.event[o.id], p)
    <3>. SUFFICES ASSUME p # None PROVE o.id # None /\ InPhase(queue'.event[o.id], p)
      OBVIOUS
    <3>1. /\ Known(queue, o.id) /\ o.time # Never /\ o.cycle > 0
          /\ queue.event[o.id].period = o.cycle
          /\ p = o.time % o.cycle
      OBVIOUS
    <3>2. (now + NextActivation(o)) % o.cycle = o.time % o.cycle
      BY <1>1, <3>1, ActivationIsInPhase
    <3>. HIDE DEF p, o
    <3>. QED  BY <2>4, <3>1, <3>2 DEF InPhase, Known
  <2>7. queue' = queue \/ queue'.event[o.id].time >= now
    BY <1>1, <2>3, <2>4
  <2>. HIDE DEF o, p
  <2>8. /\ o.id = object[s].id /\ now' = now
    BY DEF o
  <2>9. \/ queue' = queue
        \/ o.id # None /\ Adjusts(queue, queue', o.id) /\ queue'.event[o.id].time >= now
    BY <2>4, <2>7
  <2>. QED  BY <1>2, <1>4, <2>1, <2>5, <2>6, <2>8, <2>9, AdjustingTimes
<1>. QED  BY <1>3, <1>4

LEMMA DeactivateTimes ==
  ASSUME MetaInv, TimesInv, schedTime = now, UNCHANGED now,
         NEW s \in Schedules, epDeactivate(s)
  PROVE  TimesInv'
<1>1. /\ object \in [Schedules -> ScheduleObject] /\ object[s] \in ScheduleObject
      /\ now \in Nat /\ queue \in Queue
  BY DEF MetaInv, MetaTypes
<1>2. \A x \in Periodic : object'[x].id = object[x].id
  BY <1>1 DEF epDeactivate, Schedules, ScheduleObject
<1>3. CASE queue' = queue
  BY <1>2, <1>3, SameTimes DEF epDeactivate
<1>4. CASE queue' # queue
  <2> DEFINE id == object[s].id
             p == phase[s]
  <2>1. s \in Periodic /\ queue' = SetEventSimulationTime(queue, id, Never)
    BY <1>4 DEF epDeactivate
  <2>2. id \in EventId \union {None} /\ Never \in Nat \union {Never}
    BY <1>1 DEF ScheduleObject
  <2>3. /\ id # None /\ Adjusts(queue, queue', id)
        /\ queue'.event[id].time = Never
        /\ queue'.event[id].period = queue.event[id].period
    BY <1>4, <2>1, <2>2, SetTimeTimes
  <2>4. phase' = [phase EXCEPT ![s] = p] /\ p \in Int
    BY <2>1 DEF epDeactivate, TimesInv
  <2>5. p # None => InPhase(queue'.event[id], p)
    BY <2>1, <2>3 DEF TimesInv, InPhase
  <2>6. id = object[s].id /\ now' = now
    OBVIOUS
  <2>. HIDE DEF id, p
  <2>. QED  BY <1>2, <2>1, <2>3, <2>4, <2>5, <2>6, AdjustingTimes
<1>. QED  BY <1>3, <1>4

LEMMA SubmitNewTimes ==
  ASSUME MetaInv, TimesInv, schedTime = now, UNCHANGED now,
         NEW s \in Periodic, NEW o \in ScheduleObject, o.id = object[s].id,
         o.id = None, SubmitNew(s, o)
  PROVE  TimesInv'
<1>1. object \in [Schedules -> ScheduleObject] /\ schedTime \in Nat /\ s \in Schedules
  BY DEF MetaInv, MetaTypes, Schedules
<1>2. CASE o.repeat > 0 /\ BadCycle(o.cycle)
  <2>1. UNCHANGED <<queue, phase>> /\ object' = [object EXCEPT ![s] = o]
    BY <1>2 DEF SubmitNew
  <2>2. \A x \in Periodic : object'[x].id = object[x].id
    BY <1>1, <2>1 DEF Schedules
  <2>. QED  BY <2>1, <2>2, SameTimes
<1>3. CASE ~ (o.repeat > 0 /\ BadCycle(o.cycle))
  <2> DEFINE t == Absolute(FirstTime(o))
  <2>1. /\ queue.next < MaxEvents
        /\ queue' = Added(queue, s, t, o.cycle, o.repeat)
        /\ object' = [object EXCEPT ![s] = [o EXCEPT !.id = queue.next, !.dirty = {}]]
        /\ UNCHANGED phase
    BY <1>3 DEF SubmitNew
  <2>2. t \in EventTime /\ (t \in {Never, Immediate} \/ t >= now)
    BY <1>1, FirstTimeType DEF Absolute, EventTime, Never, Immediate
  <2>3. \A x \in Periodic : object'[x].id = object[x].id \/ object[x].id = None
    BY <1>1, <2>1 DEF Schedules
  <2>4. o.cycle \in Int /\ o.repeat \in Int
    BY DEF ScheduleObject
  <2>. HIDE DEF t
  <2>. QED  BY <1>1, <2>1, <2>2, <2>3, <2>4, AddingTimes
<1>. QED  BY <1>2, <1>3

LEMMA SubmitInstantTimes ==
  ASSUME MetaInv, TimesInv, UNCHANGED now,
         NEW i \in Instant, NEW o \in ScheduleObject, SubmitInstant(i, o)
  PROVE  TimesInv'
<1>1. object \in [Schedules -> ScheduleObject] /\ i \in Schedules /\ i \notin Periodic
  BY MetaSchedulerAssumption DEF MetaInv, MetaTypes, Schedules, MetaSchedulerAssumption
<1>2. \A x \in Periodic : object'[x].id = object[x].id
  BY <1>1 DEF SubmitInstant, Schedules
<1>3. CASE ~ o.active
  BY <1>2, <1>3, SameTimes DEF SubmitInstant
<1>4. CASE o.active
  <2>1. /\ queue.next < MaxEvents /\ phase' = phase
        /\ queue' = Added(queue, i, Immediate, 0, 0)
    BY <1>4 DEF SubmitInstant
  <2>2. Immediate \in EventTime
    BY DEF EventTime, Immediate
  <2>. QED  BY <1>1, <1>2, <2>1, <2>2, AddingTimes
<1>. QED  BY <1>3, <1>4

\* Cycle time and repeat count are no matter of time.
LEMMA SetCycleTimes ==
  ASSUME NEW q \in Queue, NEW e \in EventId \union {None}, NEW cycle \in Int
  PROVE  /\ SetEventCycleTime(q, e, cycle).waiting = q.waiting
         /\ SetEventCycleTime(q, e, cycle).event[e].time = q.event[e].time
<1>1. SetEventCycleTime(q, e, cycle).waiting = q.waiting
  BY DEF SetEventCycleTime, Queue
<1>2. CASE e \in EventId
  BY <1>1, <1>2, CycleAdjusts
<1>3. CASE e = None
  BY <1>3 DEF SetEventCycleTime, Known
<1>. QED  BY <1>1, <1>2, <1>3

LEMMA SetRepeatTimes ==
  ASSUME NEW q \in Queue, NEW e \in EventId \union {None}, NEW repeat \in Int
  PROVE  /\ SetEventRepeat(q, e, repeat).waiting = q.waiting
         /\ SetEventRepeat(q, e, repeat).event[e].time = q.event[e].time
         /\ SetEventRepeat(q, e, repeat).event[e].period = q.event[e].period
<1>1. CASE Known(q, e)
  <2>1. e \in EventId
    BY <1>1 DEF Known
  <2>2. SetEventRepeat(q, e, repeat) =
          [event |-> [q.event EXCEPT ![e].repeat = repeat], waiting |-> q.waiting,
           next |-> q.next]
    BY <1>1 DEF SetEventRepeat, Queue
  <2>. QED  BY <2>1, <2>2 DEF Queue, EventRecord
<1>2. CASE ~ Known(q, e)
  BY <1>2 DEF SetEventRepeat
<1>. QED  BY <1>1, <1>2

LEMMA SubmitAgainTimes ==
  ASSUME MetaInv, TimesInv, schedTime = now, UNCHANGED now,
         NEW s \in Periodic, NEW o \in ScheduleObject, o.id = object[s].id,
         o.id # None, SubmitAgain(s, o)
  PROVE  TimesInv'
<1> DEFINE timed  == Resubmitted(queue, o)
           cycled == IF "cycle" \in o.dirty THEN SetEventCycleTime(timed, o.id, o.cycle)
                     ELSE timed
           last   == IF "repeat" \in o.dirty THEN SetEventRepeat(cycled, o.id, o.repeat)
                     ELSE cycled
           p      == [o EXCEPT !.dirty = {}]
           id     == o.id
<1>1. /\ queue' = timed \/ queue' = last
      /\ \/ object' = [object EXCEPT ![s] = o]
         \/ object' = [object EXCEPT ![s] = p]
      /\ phase' = IF "time" \in o.dirty \/ "cycle" \in o.dirty
                  THEN [phase EXCEPT ![s] = None] ELSE phase
  BY DEF SubmitAgain
<1>2. /\ id \in EventId /\ id # None /\ queue \in Queue /\ schedTime \in Nat
      /\ o.cycle \in Int /\ o.repeat \in Int /\ id = object[s].id
      /\ object \in [Schedules -> ScheduleObject]
  BY DEF MetaInv, MetaTypes, ScheduleObject
<1>3. \A x \in Periodic : object'[x].id = object[x].id
  BY <1>1, <1>2 DEF Schedules, ScheduleObject
<1>4. /\ "time" \notin o.dirty => timed = queue
      /\ ~ ("time" \in o.dirty \/ "cycle" \in o.dirty) => cycled = queue
  BY DEF Resubmitted
<1>5. \/ timed = queue
      \/ /\ Adjusts(queue, timed, id)
         /\ timed.event[id].time = Never \/ timed.event[id].time >= now
  <2>1. ASSUME NEW rel, rel = FirstTime(o), timed = SetEventSimulationTime(queue, id, rel)
        PROVE  \/ timed = queue
               \/ /\ Adjusts(queue, timed, id)
                  /\ timed.event[id].time = Never \/ timed.event[id].time >= now
    <3>1. rel \in Nat \union {Never}
      BY <2>1, FirstTimeType
    <3>. HIDE DEF timed, id
    <3>. QED  BY <1>2, <2>1, <3>1, SetTimeTimes
  <2>. QED  BY <2>1 DEF Resubmitted
<1>6. timed \in Queue
  BY <1>2, <1>5 DEF Adjusts
<1>. HIDE DEF timed
<1>7. /\ Adjusts(timed, cycled, id) /\ cycled.waiting = timed.waiting
      /\ cycled.event[id].time = timed.event[id].time
  BY <1>2, <1>6, CycleAdjusts, SetCycleTimes, AdjustsItself
<1>8. cycled \in Queue
  BY <1>7 DEF Adjusts
<1>. HIDE DEF cycled
<1>9. /\ Adjusts(cycled, last, id) /\ last.waiting = cycled.waiting
      /\ last.event[id].time = cycled.event[id].time
      /\ last.event[id].period = cycled.event[id].period
  BY <1>2, <1>8, RepeatAdjusts, SetRepeatTimes, AdjustsItself
<1>. HIDE DEF last, p, id
<1>10. Adjusts(queue, queue', id)
  <2>1. Adjusts(queue, timed, id)
    BY <1>2, <1>5, AdjustsItself
  <2>. QED  BY <1>1, <1>7, <1>9, <2>1, AdjustsTwice
<1>11. \/ queue'.event[id].time = Never \/ queue'.event[id].time >= now
       \/ /\ queue'.event[id].time = queue.event[id].time
          /\ queue'.waiting = queue.waiting
  BY <1>1, <1>5, <1>7, <1>9
<1>12. CASE "time" \in o.dirty \/ "cycle" \in o.dirty
  <2>1. phase' = [phase EXCEPT ![s] = None] /\ None \in Int
    BY <1>1, <1>12 DEF None
  <2>. QED  BY <1>2, <1>3, <1>10, <1>11, <2>1, AdjustingTimes
<1>13. CASE ~ ("time" \in o.dirty \/ "cycle" \in o.dirty)
  <2> DEFINE f == phase[s]
  <2>1. phase' = [phase EXCEPT ![s] = f] /\ f \in Int
    BY <1>1, <1>13 DEF TimesInv
  <2>2. /\ queue'.event[id].time = queue.event[id].time
        /\ queue'.event[id].period = queue.event[id].period
    BY <1>1, <1>4, <1>9, <1>13
  <2>3. f # None => InPhase(queue'.event[id], f)
    BY <1>2, <2>2 DEF TimesInv, InPhase
  <2>4. f # None => id # None /\ InPhase(queue'.event[id], f)
    BY <1>2, <2>3
  <2>. HIDE DEF f
  <2>. QED  BY <1>2, <1>3, <1>10, <1>11, <2>1, <2>4, AdjustingTimes
<1>. QED  BY <1>12, <1>13

LEMMA SubmitTimes ==
  ASSUME MetaInv, TimesInv, schedTime = now, UNCHANGED now,
         NEW s \in Schedules, NEW o \in ScheduleObject, o.id = object[s].id,
         Submit(s, o)
  PROVE  TimesInv'
  BY SubmitNewTimes, SubmitAgainTimes, SubmitInstantTimes DEF Submit, SubmitAs, Schedules

LEMMA EmitTimes ==
  ASSUME MetaInv, TimesInv, schedTime = now, UNCHANGED now, NEW ev \in Event, Emit(ev)
  PROVE  TimesInv'
<1>1. subscribed[ev] \subseteq EventHandler
  BY DEF MetaInv, MetaTypes
<1>2. ASSUME UNCHANGED <<queue, object, phase>>  PROVE TimesInv'
  BY <1>2, SameTimes
<1>3. ASSUME NEW h \in subscribed[ev], Handle(h)  PROVE TimesInv'
  <2>1. /\ h.schedule \in Schedules /\ h.cycle \in Int
        /\ h.kind = "change" => h.schedule \in Periodic
    BY <1>1 DEF EventHandler
  <2>2. CASE epChange(h.schedule, h.cycle, h.delay) /\ h.schedule \in Periodic
    <3>1. object[h.schedule] \in ScheduleObject
      BY <2>1 DEF MetaInv, MetaTypes
    <3>2. /\ WithCycle(object[h.schedule], h.cycle) \in ScheduleObject
          /\ WithCycle(object[h.schedule], h.cycle).id = object[h.schedule].id
      BY <2>1, <3>1 DEF WithCycle, Changed, ScheduleObject
    <3>. QED  BY <1>2, <2>1, <2>2, <3>2, SubmitTimes DEF epChange, Submit
  <2>. QED  BY <1>3, <2>1, <2>2, ActivateTimes, DeactivateTimes DEF Handle
<1>. QED  BY <1>2, <1>3 DEF Emit

LEMMA CallTimes ==
  ASSUME MetaInv, TimesInv, schedTime = now, UNCHANGED now, Call
  PROVE  TimesInv'
<1>1. ASSUME UNCHANGED <<queue, object, phase>>  PROVE TimesInv'
  BY <1>1, SameTimes
<1>2. ASSUME NEW s \in Schedules, NEW o \in Settings(s),
             \/ object' = [object EXCEPT ![s] = o] /\ UNCHANGED <<queue, phase>>
             \/ Submit(s, o)
      PROVE  TimesInv'
  <2>1. o \in ScheduleObject /\ o.id = object[s].id
    BY SettingsKeepId
  <2>2. CASE object' = [object EXCEPT ![s] = o] /\ UNCHANGED <<queue, phase>>
    <3>1. \A x \in Periodic : object'[x].id = object[x].id
      BY <2>1, <2>2 DEF MetaInv, MetaTypes, Schedules
    <3>. QED  BY <2>2, <3>1, SameTimes
  <2>. QED  BY <1>2, <2>1, <2>2, SubmitTimes
<1>. QED  BY <1>1, <1>2, EmitTimes DEF Call, Subscribe, Unsubscribe

-----------------------------------------------------------------------------
(***************************************************************************)
(* The steps of the loop, and the theorem.                                 *)
(***************************************************************************)

\* The scheduler knows the time whenever others run, if the EventTrigger
\* evaluates by an event.
KnownTimeInv ==
  /\ pc \notin {"change", "preExec", "select"} => schedTime = now
  /\ TriggerAt = "event" /\ emitting # <<>> => pc = "run"

LEMMA KnownTimeStep ==
  ASSUME BaseInv, KnownTimeInv, [Next]_vars
  PROVE  KnownTimeInv'
<1>1. CASE Execute
  <2>1. schedTime' = now' /\ emitting = <<>>
    BY <1>1, ExecuteIs DEF ExecuteRest, BaseInv, LoopInv
  <2>2. emitting' = emitting \/ pc' = "run"
    BY <1>1, ExecuteIs DEF Waiting, Taking
  <2>. QED  BY <2>1, <2>2 DEF KnownTimeInv
<1>2. CASE UpdateTime
  <2>1. emitting' = emitting /\ emitting = <<>> /\ pc = "step"
    BY <1>2 DEF UpdateTime, trackerVars, BaseInv, LoopInv
  <2>2. PICK t : NextTimeIs(t) /\ now' = (IF t > now THEN t ELSE now)
                 /\ pc' = IF t > now THEN "change" ELSE IF t = now THEN "preExec" ELSE "dead"
    BY <1>2 DEF UpdateTime
  <2>3. pc' \notin {"change", "preExec", "select"} => now' = now /\ schedTime' = schedTime
    BY <1>2, <2>2 DEF UpdateTime
  <2>. QED  BY <2>1, <2>3 DEF KnownTimeInv
<1>3. CASE ChangeTime
  <2>1. pc' = "preExec" /\ emitting = <<>>
    BY <1>3 DEF ChangeTime, BaseInv, LoopInv
  <2>2. TriggerAt = "event" => emitting' = emitting
    BY <1>3 DEF ChangeTime
  <2>. QED  BY <2>1, <2>2 DEF KnownTimeInv
<1>4. CASE EmitNext \/ Client
  <2>1. UNCHANGED <<pc, now, schedTime>>
    BY <1>4 DEF EmitNext, Client, CallMeta, WriteField, LinkField, HoldSimulation, metaVars
  <2>2. emitting' # <<>> => emitting # <<>>
    BY <1>4 DEF EmitNext, Client, CallMeta, WriteField, LinkField, HoldSimulation, trackerVars
  <2>. QED  BY <2>1, <2>2 DEF KnownTimeInv
<1>5. CASE Run
  <2>1. schedTime' = now' /\ emitting' = emitting /\ emitting = <<>>
    BY <1>5 DEF Run, trackerVars, BaseInv, LoopInv
  <2>. QED  BY <2>1 DEF KnownTimeInv
<1>6. CASE PreExec \/ Finish
  <2>1. /\ emitting' = emitting /\ emitting = <<>>
        /\ pc' = "select" \/ schedTime' = now'
    BY <1>6 DEF PreExec, Finish, trackerVars
  <2>. QED  BY <2>1 DEF KnownTimeInv
<1>7. CASE Initialise \/ ExitSimulation \/ Exit \/ Synchronize \/ UNCHANGED vars
  <2>1. /\ UNCHANGED <<now, schedTime, emitting>>
        /\ pc' = pc \/ (pc = "step" /\ pc' = "exited")
    BY <1>7 DEF Initialise, ExitSimulation, Exit, Synchronize, vars, metaVars, trackerVars
  <2>. QED  BY <2>1 DEF KnownTimeInv
<1>. QED  BY <1>1, <1>2, <1>3, <1>4, <1>5, <1>6, <1>7 DEF Next, Loop

\* The time of an event that is taken is the present time, or it is immediate.
LEMMA TakenInTime ==
  ASSUME BaseInv, TimesInv, NEW e \in queue.waiting, Taking(e)
  PROVE  queue.event[e].time = Immediate \/ queue.event[e].time = now
<1>1. queue.event[e].time \in Int /\ now \in Nat
  BY DEF BaseInv, MetaInv, MetaTypes, Queue, EventRecord, EventTime
<1>. QED  BY <1>1 DEF Taking, TimesInv

LEMMA TakingTimes ==
  ASSUME BaseInv, TimesInv, ExecuteRest, NEW e \in queue.waiting, Taking(e)
  PROVE  TimesInv'
<1>1. /\ e \in Made /\ queue'.waiting \subseteq queue.waiting
      /\ \A x \in Made : x # e => queue'.event[x] = queue.event[x]
      /\ queue'.event[e].period = queue.event[e].period
      /\ IF queue.event[e].repeat # 0 /\ queue.event[e].period > 0
         THEN queue'.event[e].time = queue.event[e].time + queue.event[e].period
         ELSE queue'.event[e].time = queue.event[e].time
  BY TakenIs DEF Taking, BaseInv
<1>2. UNCHANGED <<object, phase, now>>
  BY DEF ExecuteRest, quietMeta
<1>3. /\ queue.event[e].time \in Int /\ queue.event[e].period \in Int /\ now \in Nat
      /\ queue.event[e].time = Immediate \/ queue.event[e].time = now
  BY TakenInTime DEF BaseInv, MetaInv, MetaTypes, Queue, EventRecord, EventTime
<1>4. queue'.event[e].time = Immediate \/ queue'.event[e].time >= now
  <2>1. queue.event[e].time = Immediate => queue.event[e].period = 0
    BY <1>1 DEF BaseInv, MetaInv, ImmediateOnce
  <2>. QED  BY <1>1, <1>3, <2>1
<1>5. ASSUME NEW p \in Int, InPhase(queue.event[e], p)
      PROVE  InPhase(queue'.event[e], p)
  <2> DEFINE P == queue.event[e].period
             t == queue.event[e].time
  <2>1. P \in Nat \ {0} /\ t \in Int /\ t # Never /\ t % P = p
    BY <1>3, <1>5 DEF InPhase, Taking
  <2>2. queue'.event[e].period = P
        /\ (queue'.event[e].time = t + P \/ queue'.event[e].time = t)
    BY <1>1
  <2>. HIDE DEF P, t
  <2>3. (t + P) % P = p
    <3>1. ASSUME NEW k \in Int, k = 1  PROVE ((P * k) + t) % P = t % P
      BY <2>1, PeriodsLater
    <3>2. ASSUME NEW k \in Int, k = 1  PROVE (P * k) + t = t + P
      BY <2>1, <3>2
    <3>. QED  BY <2>1, <3>1, <3>2
  <2>. QED  BY <2>1, <2>2, <2>3 DEF InPhase
<1>6. ASSUME NEW s \in Periodic, phase[s] # None
      PROVE  object[s].id # None /\ InPhase(queue'.event[object[s].id], phase[s])
  <2>1. object[s].id # None /\ InPhase(queue.event[object[s].id], phase[s])
    BY <1>6 DEF TimesInv
  <2>2. object[s].id \in Made /\ phase[s] \in Int
    BY <2>1 DEF BaseInv, MetaInv, IdsAgree, Schedules, TimesInv
  <2>. QED  BY <1>1, <1>5, <2>1, <2>2
<1>7. \A x \in queue'.waiting :
        queue'.event[x].time \in {Never, Immediate} \/ queue'.event[x].time >= now
  BY <1>1, <1>4 DEF TimesInv, BaseInv, MetaInv, MetaTypes
<1>. QED  BY <1>2, <1>6, <1>7 DEF TimesInv

LEMMA FinishTimes ==
  ASSUME BaseInv, TimesInv, Finish
  PROVE  TimesInv'
<1>1. /\ current \in Made /\ current \in EventId /\ Made \subseteq EventId /\ queue \in Queue
      /\ UNCHANGED <<object, phase, now>>
  BY MadeIsEventId DEF Finish, BaseInv, LoopInv, MetaInv, MetaTypes
<1>2. ASSUME UNCHANGED queue  PROVE TimesInv'
  BY <1>1, <1>2, SameTimes
<1>3. ASSUME queue.event[current].period = -1, queue' = SetTime(queue, current, Never)
      PROVE  TimesInv'
  <2>1. /\ Adjusts(queue, queue', current) /\ queue'.event[current].time = Never
    BY <1>1, <1>3, SetTimeAdjusts
  <2>2. \A s \in Periodic : phase[s] # None =>
          /\ object[s].id # None /\ object[s].id \in EventId /\ object[s].id # current
    BY <1>1, <1>3 DEF TimesInv, InPhase, BaseInv, MetaInv, IdsAgree, Schedules
  <2>3. \A x \in EventId : x # current => queue'.event[x] = queue.event[x]
    BY <2>1 DEF Adjusts
  <2>4. \A s \in Periodic : phase[s] # None =>
          object[s].id # None /\ InPhase(queue'.event[object[s].id], phase[s])
    BY <2>2, <2>3 DEF TimesInv
  <2>5. \A x \in queue'.waiting :
          queue'.event[x].time \in {Never, Immediate} \/ queue'.event[x].time >= now
    <3>1. \A x \in queue'.waiting : x = current \/ (x \in queue.waiting /\ x \in EventId)
      BY <1>1, <2>1 DEF Adjusts, BaseInv, MetaInv, MetaTypes
    <3>. QED  BY <2>1, <2>3, <3>1 DEF TimesInv
  <2>. QED  BY <1>1, <2>4, <2>5 DEF TimesInv
<1>. QED  BY <1>2, <1>3 DEF Finish

\* The start of the simulation, or a hold.
LEMMA ImmediateTimes ==
  ASSUME MetaInv, TimesInv, UNCHANGED <<object, phase, now>>, queue.next < MaxEvents,
         NEW job \in {"start", "stop"}, queue' = Added(queue, job, Immediate, 0, 0)
  PROVE  TimesInv'
<1>1. Immediate \in EventTime /\ job \in Schedules \union OtherJob
  BY DEF EventTime, Immediate, OtherJob
<1>. QED  BY <1>1, AddingTimes

LEMMA TimesStep ==
  ASSUME TriggerAt = "event", BaseInv, TimesInv, KnownTimeInv, [Next]_vars
  PROVE  TimesInv'
<1>1. CASE Execute
  <2>1. ExecuteRest
    BY <1>1, ExecuteIs
  <2>2. CASE Waiting
    BY <2>1, <2>2, SameTimes DEF Waiting, ExecuteRest, quietMeta
  <2>. QED  BY <1>1, <2>1, <2>2, ExecuteIs, TakingTimes
<1>2. CASE UpdateTime
  <2>1. UNCHANGED <<queue, object, phase>>
    BY <1>2 DEF UpdateTime, quietMeta
  <2>2. \A e \in queue.waiting : queue.event[e].time >= now => queue.event[e].time >= now'
    BY <1>2, RowIsNotPassed
  <2>. QED  BY <2>1, <2>2 DEF TimesInv, InPhase
<1>3. CASE ChangeTime
  <2>1. UNCHANGED <<object, phase, now>>
    BY <1>3 DEF ChangeTime, quietMeta
  <2>2. CASE UNCHANGED queue
    BY <2>1, <2>2, SameTimes
  <2>3. CASE queue.next < MaxEvents /\ queue' = Hold
    BY <2>1, <2>3, ImmediateTimes DEF Hold, BaseInv
  <2>. QED  BY <1>3, <2>2, <2>3 DEF ChangeTime, EvaluateControl
<1>4. CASE EmitNext
  <2>1. schedTime = now /\ now' = now
    BY <1>4 DEF EmitNext, KnownTimeInv
  <2>2. CASE \E ev \in Event : Emit(ev)
    BY <2>1, <2>2, EmitTimes DEF BaseInv
  <2>3. CASE UNCHANGED <<queue, object, phase>>
    BY <2>1, <2>3, SameTimes
  <2>4. \A c \in DOMAIN Emitted : Emitted[c] \in Event
    BY ColibryAssumption DEF ColibryAssumption
  <2>. QED  BY <1>4, <2>2, <2>3, <2>4 DEF EmitNext
<1>5. CASE Client /\ CallMeta
  <2>1. schedTime = now /\ now' = now /\ Call
    BY <1>5 DEF CallMeta, InClient, KnownTimeInv
  <2>. QED  BY <2>1, CallTimes DEF BaseInv
<1>6. CASE (Client /\ HoldSimulation) \/ Run
  BY <1>6, ImmediateTimes DEF HoldSimulation, Hold, Run, quietMeta, BaseInv
<1>7. CASE Finish
  BY <1>7, FinishTimes
<1>8. CASE \/ Client /\ (WriteField \/ LinkField)
           \/ PreExec \/ Exit \/ Initialise \/ ExitSimulation \/ Synchronize \/ UNCHANGED vars
  <2>1. UNCHANGED <<queue, object, phase, now>>
    BY <1>8 DEF WriteField, LinkField, PreExec, Exit, Initialise, ExitSimulation, Synchronize,
                vars, metaVars
  <2>. QED  BY <2>1, SameTimes
<1>. QED  BY <1>1, <1>2, <1>3, <1>4, <1>5, <1>6, <1>7, <1>8 DEF Next, Loop, Client

LEMMA TimesInit == Init => TimesInv /\ KnownTimeInv
<1>. SUFFICES ASSUME Init PROVE TimesInv /\ KnownTimeInv
  OBVIOUS
<1>1. /\ queue = Connected(installed) /\ schedTime = 0 /\ now = 0 /\ emitting = <<>>
      /\ phase = [s \in Periodic |-> None]
  BY DEF Init, MetaInit
<1>2. \A e \in queue.waiting : queue.event[e].time = 0
  <2>1. PICK q : /\ Fresh(q, 3)
                 /\ queue = IF "recorder" \in installed
                            THEN Added(q, "record", 0, RecordPeriod, -1) ELSE q
    BY <1>1, ConnectedIs
  <2>2. CASE queue = q
    BY <2>1, <2>2 DEF Fresh
  <2>3. CASE queue = Added(q, "record", 0, RecordPeriod, -1)
    <3>1. queue.waiting = (0 .. q.next - 1) \union {q.next}
      BY <2>1, <2>3, RecordAdded
    <3>. QED  BY <2>1, <2>3, <3>1, RecordAdded DEF Fresh
  <2>. QED  BY <2>1, <2>2, <2>3
<1>. QED  BY <1>1, <1>2 DEF TimesInv, KnownTimeInv, None

\* Events activate and deactivate periodic schedules without a trace of when: a
\* schedule that was deactivated stays quiet, and one that was activated is
\* executed in the phase that it would have had anyway, if the EventTrigger
\* evaluates by an event of the scheduler (MetaScheduler.cpp, epActivate and
\* epDeactivate).
THEOREM EventsCommand == TriggerAt = "event" => (Spec => EventsCommandSchedules)
<1>. SUFFICES ASSUME TriggerAt = "event" PROVE Spec => EventsCommandSchedules
  OBVIOUS
<1>1. BaseInv /\ TimesInv /\ KnownTimeInv /\ [Next]_vars => TimesInv' /\ KnownTimeInv'
  BY TimesStep, KnownTimeStep
<1>2. BaseInv /\ TimesInv /\ [Next]_vars =>
        [\A s \in Periodic :
           ~ Running(s) /\ Running(s)' /\ phase[s] # None =>
             now' % queue.event[current'].period = phase[s]]_vars
  <2>. SUFFICES ASSUME BaseInv, TimesInv, [Next]_vars, NEW s \in Periodic,
                       ~ Running(s), Running(s)', phase[s] # None
                PROVE  now' % queue.event[current'].period = phase[s]
    OBVIOUS
  <2>1. pc' = "run" /\ queue'.event[current'].job = s
    BY DEF Running
  <2>2. CASE pc = "run" /\ current' = current /\ QueueKept
    BY <2>1, <2>2 DEF Running, QueueKept, BaseInv, LoopInv
  <2>3. CASE ExecuteRest /\ \E e \in queue.waiting : Taking(e)
    <3>1. PICK e \in queue.waiting : Taking(e)
      BY <2>3
    <3>2. /\ e \in Made /\ queue'.event[e].job = queue.event[e].job
          /\ current' = e /\ queue.event[e].time # Never
      BY <3>1, TakenIs DEF Taking, BaseInv
    <3>3. object[s].id = e /\ queue.event[e].time # Immediate
      BY <2>1, <3>2 DEF BaseInv, MetaInv, IdsAgree
    <3>4. queue.event[e].time = now /\ now' = now
      BY <2>3, <3>1, <3>3, TakenInTime DEF ExecuteRest
    <3>5. InPhase(queue.event[e], phase[s])
      BY <3>3 DEF TimesInv
    <3>. QED  BY <3>2, <3>4, <3>5 DEF InPhase
  <2>. QED  BY <2>1, <2>2, <2>3, RunsBy
<1>. QED  BY <1>1, <1>2, TimesInit, SchedulesAgree, DeactivatedStaysQuiet, PTL
          DEF Spec, EventsCommandSchedules, KeepsPhase

=============================================================================
