---------------------------- MODULE EventManager ----------------------------
(***************************************************************************)
(* The event manager (kern/src/EventManager.cpp): entry points subscribe   *)
(* to events, and Emit executes the subscribers of one. Emit holds the     *)
(* mutex only to set and to clear _emitting: it walks the collection of    *)
(* subscribers without it, the subscribers may call the event manager      *)
(* themselves, and so may other threads meanwhile.                         *)
(***************************************************************************)
EXTENDS Naturals, Sequences, SequencesExt

CONSTANTS
  Callers,
  EntryPoints,
  FirstEvents,  \* events that exist from the start
  LateEvents,   \* events that QueryEventId creates
  MaxDepth,     \* bound: emissions nested in a thread
  MaxCalls      \* bound: calls made by the clients

Events == FirstEvents \union LateEvents

ASSUME EventsAssumption ==
  /\ FirstEvents \intersect LateEvents = {}
  /\ MaxDepth \in Nat /\ MaxCalls \in Nat

VARIABLES
  known,      \* events that have an entry in _evRegistry
  registry,   \* _evRegistry: the subscribers of each event, in order
  emitting,   \* _emitting
  subQueries, \* _subQueries
  place,      \* where each thread is: in client code, or in Emit
  frames,     \* the emissions of each thread, the innermost one last
  calls,      \* number of calls made so far
  wanted,     \* history: whose last accepted request was a subscription
  repeated,   \* history: who was subscribed again before the first time was served
  overlapped, \* history: an emission has ended while another one went on
  broken      \* history: the undefined behaviour that has happened, if any

requestVars == <<known, registry, subQueries, wanted, repeated>>
eventVars == <<requestVars, emitting, place, frames, calls, overlapped, broken>>

EventInit ==
  /\ known = FirstEvents
  /\ registry = [e \in Events |-> <<>>]
  /\ emitting = FALSE
  /\ subQueries = <<>>
  /\ place = [t \in Callers |-> "client"]
  /\ frames = [t \in Callers |-> <<>>]
  /\ calls = 0
  /\ wanted = [e \in Events |-> {}]
  /\ repeated = [e \in Events |-> {}]
  /\ overlapped = FALSE
  /\ broken = "no"

-----------------------------------------------------------------------------

\* The emissions of event e that walk its collection. The one in which t
\* itself is about to leave is not counted.
Walking(e, t, leaves) ==
  \E o \in Callers :
    \E i \in 1 .. Len(frames[o]) - (IF leaves /\ o = t THEN 1 ELSE 0) :
      /\ frames[o][i].event = e
      /\ i < Len(frames[o]) \/ place[o] # "find"

\* Threads that are in client code may call: idle ones, and those that
\* execute a subscriber.
MayCall(t) ==
  /\ broken = "no"
  /\ place[t] = "client"
  /\ calls < MaxCalls
  /\ calls' = calls + 1

Query(e, sub, p) == [event |-> e, sub |-> sub, ep |-> p]

\* A collection from which p is removed, if it is there: once, as the collection
\* of the SMP library, which is not in the repository, is taken to do.
Without(list, p) ==
  IF Contains(list, p)
  THEN RemoveAt(list, CHOOSE i \in DOMAIN list : list[i] = p)
  ELSE list

\* The collection of event e changes under an emission that walks it.
Disturb(e, t, leaves) ==
  broken' = IF Walking(e, t, leaves) THEN "walk" ELSE broken

\* The exceptions about event e look its name up, by its id, in a table that
\* starts at 0 and holds the events of the simulator, which start at 1: a name of
\* another event, or, for the last of them and the events of models (LateEvents
\* stands for both), a read out of range, which may go unnoticed.
LookUpName(e) ==
  \/ UNCHANGED broken
  \/ e \in LateEvents /\ broken' = "name"

\* Faulty variant: a subscription is never deferred.
Subscribe_AtOnce(t, e, p) ==
  /\ MayCall(t)
  /\ e \in known
  /\ ~Contains(registry[e], p)
  /\ registry' = [registry EXCEPT ![e] = Append(@, p)]
  /\ Disturb(e, t, FALSE)
  /\ wanted' = [wanted EXCEPT ![e] = @ \union {p}]
  /\ UNCHANGED <<known, subQueries, repeated, emitting, place, frames, overlapped>>

\* Who is in the collection is refused. A subscription that is still deferred
\* is not looked at: it is accepted, and served, once more.
Subscribe(t, e, p) ==
  /\ MayCall(t)
  /\ e \in known
  /\ ~Contains(registry[e], p)
  /\ \/ /\ emitting
        /\ subQueries' = Append(subQueries, Query(e, TRUE, p))
        /\ UNCHANGED <<registry, broken>>
     \/ /\ ~emitting
        /\ registry' = [registry EXCEPT ![e] = Append(@, p)]
        /\ Disturb(e, t, FALSE)
        /\ UNCHANGED subQueries
  /\ repeated' = IF p \in wanted[e] THEN [repeated EXCEPT ![e] = @ \union {p}] ELSE repeated
  /\ wanted' = [wanted EXCEPT ![e] = @ \union {p}]
  /\ UNCHANGED <<known, emitting, place, frames, overlapped>>

SubscribeRefused(t, e, p) ==
  /\ MayCall(t)
  /\ e \in known
  /\ Contains(registry[e], p)
  /\ LookUpName(e)
  /\ UNCHANGED <<requestVars, emitting, place, frames, overlapped>>

\* Who is not subscribed may be unsubscribed: the exception is created, with
\* the name of the event, and not thrown.
Unsubscribe(t, e, p) ==
  /\ MayCall(t)
  /\ e \in known
  /\ \/ /\ emitting
        /\ subQueries' = Append(subQueries, Query(e, FALSE, p))
        /\ UNCHANGED registry
     \/ /\ ~emitting
        /\ registry' = [registry EXCEPT ![e] = Without(@, p)]
        /\ UNCHANGED subQueries
  /\ IF Contains(registry[e], p)
     THEN IF emitting THEN UNCHANGED broken ELSE Disturb(e, t, FALSE)
     ELSE LookUpName(e)
  /\ wanted' = [wanted EXCEPT ![e] = @ \ {p}]
  /\ UNCHANGED <<known, repeated, emitting, place, frames, overlapped>>

\* A new name: the map grows while another thread may be reading it.
QueryEventId(t, e) ==
  /\ MayCall(t)
  /\ e \notin known
  /\ known' = known \union {e}
  /\ broken' = IF \E o \in Callers : place[o] = "find" THEN "find" ELSE broken
  /\ UNCHANGED <<registry, subQueries, wanted, repeated, emitting, place, frames, overlapped>>

-----------------------------------------------------------------------------
(***************************************************************************)
(* Emit.                                                                   *)
(***************************************************************************)

EmitBegin(t, e) ==
  /\ MayCall(t)
  /\ Len(frames[t]) < MaxDepth
  /\ emitting' = TRUE
  /\ frames' = [frames EXCEPT ![t] = Append(@, [event |-> e, next |-> 1])]
  /\ place' = [place EXCEPT ![t] = "find"]
  /\ UNCHANGED <<requestVars, overlapped, broken>>

Find(t) ==
  /\ place[t] = "find"
  /\ Last(frames[t]).event \in known
  /\ place' = [place EXCEPT ![t] = "walk"]
  /\ UNCHANGED <<requestVars, emitting, frames, calls, overlapped, broken>>

\* An unknown event: the exception leaves Emit, and the emissions around it
\* up to where it is caught. _emitting stays set.
Throw(t) ==
  /\ place[t] = "find"
  /\ Last(frames[t]).event \notin known
  /\ \E depth \in 0 .. Len(frames[t]) - 1 :
       frames' = [frames EXCEPT ![t] = SubSeq(@, 1, depth)]
  /\ place' = [place EXCEPT ![t] = "client"]
  /\ overlapped' = (overlapped /\ \E o \in Callers : frames'[o] # <<>>)
  /\ UNCHANGED <<requestVars, emitting, calls, broken>>

\* The next subscriber is executed.
Execute(t) ==
  /\ place[t] = "walk"
  /\ LET top == Len(frames[t]) IN
       /\ frames[t][top].next <= Len(registry[frames[t][top].event])
       /\ frames' = [frames EXCEPT ![t][top].next = @ + 1]
  /\ place' = [place EXCEPT ![t] = "client"]
  /\ UNCHANGED <<requestVars, emitting, calls, overlapped, broken>>

\* The subscriber returns.
Return(t) ==
  /\ place[t] = "client"
  /\ frames[t] # <<>>
  /\ place' = [place EXCEPT ![t] = "walk"]
  /\ UNCHANGED <<requestVars, emitting, frames, calls, overlapped, broken>>

\* Faulty variant: what is asked to be removed is added.
Serve_IgnoresRemovals(lists, q) ==
  [lists EXCEPT ![q.event] = IF q.sub THEN Append(@, q.ep) ELSE @]

\* One deferred request.
Serve(lists, q) ==
  [lists EXCEPT ![q.event] = IF q.sub THEN Append(@, q.ep) ELSE Without(@, q.ep)]

\* The collections once all the requests are served, in order.
ServeAll(lists, queries) ==
  LET after[n \in 0 .. Len(queries)] ==
        IF n = 0 THEN lists ELSE Serve(after[n - 1], queries[n])
  IN  after[Len(queries)]

\* Faulty variant: the flag is cleared, but no request is served.
EmitEnd_ServesNone(t) ==
  /\ place[t] = "walk"
  /\ Last(frames[t]).next > Len(registry[Last(frames[t]).event])
  /\ emitting' = FALSE
  /\ frames' = [frames EXCEPT ![t] = Front(@)]
  /\ overlapped' = \E o \in Callers : frames'[o] # <<>>
  /\ place' = [place EXCEPT ![t] = "client"]
  /\ UNCHANGED <<requestVars, calls, broken>>

\* All were executed: the flag is cleared and the deferred requests are
\* served, whatever other emissions are under way.
EmitEnd(t) ==
  /\ place[t] = "walk"
  /\ Last(frames[t]).next > Len(registry[Last(frames[t]).event])
  /\ emitting' = FALSE
  /\ registry' = ServeAll(registry, subQueries)
  /\ broken' = IF \E e \in Events : registry'[e] # registry[e] /\ Walking(e, t, TRUE)
               THEN "walk" ELSE broken
  /\ subQueries' = <<>>
  /\ frames' = [frames EXCEPT ![t] = Front(@)]
  /\ overlapped' = \E o \in Callers : frames'[o] # <<>>
  /\ place' = [place EXCEPT ![t] = "client"]
  /\ UNCHANGED <<known, wanted, repeated, calls>>

-----------------------------------------------------------------------------

\* What a thread in Emit does next. After undefined behaviour nothing is
\* said of the program.
Proceed(t) ==
  /\ broken = "no"
  /\ Find(t) \/ Throw(t) \/ Execute(t) \/ Return(t) \/ EmitEnd(t)

Call(t) ==
  \E e \in Events :
    \/ QueryEventId(t, e)
    \/ EmitBegin(t, e)
    \/ \E p \in EntryPoints :
         Subscribe(t, e, p) \/ SubscribeRefused(t, e, p) \/ Unsubscribe(t, e, p)

EventNext == \E t \in Callers : Proceed(t) \/ Call(t)

EventSpec == EventInit /\ [][EventNext]_eventVars

\* Subscribers return, and the threads run.
FairEventSpec == EventSpec /\ \A t \in Callers : WF_eventVars(Proceed(t))

-----------------------------------------------------------------------------
(***************************************************************************)
(* Properties.                                                             *)
(***************************************************************************)

EventTypeOK ==
  /\ FirstEvents \subseteq known /\ known \subseteq Events
  /\ registry \in [Events -> Seq(EntryPoints)]
  /\ \A e \in Events \ known : registry[e] = <<>>
  /\ emitting \in BOOLEAN
  /\ subQueries \in Seq([event : known, sub : BOOLEAN, ep : EntryPoints])
  /\ place \in [Callers -> {"client", "find", "walk"}]
  /\ frames \in [Callers -> Seq([event : Events, next : Nat \ {0}])]
  /\ \A t \in Callers : frames[t] = <<>> => place[t] = "client"
  /\ calls \in 0 .. MaxCalls
  /\ wanted \in [Events -> SUBSET EntryPoints]
  /\ repeated \in [Events -> SUBSET EntryPoints]
  /\ overlapped \in BOOLEAN
  /\ broken \in {"no", "walk", "find", "name"}

\* "Event emit in progress, registration request is OK, add to registration
\* list, to be processed later" (EventManager.cpp:75-76): deferring protects
\* the walk of every emission, of whatever thread and depth, as long as no
\* emission ends while another one is under way.
WalksAreProtected == broken = "walk" => overlapped

\* Where the requests lead once the deferred ones are served.
Served == ServeAll(registry, subQueries)

There(list, p) == \E i \in DOMAIN list : list[i] = p

TwiceThere(list, p) == \E i, j \in DOMAIN list : i # j /\ list[i] = p /\ list[j] = p

\* "Registration request is OK ... to be processed later" (EventManager.cpp:
\* 75-76): no accepted request is lost, applied twice or applied out of order.
\* With the deferred ones, those that wait for the end of an emission, the
\* collections hold exactly who asked to be subscribed last, once; but whoever
\* subscribed again while the first request was deferred may be there more
\* often, and still be there after having unsubscribed.
RequestsTakeEffect ==
  /\ \A e \in Events, p \in EntryPoints :
       /\ p \in wanted[e] => There(Served[e], p)
       /\ p \notin repeated[e] => /\ There(Served[e], p) => p \in wanted[e]
                                  /\ ~TwiceThere(Served[e], p)
  /\ subQueries # <<>> => emitting

\* An exception has left Emit and nobody is in it any more: until the next
\* emission every request is deferred.
LeftEmitting == emitting /\ \A t \in Callers : frames[t] = <<>>

\* Otherwise a deferred request is served.
RequestsAreServed ==
  subQueries # <<>> ~> subQueries = <<>> \/ LeftEmitting \/ broken # "no"

=============================================================================
