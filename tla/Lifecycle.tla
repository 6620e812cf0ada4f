------------------------------ MODULE Lifecycle ------------------------------
(***************************************************************************)
(* The life of the components of a simulator: Simulator::Publish,          *)
(* Configure, Connect, Initialise, Reconnect, Exit and the other changes   *)
(* of the simulator's state (kern/src/Simulator.cpp), with the code of the *)
(* components and of the event subscribers, which these calls execute and  *)
(* which may call the simulator back.                                      *)
(*                                                                         *)
(* What an actor still has to do is the stack todo[actor] of tasks, the    *)
(* next one first. The task Client is code that is not the simulator's.    *)
(***************************************************************************)
EXTENDS Naturals, Sequences, SequencesExt

CONSTANTS
  Component,      \* services, models and submodels
  FirstMembers,   \* who is in each container when the story begins
  Places,         \* the containers to which each other component can be added
  Replaces,       \* the mandatory service that a service replaces, or None
  None,
  Subscribed,     \* the Leave and Enter events that have subscribers
  EntryPoint,     \* entry points for Initialise
  Actor,          \* threads that call the simulator
  UserCalls,      \* the calls that each of them makes
  ClientCalls,    \* the calls that components and subscribers make
  Main,           \* the actor whose own calls are not counted
  MaxCalls        \* bound: calls of the others, and of clients

\* _services, _models, and the containers of a composite, seen as one.
Place == {"services", "models"} \union Component

ASSUME ConstantsAssumption ==
  /\ Component \intersect {"services", "models"} = {}
  /\ FirstMembers \in [Place -> Seq(Component)]
  /\ \A p, q \in Place : \A i \in DOMAIN FirstMembers[p], j \in DOMAIN FirstMembers[q] :
       FirstMembers[p][i] = FirstMembers[q][j] => p = q /\ i = j
  /\ Places \in [Component -> SUBSET Place]
  /\ None \notin Place
  /\ Replaces \in [Component -> Component \union {None}]
  /\ \A c \in Component : Replaces[c] # c
  /\ MaxCalls \in Nat

\* The containers make trees, of components that are there; a mandatory
\* service that can be replaced has no components of its own.
ASSUME TreeAssumption ==
  /\ \A p \in Component : FirstMembers[p] # <<>> =>
       \E q \in Place : p \in ToSet(FirstMembers[q])
  /\ \A S \in SUBSET Component : S # {} =>
       \E c \in S : \A p \in S : c \notin ToSet(FirstMembers[p])
  /\ \A c \in Component : Replaces[c] # None =>
       /\ FirstMembers[Replaces[c]] = <<>>
       /\ \A d \in Component : Replaces[c] \notin Places[d]
       /\ Places[Replaces[c]] \subseteq {"services"}
       /\ \A p \in Place : Replaces[c] \in ToSet(FirstMembers[p]) => p = "services"

VARIABLES
  state,      \* Simulator::_state
  comp,       \* the state of each component
  members,    \* the components of each container, in order
  home,       \* the container of each component, or None
  toInit,     \* Simulator::_initEntryPoints
  todo,       \* what each actor has to do
  calls,      \* number of calls counted so far
  late,       \* history: components added since Connect began
  own,        \* history: those that were connected by who added them
  accepted,   \* history: initialisation entry points accepted
  ran,        \* history: how often each of them was executed
  overlap     \* history: a call that may change the state came during another

vars == <<state, comp, members, home, toInit, todo, calls, late, own, accepted,
          ran, overlap>>
tree  == <<comp, members, home, late, own>>
inits == <<toInit, accepted, ran>>
counters == <<calls, overlap>>

Present == {c \in Component : home[c] # None}

-----------------------------------------------------------------------------
(***************************************************************************)
(* The phases that lead a component from one state to the next, and the    *)
(* tasks that the functions of the simulator leave to be done.             *)
(***************************************************************************)
Phase == {"Publish", "Configure", "Connect", "Disconnect"}

Before == [Publish |-> "Created", Configure |-> "Publishing",
           Connect |-> "Configured", Disconnect |-> "Connected"]
After  == [Publish |-> "Publishing", Configure |-> "Configured",
           Connect |-> "Connected", Disconnect |-> "Disconnected"]
Rank   == [Created |-> 0, Publishing |-> 1, Configured |-> 2, Connected |-> 3,
           Disconnected |-> 4, Deleted |-> 5]

Client         == [do |-> "client"]
DoPhase(ph, c) == [do |-> "phase", ph |-> ph, c |-> c]
Enter(ph, c)   == [do |-> "enter", ph |-> ph, c |-> c]
For(ph, p)     == [do |-> "for", ph |-> ph, in |-> p]
Walk(ph, p, i, n) == [do |-> "walk", ph |-> ph, in |-> p, i |-> i, n |-> n]
Again(n)       == [do |-> "again", n |-> n]
SetState(s)    == [do |-> "setState", to |-> s]
Assign(s)      == [do |-> "assign", to |-> s]
InitLoop(i, n) == [do |-> "initLoop", i |-> i, n |-> n]
Just(what)     == [do |-> what]   \* "cycle", "initialise", "initFor", "clear"

At(a, what) == todo[a] # <<>> /\ Head(todo[a]).do = what

\* The next task gives way to others; an exception drops all the tasks.
Becomes(a, tasks) == todo' = [todo EXCEPT ![a] = tasks \o Tail(@)]
Throws(a)         == todo' = [todo EXCEPT ![a] = <<>>]

Init ==
  /\ state = "Building"
  /\ comp = [c \in Component |-> "Created"]
  /\ members = FirstMembers
  /\ home = [c \in Component |->
       IF \E p \in Place : c \in ToSet(members[p])
       THEN CHOOSE p \in Place : c \in ToSet(members[p]) ELSE None]
  /\ toInit = <<>>
  /\ todo = [a \in Actor |-> <<>>]
  /\ calls = 0
  /\ late = {} /\ own = {}
  /\ accepted = {}
  /\ ran = [e \in EntryPoint |-> 0]
  /\ overlap = FALSE

-----------------------------------------------------------------------------
(***************************************************************************)
(* Calls of the simulator: of an actor that has nothing else to do, or of  *)
(* the client code that it is in.                                          *)
(***************************************************************************)
Busy(a) == \E i \in DOMAIN todo[a] : todo[a][i] # Client

MayCall(a, call) ==
  /\ \/ todo[a] = <<>> /\ call \in UserCalls[a]
     \/ At(a, "client") /\ call \in ClientCalls
  /\ IF a = Main /\ todo[a] = <<>> THEN UNCHANGED calls
     ELSE calls < MaxCalls /\ calls' = calls + 1

\* A call that may change the state, in the state that it requires.
Accepted(a, call, tasks) ==
  /\ MayCall(a, call)
  /\ overlap' = (overlap \/ \E b \in Actor : Busy(b))
  /\ todo' = [todo EXCEPT ![a] = tasks \o @]
  /\ UNCHANGED <<state, tree, inits>>

\* Publish goes through the services until no new one has come, then once
\* through the models.
Publish(a) ==
  state = "Building" /\ Accepted(a, "Publish", <<Just("cycle"), For("Publish", "models")>>)

ForAll(ph) == <<For(ph, "services"), For(ph, "models")>>

Configure(a) == state = "Building" /\ Accepted(a, "Configure", ForAll("Configure"))

Connect(a) ==
  /\ state = "Building"
  /\ Accepted(a, "Connect",
       <<SetState("Connecting")>> \o ForAll("Connect")
       \o <<SetState("Standby"), Just("initialise")>>)

InitialiseTasks ==
  <<SetState("Initialising"), Just("initFor"), Just("clear"), SetState("Standby")>>

Initialise(a) == state = "Standby" /\ Accepted(a, "Initialise", InitialiseTasks)

\* The start event belongs to the scheduler (see RunControl).
Run(a) == state = "Standby" /\ Accepted(a, "Run", <<SetState("Executing")>>)

\* Simulator::epStop, on the scheduler thread, after Hold or at the end.
Stop(a) == state = "Executing" /\ Accepted(a, "Stop", <<SetState("Standby")>>)

\* The fields and components write and read the file meanwhile.
Store(a) ==
  /\ state = "Standby"
  /\ Accepted(a, "Store", <<SetState("Storing"), Client, SetState("Standby")>>)

Restore(a) ==
  /\ state = "Standby"
  /\ Accepted(a, "Restore", <<SetState("Restoring"), Client, SetState("Standby")>>)

\* Bound: the component's parent is a container of the simulator or a
\* component that is itself connected.
Reconnect(a) ==
  /\ state = "Standby"
  /\ \E c \in Present :
       /\ home[c] \in Component => comp[home[c]] = "Connected"
       /\ Accepted(a, "Reconnect", <<DoPhase("Connect", c)>>)

\* Faulty variant: the services are left connected.
Exit_ModelsOnly(a) ==
  /\ state = "Standby"
  /\ Accepted(a, "Exit", <<SetState("Exiting"), For("Disconnect", "models")>>)

Exit(a) ==
  /\ state = "Standby"
  /\ Accepted(a, "Exit", <<SetState("Exiting")>> \o ForAll("Disconnect"))

Abort(a) == Accepted(a, "Abort", <<SetState("Aborting")>>)

\* AddService, AddModel, and the addition of a submodel to its parent's
\* container. A service that replaces a mandatory one deletes it; bound: not
\* while somebody iterates on the services.
Add(a) ==
  /\ MayCall(a, "Add")
  /\ \E c \in Component \ Present, p \in Place :
       LET old == IF p = "services" THEN Replaces[c] ELSE None IN
       /\ comp[c] = "Created" /\ p \in Places[c]
       /\ p \in Component => p \in Present
       /\ old # None => \A b \in Actor : \A i \in DOMAIN todo[b] :
                          todo[b][i].do = "walk" => todo[b][i].in # "services"
       /\ members' = [members EXCEPT ![p] =
            Append(IF old \in ToSet(@)
                   THEN RemoveAt(@, CHOOSE i \in DOMAIN @ : @[i] = old) ELSE @, c)]
       /\ home' = [d \in Component |-> IF d = c THEN p
                                       ELSE IF d = old THEN None ELSE home[d]]
       /\ comp' = [d \in Component |-> IF d = old THEN "Deleted" ELSE comp[d]]
       /\ late' = IF state = "Building" THEN late ELSE late \union {c}
  /\ UNCHANGED <<state, toInit, todo, own, accepted, ran, overlap>>

\* LuaBuilder::connect adds a service, and publishes, configures and connects
\* it by itself.
AddConnected(a) ==
  /\ state = "Connecting"
  /\ MayCall(a, "AddConnected")
  /\ \E c \in Component \ Present :
       /\ comp[c] = "Created"
       /\ "services" \in Places[c] /\ Replaces[c] = None
       /\ members' = [members EXCEPT !["services"] = Append(@, c)]
       /\ home' = [home EXCEPT ![c] = "services"]
       /\ comp' = [comp EXCEPT ![c] = "Connected"]
       /\ late' = late \union {c}
       /\ own' = own \union {c}
  /\ UNCHANGED <<state, toInit, todo, accepted, ran, overlap>>

\* Accepted in three states, ignored in the others. (Bound: each one once.)
AddInitEntryPoint(a) ==
  /\ state \in {"Building", "Connecting", "Standby"}
  /\ MayCall(a, "AddInit")
  /\ \E e \in EntryPoint \ accepted :
       toInit' = Append(toInit, e) /\ accepted' = accepted \union {e}
  /\ UNCHANGED <<state, tree, todo, ran, overlap>>

\* Client code returns, or throws. The exception leaves the caller's call.
ClientReturns(a) ==
  /\ At(a, "client")
  /\ Becomes(a, <<>>)
  /\ UNCHANGED <<state, tree, inits, counters>>

ClientThrows(a) ==
  /\ At(a, "client")
  /\ MayCall(a, "Throw")
  /\ Throws(a)
  /\ UNCHANGED <<state, tree, inits, overlap>>

-----------------------------------------------------------------------------
(***************************************************************************)
(* The tasks.                                                              *)
(***************************************************************************)

\* Simulator::setState: Leave event, assignment, Enter event. Not every
\* state has both events.
Event ==
  {<<"Leave", s>> : s \in {"Connecting", "Initialising", "Standby", "Executing",
                          "Storing", "Restoring"}}
  \union
  {<<"Enter", s>> : s \in {"Initialising", "Standby", "Executing", "Storing",
                          "Restoring", "Exiting", "Aborting"}}

\* EventManager::Emit: the subscribers are executed (see EventManager).
Emit(event) == IF event \in Event \intersect Subscribed THEN <<Client>> ELSE <<>>

BeginSetState(a) ==
  /\ At(a, "setState")
  /\ LET s == Head(todo[a]).to IN
     Becomes(a, IF state = s THEN <<>> ELSE Emit(<<"Leave", state>>) \o <<Assign(s)>>)
  /\ UNCHANGED <<state, tree, inits, counters>>

AssignState(a) ==
  /\ At(a, "assign")
  /\ state' = Head(todo[a]).to
  /\ Becomes(a, Emit(<<"Enter", state'>>))
  /\ UNCHANGED <<tree, inits, counters>>

\* The loop of Publish over the services, and its test for new ones.
PublishCycle(a) ==
  /\ At(a, "cycle")
  /\ Becomes(a, <<For("Publish", "services"), Again(Len(members["services"]))>>)
  /\ UNCHANGED <<state, tree, inits, counters>>

PublishCompleted(a) ==
  /\ At(a, "again")
  /\ Becomes(a, IF Len(members["services"]) = Head(todo[a]).n THEN <<>>
                ELSE <<Just("cycle")>>)
  /\ UNCHANGED <<state, tree, inits, counters>>

BeginFor(a) ==
  /\ At(a, "for")
  /\ LET t == Head(todo[a]) IN
     Becomes(a, <<Walk(t.ph, t.in, 0, Len(members[t.in]))>>)
  /\ UNCHANGED <<state, tree, inits, counters>>

\* The services that are already published are skipped.
WalkOn(a) ==
  /\ At(a, "walk")
  /\ LET t == Head(todo[a])
         next == Walk(t.ph, t.in, t.i + 1, t.n) IN
     /\ t.i < Len(members[t.in])
     /\ LET c == members[t.in][t.i + 1] IN
        Becomes(a, IF t.ph = "Publish" /\ t.in = "services" /\ comp[c] # "Created"
                   THEN <<next>> ELSE <<DoPhase(t.ph, c), next>>)
  /\ UNCHANGED <<state, tree, inits, counters>>

\* Whether what was added during the walk is still seen depends on the
\* collection, which is not part of this code: both are possible.
WalkEnds(a) ==
  /\ At(a, "walk")
  /\ Head(todo[a]).i >= Head(todo[a]).n
  /\ Becomes(a, <<>>)
  /\ UNCHANGED <<state, tree, inits, counters>>

\* Faulty variant: the children come first.
ProceedWith_ChildrenFirst(a, ph, c) ==
  /\ IF \E d \in ToSet(members[c]) : comp[d] = Before[ph]
     THEN Becomes(a, <<For(ph, c), Enter(ph, c)>>) /\ UNCHANGED comp
     ELSE comp' = [comp EXCEPT ![c] = After[ph]] /\ Becomes(a, <<Client>>)
  /\ UNCHANGED <<state, members, home, late, own, inits, counters>>

\* The second half of doPublish, doConfigure, doConnect and doDisconnect: the
\* component's own code, then its children; or ExInvalidComponentState.
ProceedWith(a, ph, c) ==
  /\ IF comp[c] = Before[ph]
     THEN /\ comp' = [comp EXCEPT ![c] = After[ph]]
          /\ Becomes(a, <<Client, For(ph, c)>>)
     ELSE Throws(a) /\ UNCHANGED comp
  /\ UNCHANGED <<state, members, home, late, own, inits, counters>>

\* The first half: doConnect configures and doConfigure publishes what is not.
Behind(ph, c) ==
  \/ ph = "Configure" /\ comp[c] = "Created"
  \/ ph = "Connect" /\ comp[c] \in {"Created", "Publishing"}

BeginPhase(a) ==
  /\ At(a, "phase")
  /\ LET t == Head(todo[a])
         previous == IF t.ph = "Connect" THEN "Configure" ELSE "Publish" IN
     IF Behind(t.ph, t.c)
     THEN /\ Becomes(a, <<DoPhase(previous, t.c), Enter(t.ph, t.c)>>)
          /\ UNCHANGED <<state, tree, inits, counters>>
     ELSE ProceedWith(a, t.ph, t.c)

EnterPhase(a) == At(a, "enter") /\ ProceedWith(a, Head(todo[a]).ph, Head(todo[a]).c)

\* Initialise at the end of Connect: ignored unless the state is Standby.
InitialiseAfterConnect(a) ==
  /\ At(a, "initialise")
  /\ Becomes(a, IF state = "Standby" THEN InitialiseTasks ELSE <<>>)
  /\ UNCHANGED <<state, tree, inits, counters>>

BeginInit(a) ==
  /\ At(a, "initFor")
  /\ Becomes(a, <<InitLoop(0, Len(toInit))>>)
  /\ UNCHANGED <<state, tree, inits, counters>>

ExecuteInit(a) ==
  /\ At(a, "initLoop")
  /\ LET t == Head(todo[a]) IN
     /\ t.i < Len(toInit)
     /\ ran' = [ran EXCEPT ![toInit[t.i + 1]] = @ + 1]
     /\ Becomes(a, <<Client, InitLoop(t.i + 1, t.n)>>)
  /\ UNCHANGED <<state, tree, toInit, accepted, counters>>

\* If another thread has cleared the collection, the loop ends where it is.
InitEnds(a) ==
  /\ At(a, "initLoop")
  /\ Head(todo[a]).i >= Head(todo[a]).n \/ Head(todo[a]).i >= Len(toInit)
  /\ Becomes(a, <<>>)
  /\ UNCHANGED <<state, tree, inits, counters>>

ClearInit(a) ==
  /\ At(a, "clear")
  /\ toInit' = <<>>
  /\ Becomes(a, <<>>)
  /\ UNCHANGED <<state, tree, accepted, ran, counters>>

-----------------------------------------------------------------------------

Call(a) ==
  \/ Publish(a) \/ Configure(a) \/ Connect(a) \/ Initialise(a) \/ Run(a) \/ Stop(a)
  \/ Store(a) \/ Restore(a) \/ Reconnect(a) \/ Exit(a) \/ Abort(a)
  \/ Add(a) \/ AddConnected(a) \/ AddInitEntryPoint(a)

Work(a) ==
  \/ ClientReturns(a) \/ ClientThrows(a) \/ BeginSetState(a) \/ AssignState(a)
  \/ PublishCycle(a) \/ PublishCompleted(a) \/ BeginFor(a) \/ WalkOn(a) \/ WalkEnds(a)
  \/ BeginPhase(a) \/ EnterPhase(a)
  \/ InitialiseAfterConnect(a) \/ BeginInit(a) \/ ExecuteInit(a) \/ InitEnds(a)
  \/ ClearInit(a)

Next == \E a \in Actor : Call(a) \/ Work(a)

Spec == Init /\ [][Next]_vars

-----------------------------------------------------------------------------
(***************************************************************************)
(* Properties.                                                             *)
(***************************************************************************)
SimState == {"Building", "Connecting", "Initialising", "Standby", "Executing",
             "Storing", "Restoring", "Exiting", "Aborting"}

Task ==
  [do : {"client", "cycle", "initialise", "initFor", "clear"}]
  \union [do : {"phase", "enter"}, ph : Phase, c : Component]
  \union [do : {"for"}, ph : Phase, in : Place]
  \union [do : {"walk"}, ph : Phase, in : Place, i : Nat, n : Nat]
  \union [do : {"again"}, n : Nat]
  \union [do : {"setState", "assign"}, to : SimState]
  \union [do : {"initLoop"}, i : Nat, n : Nat]

TypeOK ==
  /\ state \in SimState
  /\ comp \in [Component -> DOMAIN Rank]
  /\ members \in [Place -> Seq(Component)]
  /\ home \in [Component -> Place \union {None}]
  /\ \A p \in Place : \A i \in DOMAIN members[p] : home[members[p][i]] = p
  /\ toInit \in Seq(EntryPoint)
  /\ todo \in [Actor -> Seq(Task)]
  /\ calls \in 0 .. MaxCalls
  /\ late \subseteq Component /\ own \subseteq late
  /\ accepted \subseteq EntryPoint
  /\ ran \in [EntryPoint -> Nat]
  /\ overlap \in BOOLEAN

\* The simulator is published, configured and connected by one actor, and not
\* from client code.
Assembling == {"Publish", "Configure", "Connect"}

OneAssembler ==
  /\ Main \in Actor
  /\ ClientCalls \intersect Assembling = {}
  /\ \A a \in Actor \ {Main} : UserCalls[a] \intersect Assembling = {}

\* Whatever is added, reconnected or interrupted, and whoever calls
\* meanwhile, a component is never ahead of the one that contains it: its
\* code may count on a parent that is published, configured, connected.
ParentsFirst ==
  \A c \in Component : home[c] \in Component => Rank[comp[c]] <= Rank[comp[home[c]]]

\* Connect makes up for what Publish and Configure have not done, or not to
\* the end: it never meets a component in a state that it refuses, unless
\* this one was connected by who added it.
ConnectNeverRefuses ==
  \A a \in Actor : state = "Connecting" /\ (At(a, "phase") \/ At(a, "enter")) =>
    LET t == Head(todo[a]) IN
    \/ t.do = "phase" /\ Behind(t.ph, t.c)
    \/ comp[t.c] = Before[t.ph]
    \/ t.c \in own

\* In Standby and in all that one can do from there, every component that
\* was there when Connect began is connected, or, if an Exit came during
\* another call, has been.
StandbyMeansConnected ==
  state \in {"Standby", "Initialising", "Executing", "Storing", "Restoring"} =>
    \A c \in Present \ late :
      comp[c] = "Connected" \/ (comp[c] = "Disconnected" /\ overlap)

\* An entry point that was accepted for initialisation is executed once: it
\* is neither dropped with the others that were executed, nor kept.
InitOnce ==
  ~overlap => \A e \in accepted :
     /\ e \in ToSet(toInit) \/ ran[e] = 1
     /\ ran[e] <= 1

\* An Exit that comes to its end leaves nothing connected, except late comers
\* that another thread reconnects meanwhile; and it comes to its end unless it
\* meets a component that was added when Connect had begun and that nobody
\* has connected.
ExitIsComplete ==
  \A a \in Actor : todo[a] # <<>> =>
    LET t == Head(todo[a]) IN
    /\ t.do = "walk" /\ t.ph = "Disconnect" /\ t.in = "models"
       /\ t.i >= Len(members["models"])
       => \A c \in Present : comp[c] = "Connected" => c \in late /\ overlap
    /\ state = "Exiting" /\ ~overlap /\ t.do = "phase"
       => comp[t.c] = "Connected" \/ t.c \in late

\* Each phase makes up for the ones before it and leaves nothing behind,
\* whatever came in between: connecting, initialising and exiting.
PhasesAreComplete ==
  ConnectNeverRefuses /\ StandbyMeansConnected /\ InitOnce /\ ExitIsComplete

=============================================================================
