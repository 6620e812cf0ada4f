--------------------------- MODULE LifecycleProofs ---------------------------
(***************************************************************************)
(* Proof that no component is ever ahead of the one that contains it, that *)
(* initialisation entry points are executed once, for any tree of          *)
(* components, any actors and any calls, and that each phase makes up for  *)
(* the ones before it and leaves nothing behind, when one actor assembles  *)
(* the simulator.                                                          *)
(***************************************************************************)
EXTENDS Lifecycle, SequenceTheorems, TLAPS

TreeType ==
  /\ comp \in [Component -> DOMAIN Rank]
  /\ home \in [Component -> Place \union {None}]
  /\ members \in [Place -> Seq(Component)]
  /\ \A p \in Place : \A i \in DOMAIN members[p] :
       home[members[p][i]] = p \/ comp[members[p][i]] = "Deleted"

\* A phase may be applied to the members of p: p itself has gone through it.
Ready(ph, p) == p \in Component => Rank[After[ph]] <= Rank[comp[p]]

\* The tasks that only concern components whose parent is ready.
FineTask ==
  {t \in Task :
     /\ t.do \in {"for", "walk"} => Ready(t.ph, t.in)
     /\ t.do \in {"phase", "enter"} =>
          \/ comp[t.c] = "Deleted"
          \/ home[t.c] # None /\ Ready(t.ph, home[t.c])}

OrderInv ==
  /\ TreeType
  /\ ParentsFirst
  /\ todo \in [Actor -> Seq(FineTask)]

-----------------------------------------------------------------------------
(***************************************************************************)
(* What happens to the stacks.                                             *)
(***************************************************************************)

LEMMA StackPush ==
  ASSUME NEW S, NEW a \in Actor, todo \in [Actor -> Seq(S)], NEW tasks \in Seq(S),
         todo' = [todo EXCEPT ![a] = tasks \o @]
  PROVE  todo' \in [Actor -> Seq(S)]
  <1>1. todo[a] \in Seq(S)
    OBVIOUS
  <1>2. tasks \o todo[a] \in Seq(S)
    BY <1>1, ConcatProperties
  <1>. QED  BY <1>2

LEMMA StackBecomes ==
  ASSUME NEW S, NEW a \in Actor, todo \in [Actor -> Seq(S)], todo[a] # <<>>,
         NEW tasks \in Seq(S), Becomes(a, tasks)
  PROVE  todo' \in [Actor -> Seq(S)]
  <1>1. Tail(todo[a]) \in Seq(S)
    <2>. todo[a] \in Seq(S)
      OBVIOUS
    <2>. QED  BY HeadTailProperties
  <1>2. tasks \o Tail(todo[a]) \in Seq(S)
    BY <1>1, ConcatProperties
  <1>. QED  BY <1>2 DEF Becomes

LEMMA StackThrows ==
  ASSUME NEW S, NEW a \in Actor, todo \in [Actor -> Seq(S)], Throws(a)
  PROVE  todo' \in [Actor -> Seq(S)]
  <1>. <<>> \in Seq(S)
    BY EmptySeq
  <1>. QED  BY DEF Throws

LEMMA StackWidens ==
  ASSUME NEW S, NEW T, S \subseteq T, todo \in [Actor -> Seq(S)]
  PROVE  todo \in [Actor -> Seq(T)]
  <1>. Seq(S) \subseteq Seq(T)
    BY SeqMonotonic
  <1>. QED  OBVIOUS

LEMMA NextTask ==
  ASSUME NEW S, NEW a \in Actor, NEW what, todo \in [Actor -> Seq(S)], At(a, what)
  PROVE  todo[a] # <<>> /\ Head(todo[a]) \in S /\ Head(todo[a]).do = what
  <1>1. todo[a] # <<>> /\ todo[a] \in Seq(S) /\ Head(todo[a]).do = what
    BY DEF At
  <1>. QED  BY <1>1, HeadTailProperties

\* The tasks that do not concern components are fine in any tree.
Plain ==
  [do : {"client", "cycle", "initialise", "initFor", "clear"}]
  \union [do : {"again"}, n : Nat]
  \union [do : {"setState", "assign"}, to : SimState]
  \union [do : {"initLoop"}, i : Nat, n : Nat]

LEMMA PlainIsFine == Plain \subseteq FineTask
  BY DEF Plain, FineTask, Task

LEMMA ForIsFine ==
  ASSUME NEW ph \in Phase, NEW p \in Place, Ready(ph, p)
  PROVE  For(ph, p) \in FineTask
  BY DEF For, FineTask, Task

LEMMA ForTopIsFine ==
  ASSUME NEW ph \in Phase, NEW p \in {"services", "models"}
  PROVE  For(ph, p) \in FineTask
  <1>. p \in Place /\ p \notin Component
    BY ConstantsAssumption DEF Place
  <1>. QED  BY ForIsFine DEF Ready

\* When components only advance, and nobody but a deleted one moves, the
\* tasks remain fine.
LEMMA FineGrows ==
  ASSUME TreeType, comp' \in [Component -> DOMAIN Rank],
         \A d \in Component : Rank[comp[d]] <= Rank[comp'[d]],
         \A d \in Component : home[d] # None => home'[d] = home[d] \/ comp'[d] = "Deleted"
  PROVE  FineTask \subseteq FineTask'
  <1>. SUFFICES ASSUME NEW t \in FineTask
                PROVE  t \in FineTask'
    OBVIOUS
  <1>1. t \in Task /\ t \in Task'
    BY DEF FineTask, Task
  <1>2. ASSUME NEW ph \in Phase, NEW p, Ready(ph, p)
        PROVE  Ready(ph, p)'
    BY <1>2 DEF Ready, TreeType, Rank, After, Phase
  <1>3. t.do \in {"for", "walk"} => t.ph \in Phase
    BY <1>1 DEF Task
  <1>4. t.do \in {"phase", "enter"} => t.ph \in Phase /\ t.c \in Component
    BY <1>1 DEF Task
  <1>5. ASSUME NEW d \in Component, comp[d] = "Deleted"
        PROVE  comp'[d] = "Deleted"
    BY <1>5 DEF Rank
  <1>. QED  BY <1>1, <1>2, <1>3, <1>4, <1>5 DEF FineTask

-----------------------------------------------------------------------------
(***************************************************************************)
(* Steps that leave the tree alone: they only have to leave fine tasks.    *)
(***************************************************************************)

LEMMA SameTree ==
  ASSUME OrderInv, UNCHANGED tree, todo' \in [Actor -> Seq(FineTask)]
  PROVE  OrderInv'
  <1>1. FineTask' = FineTask
    BY DEF FineTask, Ready, tree
  <1>2. TreeType' /\ ParentsFirst'
    BY DEF OrderInv, TreeType, ParentsFirst, tree
  <1>. QED  BY <1>1, <1>2 DEF OrderInv

LEMMA AcceptedKeeps ==
  ASSUME OrderInv, NEW a \in Actor, NEW call, NEW tasks \in Seq(FineTask),
         Accepted(a, call, tasks)
  PROVE  OrderInv'
  <1>1. todo' \in [Actor -> Seq(FineTask)]
    BY StackPush DEF OrderInv, Accepted
  <1>. QED  BY <1>1, SameTree DEF Accepted

LEMMA BecomesKeeps ==
  ASSUME OrderInv, NEW a \in Actor, todo[a] # <<>>, NEW tasks \in Seq(FineTask),
         Becomes(a, tasks), UNCHANGED tree
  PROVE  OrderInv'
  <1>1. todo' \in [Actor -> Seq(FineTask)]
    BY StackBecomes DEF OrderInv
  <1>. QED  BY <1>1, SameTree

LEMMA ThrowsKeeps ==
  ASSUME OrderInv, NEW a \in Actor, Throws(a), UNCHANGED tree
  PROVE  OrderInv'
  <1>1. todo' \in [Actor -> Seq(FineTask)]
    BY StackThrows DEF OrderInv
  <1>. QED  BY <1>1, SameTree

\* The lists of tasks that occur in the calls.
LEMMA CallTasks ==
  /\ Client \in FineTask
  /\ \A what \in {"cycle", "initialise", "initFor", "clear"} : Just(what) \in FineTask
  /\ \A s \in SimState : SetState(s) \in FineTask /\ Assign(s) \in FineTask
  /\ \A ph \in Phase : ForAll(ph) \in Seq(FineTask)
  /\ InitialiseTasks \in Seq(FineTask)
  <1>1. Client \in Plain
    BY DEF Client, Plain
  <1>2. \A what \in {"cycle", "initialise", "initFor", "clear"} : Just(what) \in Plain
    BY DEF Just, Plain
  <1>3. \A s \in SimState : SetState(s) \in Plain /\ Assign(s) \in Plain
    BY DEF SetState, Assign, Plain
  <1>4. \A ph \in Phase : ForAll(ph) \in Seq(FineTask)
    <2>. TAKE ph \in Phase
    <2>1. For(ph, "services") \in FineTask /\ For(ph, "models") \in FineTask
      BY ForTopIsFine
    <2>. QED  BY <2>1 DEF ForAll
  <1>5. InitialiseTasks \in Seq(FineTask)
    <2>1. SetState("Initialising") \in FineTask /\ SetState("Standby") \in FineTask
      BY <1>3, PlainIsFine DEF SimState
    <2>2. Just("initFor") \in FineTask /\ Just("clear") \in FineTask
      BY <1>2, PlainIsFine
    <2>. QED  BY <2>1, <2>2 DEF InitialiseTasks
  <1>. QED  BY <1>1, <1>2, <1>3, <1>4, <1>5, PlainIsFine

LEMMA CallsKeep ==
  ASSUME OrderInv, NEW a \in Actor,
         \/ Publish(a) \/ Configure(a) \/ Connect(a) \/ Initialise(a) \/ Run(a)
         \/ Stop(a) \/ Store(a) \/ Restore(a) \/ Reconnect(a) \/ Exit(a) \/ Abort(a)
  PROVE  OrderInv'
  <1>. USE CallTasks
  <1>1. CASE Publish(a)
    <2>1. For("Publish", "models") \in FineTask
      BY ForTopIsFine DEF Phase
    <2>2. <<Just("cycle"), For("Publish", "models")>> \in Seq(FineTask)
      BY <2>1
    <2>. QED  BY <1>1, <2>2, AcceptedKeeps DEF Publish
  <1>2. CASE Configure(a)
    <2>1. ForAll("Configure") \in Seq(FineTask)
      BY DEF Phase
    <2>. QED  BY <1>2, <2>1, AcceptedKeeps DEF Configure
  <1>3. CASE Connect(a)
    <2>1. <<SetState("Connecting")>> \in Seq(FineTask)
      BY DEF SimState
    <2>2. ForAll("Connect") \in Seq(FineTask)
      BY DEF Phase
    <2>3. <<SetState("Standby"), Just("initialise")>> \in Seq(FineTask)
      BY DEF SimState
    <2>4. <<SetState("Connecting")>> \o ForAll("Connect") \in Seq(FineTask)
      BY <2>1, <2>2, ConcatProperties
    <2>5. <<SetState("Connecting")>> \o ForAll("Connect")
          \o <<SetState("Standby"), Just("initialise")>> \in Seq(FineTask)
      BY <2>3, <2>4, ConcatProperties
    <2>. QED  BY <1>3, <2>5, AcceptedKeeps DEF Connect
  <1>4. CASE Initialise(a)
    BY <1>4, AcceptedKeeps DEF Initialise
  <1>5. CASE Run(a) \/ Stop(a) \/ Abort(a)
    <2>1. /\ <<SetState("Executing")>> \in Seq(FineTask)
          /\ <<SetState("Standby")>> \in Seq(FineTask)
          /\ <<SetState("Aborting")>> \in Seq(FineTask)
      BY DEF SimState
    <2>2. CASE Run(a)
      BY <2>1, <2>2, AcceptedKeeps DEF Run
    <2>3. CASE Stop(a)
      BY <2>1, <2>3, AcceptedKeeps DEF Stop
    <2>4. CASE Abort(a)
      BY <2>1, <2>4, AcceptedKeeps DEF Abort
    <2>. QED  BY <1>5, <2>2, <2>3, <2>4
  <1>6. CASE Store(a) \/ Restore(a)
    <2>1. /\ <<SetState("Storing"), Client, SetState("Standby")>> \in Seq(FineTask)
          /\ <<SetState("Restoring"), Client, SetState("Standby")>> \in Seq(FineTask)
      BY DEF SimState
    <2>. QED  BY <1>6, <2>1, AcceptedKeeps DEF Store, Restore
  <1>7. CASE Reconnect(a)
    <2>1. PICK c \in Present :
            /\ home[c] \in Component => comp[home[c]] = "Connected"
            /\ Accepted(a, "Reconnect", <<DoPhase("Connect", c)>>)
      BY <1>7 DEF Reconnect
    <2>2. DoPhase("Connect", c) \in FineTask
      <3>1. Ready("Connect", home[c])
        BY <2>1 DEF Ready, Rank, After
      <3>2. DoPhase("Connect", c) \in Task
        BY DEF Present, DoPhase, Task, Phase
      <3>. QED  BY <3>1, <3>2 DEF Present, DoPhase, FineTask
    <2>3. <<DoPhase("Connect", c)>> \in Seq(FineTask)
      BY <2>2
    <2>. QED  BY <2>1, <2>3, AcceptedKeeps
  <1>8. CASE Exit(a)
    <2>1. <<SetState("Exiting")>> \in Seq(FineTask)
      BY DEF SimState
    <2>2. ForAll("Disconnect") \in Seq(FineTask)
      BY DEF Phase
    <2>3. <<SetState("Exiting")>> \o ForAll("Disconnect") \in Seq(FineTask)
      BY <2>1, <2>2, ConcatProperties
    <2>. QED  BY <1>8, <2>3, AcceptedKeeps DEF Exit
  <1>. QED  BY <1>1, <1>2, <1>3, <1>4, <1>5, <1>6, <1>7, <1>8
-----------------------------------------------------------------------------
(***************************************************************************)
(* Steps that change the tree.                                             *)
(***************************************************************************)

\* Additions: the new component is created, or, on its own, connected, in a
\* container of the simulator.
LEMMA AddKeeps ==
  ASSUME OrderInv, NEW a \in Actor, Add(a)
  PROVE  OrderInv'
  <1>1. PICK c \in Component \ Present, p \in Place :
          LET old == IF p = "services" THEN Replaces[c] ELSE None IN
          /\ comp[c] = "Created" /\ p \in Places[c]
          /\ members' = [members EXCEPT ![p] =
               Append(IF old \in ToSet(@)
                      THEN RemoveAt(@, CHOOSE i \in DOMAIN @ : @[i] = old) ELSE @, c)]
          /\ home' = [d \in Component |-> IF d = c THEN p
                                          ELSE IF d = old THEN None ELSE home[d]]
          /\ comp' = [d \in Component |-> IF d = old THEN "Deleted" ELSE comp[d]]
    BY DEF Add
  <1>. DEFINE old == IF p = "services" THEN Replaces[c] ELSE None
  <1>2. home[c] = None /\ old # c /\ None \notin Component /\ None \notin Place
    BY ConstantsAssumption DEF Present, Place
  <1>3. /\ comp' \in [Component -> DOMAIN Rank]
        /\ home' \in [Component -> Place \union {None}]
        /\ \A d \in Component : Rank[comp[d]] <= Rank[comp'[d]]
        /\ \A d \in Component : home[d] # None => home'[d] = home[d] \/ comp'[d] = "Deleted"
        /\ home'[c] = p /\ comp'[c] = "Created"
    BY <1>1, <1>2 DEF OrderInv, TreeType, Rank
  <1>4. FineTask \subseteq FineTask'
    BY <1>3, FineGrows DEF OrderInv
  <1>5. todo' \in [Actor -> Seq(FineTask')]
    <2>1. todo' = todo /\ todo \in [Actor -> Seq(FineTask)]
      BY DEF Add, OrderInv
    <2>. QED  BY <2>1, <1>4, StackWidens
  <1>6. ParentsFirst'
    <2>. SUFFICES ASSUME NEW d \in Component, home'[d] \in Component
                  PROVE  Rank[comp'[d]] <= Rank[comp'[home'[d]]]
      BY DEF ParentsFirst
    <2>1. CASE d = c
      BY <2>1, <1>1, <1>3 DEF Rank, OrderInv, TreeType
    <2>2. CASE d # c
      <3>1. d # old /\ home'[d] = home[d] /\ comp'[d] = comp[d]
        BY <2>2, <1>1, <1>2
      <3>2. Rank[comp[d]] <= Rank[comp[home[d]]]
        BY <3>1 DEF OrderInv, ParentsFirst
      <3>3. /\ Rank[comp[home[d]]] <= Rank[comp'[home[d]]]
            /\ comp[d] \in DOMAIN Rank /\ comp[home[d]] \in DOMAIN Rank
            /\ comp'[home[d]] \in DOMAIN Rank
        BY <1>3, <3>1 DEF OrderInv, TreeType
      <3>. QED  BY <3>1, <3>2, <3>3 DEF Rank
    <2>. QED  BY <2>1, <2>2
  <1>7. TreeType'
    <2>. DEFINE At0(m, q) == home'[m] = q \/ comp'[m] = "Deleted"
                Residents == {m \in Component : At0(m, p)}
    <2>1. \A q \in Place : \A i \in DOMAIN members[q] : At0(members[q][i], q)
      <3>. SUFFICES ASSUME NEW q \in Place, NEW i \in DOMAIN members[q]
                    PROVE  At0(members[q][i], q)
        OBVIOUS
      <3>1. members[q][i] \in Component
        BY DEF OrderInv, TreeType
      <3>2. home[members[q][i]] = q \/ comp[members[q][i]] = "Deleted"
        BY DEF OrderInv, TreeType
      <3>. QED  BY <3>1, <3>2, <1>1, <1>2
    <2>. DEFINE s == members[p]
                rest == IF old \in ToSet(s)
                        THEN RemoveAt(s, CHOOSE i \in DOMAIN s : s[i] = old) ELSE s
    <2>2. s \in Seq(Residents)
      <3>1. s \in Seq(Component) /\ \A i \in DOMAIN s : s[i] \in Residents
        BY <2>1, ElementOfSeq, LenProperties DEF OrderInv, TreeType
      <3>2. s \in [1 .. Len(s) -> Residents] /\ Len(s) \in Nat
        BY <3>1, LenProperties
      <3>. QED  BY <3>2, SeqDef
    <2>3. rest \in Seq(Residents)
      <3>1. CASE old \in ToSet(s)
        <4>. DEFINE k == CHOOSE i \in DOMAIN s : s[i] = old
        <4>1. k \in 1 .. Len(s) /\ Len(s) \in Nat
          <5>1. DOMAIN s = 1 .. Len(s) /\ Len(s) \in Nat
            BY <2>2, LenProperties
          <5>2. \E i \in DOMAIN s : s[i] = old
            BY <3>1 DEF ToSet
          <5>. QED  BY <5>1, <5>2
        <4>2. \A i \in 1 .. Len(s) : s[i] \in Residents
          BY <2>2, ElementOfSeq
        <4>3. SubSeq(s, 1, k - 1) \in Seq(Residents)
          <5>. \A i \in 1 .. k - 1 : s[i] \in Residents
            BY <4>1, <4>2
          <5>. QED  BY <4>1, SubSeqProperties
        <4>4. SubSeq(s, k + 1, Len(s)) \in Seq(Residents)
          <5>. \A i \in k + 1 .. Len(s) : s[i] \in Residents
            BY <4>1, <4>2
          <5>. QED  BY <4>1, SubSeqProperties
        <4>. QED  BY <4>3, <4>4, <3>1, ConcatProperties DEF RemoveAt
      <3>2. CASE old \notin ToSet(s)
        BY <3>2, <2>2
      <3>. QED  BY <3>1, <3>2
    <2>4. Append(rest, c) \in Seq(Residents)
      <3>. c \in Residents
        BY <1>3
      <3>. HIDE DEF rest, Residents
      <3>. QED  BY <2>3, AppendProperties
    <2>5. members' = [members EXCEPT ![p] = Append(rest, c)]
      BY <1>1
    <2>6. members' \in [Place -> Seq(Component)]
      <3>. Append(rest, c) \in Seq(Component)
        BY <2>4, SeqMonotonic
      <3>. HIDE DEF rest
      <3>. QED  BY <2>5 DEF OrderInv, TreeType
    <2>7. \A q \in Place : \A i \in DOMAIN members'[q] : At0(members'[q][i], q)
      <3>. SUFFICES ASSUME NEW q \in Place, NEW i \in DOMAIN members'[q]
                    PROVE  At0(members'[q][i], q)
        OBVIOUS
      <3>1. CASE q = p
        <4>1. members'[q] = Append(rest, c)
          BY <3>1, <2>5 DEF OrderInv, TreeType
        <4>2. members'[q][i] \in Residents
          <5>. HIDE DEF rest, Residents
          <5>. QED  BY <4>1, <2>4, LenProperties
        <4>. QED  BY <4>2, <3>1
      <3>2. CASE q # p
        BY <3>2, <2>1, <2>5 DEF OrderInv, TreeType
      <3>. QED  BY <3>1, <3>2
    <2>. QED  BY <1>3, <2>6, <2>7 DEF TreeType
  <1>. QED  BY <1>5, <1>6, <1>7 DEF OrderInv

LEMMA AddConnectedKeeps ==
  ASSUME OrderInv, NEW a \in Actor, AddConnected(a)
  PROVE  OrderInv'
  <1>1. PICK c \in Component \ Present :
          /\ comp[c] = "Created"
          /\ members' = [members EXCEPT !["services"] = Append(@, c)]
          /\ home' = [home EXCEPT ![c] = "services"]
          /\ comp' = [comp EXCEPT ![c] = "Connected"]
    BY DEF AddConnected
  <1>2. home[c] = None /\ "services" \in Place /\ "services" \notin Component
    BY ConstantsAssumption DEF Present, Place
  <1>3. /\ comp' \in [Component -> DOMAIN Rank]
        /\ home' \in [Component -> Place \union {None}]
        /\ \A d \in Component : Rank[comp[d]] <= Rank[comp'[d]]
        /\ \A d \in Component : home[d] # None => home'[d] = home[d]
        /\ home'[c] = "services"
    BY <1>1, <1>2 DEF OrderInv, TreeType, Rank
  <1>4. FineTask \subseteq FineTask'
    BY <1>3, FineGrows DEF OrderInv
  <1>5. todo' \in [Actor -> Seq(FineTask')]
    <2>1. todo' = todo /\ todo \in [Actor -> Seq(FineTask)]
      BY DEF AddConnected, OrderInv
    <2>. QED  BY <2>1, <1>4, StackWidens
  <1>6. ParentsFirst'
    <2>. SUFFICES ASSUME NEW d \in Component, home'[d] \in Component
                  PROVE  Rank[comp'[d]] <= Rank[comp'[home'[d]]]
      BY DEF ParentsFirst
    <2>1. d # c /\ home'[d] = home[d] /\ comp'[d] = comp[d]
      BY <1>1, <1>2, <1>3 DEF OrderInv, TreeType
    <2>2. Rank[comp[d]] <= Rank[comp[home[d]]]
      BY <2>1 DEF OrderInv, ParentsFirst
    <2>3. /\ Rank[comp[home[d]]] <= Rank[comp'[home[d]]]
          /\ comp[d] \in DOMAIN Rank /\ comp[home[d]] \in DOMAIN Rank
          /\ comp'[home[d]] \in DOMAIN Rank
      BY <1>3, <2>1 DEF OrderInv, TreeType
    <2>. QED  BY <2>1, <2>2, <2>3 DEF Rank
  <1>7. TreeType'
    <2>1. members["services"] \in Seq(Component)
      BY <1>2 DEF OrderInv, TreeType
    <2>2. members' \in [Place -> Seq(Component)]
      <3>. Append(members["services"], c) \in Seq(Component)
        BY <2>1, AppendProperties
      <3>. QED  BY <1>1, <1>2 DEF OrderInv, TreeType
    <2>3. ASSUME NEW q \in Place, NEW i \in DOMAIN members'[q]
          PROVE  home'[members'[q][i]] = q \/ comp'[members'[q][i]] = "Deleted"
      <3>1. CASE q = "services" /\ i = Len(members["services"]) + 1
        <4>1. members'[q] = Append(members["services"], c)
          BY <3>1, <1>1, <1>2 DEF OrderInv, TreeType
        <4>2. members'[q][i] = c
          BY <4>1, <3>1, <2>1, AppendProperties
        <4>. QED  BY <4>2, <3>1, <1>3
      <3>2. CASE ~(q = "services" /\ i = Len(members["services"]) + 1)
        <4>1. i \in DOMAIN members[q] /\ members'[q][i] = members[q][i]
          <5>1. CASE q = "services"
            <6>1. members'[q] = Append(members["services"], c)
              BY <5>1, <1>1, <1>2 DEF OrderInv, TreeType
            <6>2. /\ DOMAIN members'[q] = 1 .. Len(members["services"]) + 1
                  /\ DOMAIN members[q] = 1 .. Len(members["services"])
                  /\ Len(members["services"]) \in Nat
              BY <5>1, <6>1, <2>1, <2>2, AppendProperties, LenProperties
            <6>3. i \in 1 .. Len(members["services"])
              BY <6>2, <3>2, <5>1
            <6>. QED  BY <6>1, <6>2, <6>3, <5>1, <2>1, AppendProperties
          <5>2. CASE q # "services"
            BY <5>2, <1>1 DEF OrderInv, TreeType
          <5>. QED  BY <5>1, <5>2
        <4>2. members[q][i] \in Component
          BY <4>1, ElementOfSeq, LenProperties DEF OrderInv, TreeType
        <4>3. home[members[q][i]] = q \/ comp[members[q][i]] = "Deleted"
          BY <4>1 DEF OrderInv, TreeType
        <4>4. members[q][i] # c
          BY <4>3, <1>1, <1>2, ConstantsAssumption
        <4>5. /\ home'[members[q][i]] = home[members[q][i]]
              /\ comp'[members[q][i]] = comp[members[q][i]]
          BY <4>2, <4>4, <1>1 DEF OrderInv, TreeType
        <4>. QED  BY <4>1, <4>3, <4>5
      <3>. QED  BY <3>1, <3>2
    <2>. QED  BY <1>3, <2>2, <2>3 DEF TreeType
  <1>. QED  BY <1>5, <1>6, <1>7 DEF OrderInv
-----------------------------------------------------------------------------
(***************************************************************************)
(* The phases.                                                             *)
(***************************************************************************)

\* A component that goes through a phase is the first of its children to do
\* so, and its parent has done so already.
LEMMA ProceedKeeps ==
  ASSUME OrderInv, NEW a \in Actor, todo[a] # <<>>, NEW ph \in Phase,
         NEW c \in Component,
         comp[c] = "Deleted" \/ (home[c] # None /\ Ready(ph, home[c])),
         ProceedWith(a, ph, c)
  PROVE  OrderInv'
  <1>1. CASE comp[c] # Before[ph]
    <2>1. Throws(a) /\ UNCHANGED tree
      BY <1>1 DEF ProceedWith, tree
    <2>. QED  BY <2>1, ThrowsKeeps
  <1>2. CASE comp[c] = Before[ph]
    <2>1. /\ comp' = [comp EXCEPT ![c] = After[ph]]
          /\ Becomes(a, <<Client, For(ph, c)>>)
          /\ members' = members /\ home' = home
      BY <1>2 DEF ProceedWith
    <2>2. /\ After[ph] \in DOMAIN Rank
          /\ Rank[comp[c]] <= Rank[After[ph]]
          /\ comp[c] # "Deleted"
      BY <1>2 DEF Before, After, Rank, Phase
    <2>3. /\ comp' \in [Component -> DOMAIN Rank]
          /\ comp'[c] = After[ph]
          /\ \A d \in Component : d # c => comp'[d] = comp[d]
      BY <2>1, <2>2 DEF OrderInv, TreeType
    <2>4. \A d \in Component : Rank[comp[d]] <= Rank[comp'[d]]
      BY <2>2, <2>3 DEF OrderInv, TreeType, Rank
    <2>5. FineTask \subseteq FineTask'
      BY <2>1, <2>3, <2>4, FineGrows DEF OrderInv
    <2>6. todo' \in [Actor -> Seq(FineTask')]
      <3>1. todo \in [Actor -> Seq(FineTask')]
        BY <2>5, StackWidens DEF OrderInv
      <3>2. Client \in FineTask'
        BY <2>5, CallTasks
      <3>3. For(ph, c) \in FineTask'
        <4>1. c \in Place
          BY DEF Place
        <4>2. Ready(ph, c)'
          BY <2>2, <2>3 DEF Ready, Rank
        <4>. QED  BY <4>1, <4>2 DEF For, FineTask, Task
      <3>4. <<Client, For(ph, c)>> \in Seq(FineTask')
        BY <3>2, <3>3
      <3>. QED  BY <2>1, <3>1, <3>4, StackBecomes
    <2>7. ParentsFirst'
      <3>. SUFFICES ASSUME NEW d \in Component, home'[d] \in Component
                    PROVE  Rank[comp'[d]] <= Rank[comp'[home'[d]]]
        BY DEF ParentsFirst
      <3>1. CASE d = c
        <4>1. Rank[After[ph]] <= Rank[comp[home[c]]]
          BY <3>1, <2>1, <2>2 DEF Ready
        <4>2. Rank[comp[home[c]]] <= Rank[comp'[home[c]]]
          BY <3>1, <2>1, <2>4
        <4>3. /\ comp[home[c]] \in DOMAIN Rank /\ comp'[home[c]] \in DOMAIN Rank
              /\ home[c] \in Component
          BY <3>1, <2>1, <2>3 DEF OrderInv, TreeType
        <4>. QED  BY <3>1, <4>1, <4>2, <4>3, <2>1, <2>2, <2>3 DEF Rank
      <3>2. CASE d # c
        <4>1. comp'[d] = comp[d] /\ home'[d] = home[d]
          BY <3>2, <2>1, <2>3
        <4>2. Rank[comp[d]] <= Rank[comp[home[d]]]
          BY <4>1 DEF OrderInv, ParentsFirst
        <4>3. Rank[comp[home[d]]] <= Rank[comp'[home[d]]]
          BY <4>1, <2>4
        <4>4. /\ comp[home[d]] \in DOMAIN Rank /\ comp'[home[d]] \in DOMAIN Rank
              /\ comp[d] \in DOMAIN Rank
          BY <4>1, <2>3 DEF OrderInv, TreeType
        <4>. QED  BY <4>1, <4>2, <4>3, <4>4 DEF Rank
      <3>. QED  BY <3>1, <3>2
    <2>8. ASSUME NEW q \in Place, NEW i \in DOMAIN members[q]
          PROVE  home[members[q][i]] = q \/ comp'[members[q][i]] = "Deleted"
      <3>1. home[members[q][i]] = q \/ comp[members[q][i]] = "Deleted"
        BY DEF OrderInv, TreeType
      <3>2. members[q][i] \in Component
        BY ElementOfSeq, LenProperties DEF OrderInv, TreeType
      <3>. QED  BY <3>1, <3>2, <2>2, <2>3
    <2>9. TreeType'
      BY <2>1, <2>3, <2>8 DEF OrderInv, TreeType
    <2>. QED  BY <2>6, <2>7, <2>9 DEF OrderInv
  <1>. QED  BY <1>1, <1>2

LEMMA BeginPhaseKeeps ==
  ASSUME OrderInv, NEW a \in Actor, BeginPhase(a)
  PROVE  OrderInv'
  <1>. DEFINE t == Head(todo[a])
              previous == IF t.ph = "Connect" THEN "Configure" ELSE "Publish"
  <1>1. todo[a] # <<>> /\ t \in FineTask /\ t.do = "phase"
    BY NextTask DEF BeginPhase, OrderInv
  <1>2. /\ t.ph \in Phase /\ t.c \in Component
        /\ comp[t.c] = "Deleted" \/ (home[t.c] # None /\ Ready(t.ph, home[t.c]))
    BY <1>1 DEF FineTask, Task
  <1>3. CASE Behind(t.ph, t.c)
    <2>1. /\ Becomes(a, <<DoPhase(previous, t.c), Enter(t.ph, t.c)>>)
          /\ UNCHANGED tree
      BY <1>3 DEF BeginPhase
    <2>2. home[t.c] # None /\ Ready(t.ph, home[t.c]) /\ t.ph \in {"Configure", "Connect"}
      BY <1>2, <1>3 DEF Behind
    <2>3. previous \in Phase /\ Ready(previous, home[t.c])
      <3>1. /\ previous \in {"Publish", "Configure"}
            /\ Rank[After[previous]] <= Rank[After[t.ph]]
            /\ Rank[After[previous]] \in Nat /\ Rank[After[t.ph]] \in Nat
        <4>1. CASE t.ph = "Connect"
          BY <4>1 DEF Rank, After
        <4>2. CASE t.ph = "Configure"
          BY <4>2 DEF Rank, After
        <4>. QED  BY <4>1, <4>2, <2>2
      <3>2. ASSUME home[t.c] \in Component
            PROVE  Rank[comp[home[t.c]]] \in Nat
        BY <3>2 DEF OrderInv, TreeType, Rank
      <3>3. Ready(previous, home[t.c])
        <4>. DEFINE r == Rank[After[previous]]
                    s == Rank[After[t.ph]]
                    u == Rank[comp[home[t.c]]]
        <4>1. home[t.c] \in Component => s <= u
          BY <2>2 DEF Ready
        <4>2. r <= s /\ r \in Nat /\ s \in Nat /\ (home[t.c] \in Component => u \in Nat)
          BY <3>1, <3>2
        <4>3. home[t.c] \in Component => r <= u
          <5>. HIDE DEF r, s, u
          <5>. QED  BY <4>1, <4>2
        <4>. QED  BY <4>3 DEF Ready
      <3>. QED  BY <3>1, <3>3 DEF Phase
    <2>. HIDE DEF previous
    <2>4. DoPhase(previous, t.c) \in FineTask
      BY <1>2, <2>2, <2>3 DEF DoPhase, FineTask, Task
    <2>5. Enter(t.ph, t.c) \in FineTask
      BY <1>2, <2>2 DEF Enter, FineTask, Task
    <2>6. <<DoPhase(previous, t.c), Enter(t.ph, t.c)>> \in Seq(FineTask)
      BY <2>4, <2>5
    <2>. QED  BY <1>1, <2>1, <2>6, BecomesKeeps
  <1>4. CASE ~Behind(t.ph, t.c)
    <2>1. ProceedWith(a, t.ph, t.c)
      BY <1>4 DEF BeginPhase
    <2>. QED  BY <1>1, <1>2, <2>1, ProceedKeeps
  <1>. QED  BY <1>3, <1>4

LEMMA EnterPhaseKeeps ==
  ASSUME OrderInv, NEW a \in Actor, EnterPhase(a)
  PROVE  OrderInv'
  <1>. DEFINE t == Head(todo[a])
  <1>1. todo[a] # <<>> /\ t \in FineTask /\ t.do = "enter"
    BY NextTask DEF EnterPhase, OrderInv
  <1>2. /\ t.ph \in Phase /\ t.c \in Component
        /\ comp[t.c] = "Deleted" \/ (home[t.c] # None /\ Ready(t.ph, home[t.c]))
    BY <1>1 DEF FineTask, Task
  <1>. QED  BY <1>1, <1>2, ProceedKeeps DEF EnterPhase

\* A walk over the members of a container leaves phases of these members.
LEMMA WalksKeep ==
  ASSUME OrderInv, NEW a \in Actor, BeginFor(a) \/ WalkOn(a) \/ WalkEnds(a)
  PROVE  OrderInv'
  <1>. DEFINE t == Head(todo[a])
  <1>1. todo[a] # <<>> /\ t \in FineTask /\ t.do \in {"for", "walk"}
    BY NextTask DEF BeginFor, WalkOn, WalkEnds, OrderInv
  <1>2. /\ t.ph \in Phase /\ t.in \in Place /\ Ready(t.ph, t.in)
        /\ t.do = "walk" => t.i \in Nat /\ t.n \in Nat
    BY <1>1 DEF FineTask, Task
  <1>3. members[t.in] \in Seq(Component) /\ Len(members[t.in]) \in Nat
    BY <1>2, LenProperties DEF OrderInv, TreeType
  <1>4. \A i, n \in Nat : Walk(t.ph, t.in, i, n) \in FineTask
    BY <1>2 DEF Walk, FineTask, Task
  <1>5. CASE BeginFor(a)
    <2>1. Becomes(a, <<Walk(t.ph, t.in, 0, Len(members[t.in]))>>) /\ UNCHANGED tree
      BY <1>5 DEF BeginFor
    <2>2. <<Walk(t.ph, t.in, 0, Len(members[t.in]))>> \in Seq(FineTask)
      BY <1>3, <1>4
    <2>. QED  BY <1>1, <2>1, <2>2, BecomesKeeps
  <1>6. CASE WalkOn(a)
    <2>. DEFINE next == Walk(t.ph, t.in, t.i + 1, t.n)
                c == members[t.in][t.i + 1]
    <2>1. /\ t.do = "walk" /\ t.i < Len(members[t.in]) /\ UNCHANGED tree
          /\ \/ Becomes(a, <<next>>)
             \/ Becomes(a, <<DoPhase(t.ph, c), next>>)
      BY <1>6 DEF WalkOn, At
    <2>2. next \in FineTask
      BY <2>1, <1>2, <1>4
    <2>3. t.i + 1 \in DOMAIN members[t.in]
      BY <2>1, <1>2, <1>3, LenProperties
    <2>4. c \in Component
      BY <2>3, <1>3, LenProperties, ElementOfSeq
    <2>5. home[c] = t.in \/ comp[c] = "Deleted"
      BY <2>3, <1>2 DEF OrderInv, TreeType
    <2>6. t.in # None
      BY <1>2, ConstantsAssumption
    <2>. HIDE DEF next, c
    <2>7. DoPhase(t.ph, c) \in FineTask
      BY <2>4, <2>5, <2>6, <1>2 DEF DoPhase, FineTask, Task
    <2>8. <<next>> \in Seq(FineTask) /\ <<DoPhase(t.ph, c), next>> \in Seq(FineTask)
      BY <2>2, <2>7
    <2>. QED  BY <1>1, <2>1, <2>8, BecomesKeeps
  <1>7. CASE WalkEnds(a)
    <2>1. Becomes(a, <<>>) /\ UNCHANGED tree
      BY <1>7 DEF WalkEnds
    <2>2. <<>> \in Seq(FineTask)
      BY EmptySeq
    <2>. QED  BY <1>1, <2>1, <2>2, BecomesKeeps
  <1>. QED  BY <1>5, <1>6, <1>7

-----------------------------------------------------------------------------
(***************************************************************************)
(* The other tasks.                                                        *)
(***************************************************************************)

LEMMA StateTasksKeep ==
  ASSUME OrderInv, NEW a \in Actor, BeginSetState(a) \/ AssignState(a)
  PROVE  OrderInv'
  <1>. DEFINE t == Head(todo[a])
  <1>1. todo[a] # <<>> /\ t \in FineTask /\ t.do \in {"setState", "assign"}
    BY NextTask DEF BeginSetState, AssignState, OrderInv
  <1>2. t.to \in SimState
    BY <1>1 DEF FineTask, Task
  <1>3. \A event : Emit(event) \in Seq(FineTask)
    BY CallTasks DEF Emit
  <1>4. CASE BeginSetState(a)
    <2>. DEFINE tasks == IF state = t.to THEN <<>>
                         ELSE Emit(<<"Leave", state>>) \o <<Assign(t.to)>>
    <2>1. Becomes(a, tasks) /\ UNCHANGED tree
      BY <1>4 DEF BeginSetState
    <2>2. <<Assign(t.to)>> \in Seq(FineTask)
      BY <1>2, CallTasks
    <2>3. Emit(<<"Leave", state>>) \o <<Assign(t.to)>> \in Seq(FineTask)
      BY <1>3, <2>2, ConcatProperties
    <2>4. tasks \in Seq(FineTask)
      BY <2>3
    <2>. HIDE DEF tasks
    <2>. QED  BY <1>1, <2>1, <2>4, BecomesKeeps
  <1>5. CASE AssignState(a)
    <2>1. Becomes(a, Emit(<<"Enter", state'>>)) /\ UNCHANGED tree
      BY <1>5 DEF AssignState
    <2>2. Emit(<<"Enter", state'>>) \in Seq(FineTask)
      BY <1>3
    <2>. QED  BY <1>1, <2>1, <2>2, BecomesKeeps
  <1>. QED  BY <1>4, <1>5

LEMMA OtherTasksKeep ==
  ASSUME OrderInv, NEW a \in Actor,
         \/ ClientReturns(a) \/ ClientThrows(a) \/ PublishCycle(a)
         \/ PublishCompleted(a) \/ InitialiseAfterConnect(a) \/ BeginInit(a)
         \/ ExecuteInit(a) \/ InitEnds(a) \/ ClearInit(a)
  PROVE  OrderInv'
  <1>. DEFINE t == Head(todo[a])
  <1>0. <<>> \in Seq(FineTask)
    BY EmptySeq
  <1>1. CASE ClientReturns(a) \/ InitEnds(a) \/ ClearInit(a)
    BY <1>0, <1>1, NextTask, BecomesKeeps
       DEF ClientReturns, InitEnds, ClearInit, At, tree
  <1>2. CASE ClientThrows(a)
    BY <1>2, ThrowsKeeps DEF ClientThrows, tree
  <1>3. CASE PublishCycle(a)
    <2>. DEFINE n == Len(members["services"])
    <2>1. n \in Nat
      BY LenProperties DEF OrderInv, TreeType, Place
    <2>. HIDE DEF n
    <2>2. Again(n) \in FineTask
      BY <2>1, PlainIsFine DEF Again, Plain
    <2>3. For("Publish", "services") \in FineTask
      BY ForTopIsFine DEF Phase
    <2>4. <<For("Publish", "services"), Again(n)>> \in Seq(FineTask)
      BY <2>2, <2>3
    <2>. QED  BY <1>3, <2>4, BecomesKeeps DEF PublishCycle, At, n
  <1>4. CASE PublishCompleted(a)
    <2>1. <<Just("cycle")>> \in Seq(FineTask)
      BY CallTasks
    <2>2. UNCHANGED tree /\ (Becomes(a, <<>>) \/ Becomes(a, <<Just("cycle")>>))
          /\ todo[a] # <<>>
      BY <1>4 DEF PublishCompleted, At
    <2>. QED  BY <1>0, <2>1, <2>2, BecomesKeeps
  <1>5. CASE InitialiseAfterConnect(a)
    <2>1. UNCHANGED tree /\ (Becomes(a, <<>>) \/ Becomes(a, InitialiseTasks))
          /\ todo[a] # <<>>
      BY <1>5 DEF InitialiseAfterConnect, At
    <2>. QED  BY <1>0, <2>1, CallTasks, BecomesKeeps
  <1>6. CASE BeginInit(a)
    <2>1. UNCHANGED tree /\ Becomes(a, <<InitLoop(0, Len(toInit))>>) /\ todo[a] # <<>>
      BY <1>6 DEF BeginInit, At
    <2>2. InitLoop(0, Len(toInit)) \in FineTask
      BY PlainIsFine DEF InitLoop, Plain
    <2>3. <<InitLoop(0, Len(toInit))>> \in Seq(FineTask)
      BY <2>2
    <2>. QED  BY <2>1, <2>3, BecomesKeeps
  <1>7. CASE ExecuteInit(a)
    <2>1. /\ UNCHANGED tree /\ Becomes(a, <<Client, InitLoop(t.i + 1, t.n)>>)
          /\ todo[a] # <<>> /\ t \in FineTask /\ t.do = "initLoop"
      BY <1>7, NextTask DEF ExecuteInit, At, OrderInv
    <2>2. t.i \in Nat /\ t.n \in Nat
      BY <2>1 DEF FineTask, Task
    <2>3. InitLoop(t.i + 1, t.n) \in FineTask
      BY <2>2, PlainIsFine DEF InitLoop, Plain
    <2>4. <<Client, InitLoop(t.i + 1, t.n)>> \in Seq(FineTask)
      BY <2>3, CallTasks
    <2>. QED  BY <2>1, <2>4, BecomesKeeps
  <1>. QED  BY <1>1, <1>2, <1>3, <1>4, <1>5, <1>6, <1>7

LEMMA InitEntryPointKeeps ==
  ASSUME OrderInv, NEW a \in Actor, AddInitEntryPoint(a)
  PROVE  OrderInv'
  BY SameTree DEF AddInitEntryPoint, OrderInv

-----------------------------------------------------------------------------
(***************************************************************************)
(* The theorem.                                                            *)
(***************************************************************************)

\* At first nothing is published, so nobody is ahead of anybody.
LEMMA OrderInit == Init => OrderInv
  <1>. SUFFICES ASSUME Init PROVE OrderInv
    OBVIOUS
  <1>1. comp \in [Component -> DOMAIN Rank] /\ \A c \in Component : comp[c] = "Created"
    BY DEF Init, Rank
  <1>2. members \in [Place -> Seq(Component)]
    BY ConstantsAssumption DEF Init
  <1>3. home \in [Component -> Place \union {None}]
    BY DEF Init
  <1>4. ASSUME NEW p \in Place, NEW i \in DOMAIN members[p]
        PROVE  home[members[p][i]] = p
    <2>. DEFINE c == members[p][i]
                q == CHOOSE r \in Place : c \in ToSet(members[r])
    <2>1. c \in Component
      BY <1>2, ElementOfSeq, LenProperties
    <2>2. c \in ToSet(members[p])
      BY DEF ToSet
    <2>3. q \in Place /\ c \in ToSet(members[q]) /\ home[c] = q
      BY <2>1, <2>2 DEF Init
    <2>4. PICK j \in DOMAIN members[q] : members[q][j] = c
      BY <2>3 DEF ToSet
    <2>. QED  BY <2>3, <2>4, ConstantsAssumption DEF Init
  <1>5. TreeType
    BY <1>1, <1>2, <1>3, <1>4 DEF TreeType
  <1>6. ParentsFirst
    BY <1>1 DEF ParentsFirst, Rank
  <1>7. todo \in [Actor -> Seq(FineTask)]
    BY EmptySeq DEF Init
  <1>. QED  BY <1>5, <1>6, <1>7 DEF OrderInv

LEMMA OrderNext == OrderInv /\ [Next]_vars => OrderInv'
  <1>. SUFFICES ASSUME OrderInv, [Next]_vars PROVE OrderInv'
    OBVIOUS
  <1>1. CASE UNCHANGED vars
    <2>. todo' = todo /\ UNCHANGED tree
      BY <1>1 DEF vars, tree
    <2>. QED  BY SameTree DEF OrderInv
  <1>2. ASSUME NEW a \in Actor, Call(a)
        PROVE  OrderInv'
    BY <1>2, CallsKeep, AddKeeps, AddConnectedKeeps, InitEntryPointKeeps DEF Call
  <1>3. ASSUME NEW a \in Actor, Work(a)
        PROVE  OrderInv'
    BY <1>3, OtherTasksKeep, StateTasksKeep, WalksKeep, BeginPhaseKeeps, EnterPhaseKeeps
       DEF Work
  <1>. QED  BY <1>1, <1>2, <1>3 DEF Next

\* Whatever is added, reconnected or interrupted, and whoever calls
\* meanwhile, a component is never ahead of the one that contains it.
THEOREM ParentsAlwaysFirst == Spec => []ParentsFirst
  <1>1. OrderInv => ParentsFirst
    BY DEF OrderInv
  <1>. QED  BY <1>1, OrderInit, OrderNext, PTL DEF Spec

-----------------------------------------------------------------------------
(***************************************************************************)
(* Stacks whose first task gives way to others, and stacks with tasks put  *)
(* upon them.                                                              *)
(***************************************************************************)

GivesWay(s, tasks, r) ==
  /\ s \in Seq(Task) /\ tasks \in Seq(Task) /\ r \in Seq(Task) /\ s # <<>>
  /\ Len(r) = Len(tasks) + Len(s) - 1
  /\ \A i \in 1 .. Len(tasks) : r[i] = tasks[i]
  /\ \A i \in 2 .. Len(s) : r[i + (Len(tasks) - 1)] = s[i]

Upon(s, tasks, r) ==
  /\ s \in Seq(Task) /\ tasks \in Seq(Task) /\ r \in Seq(Task)
  /\ Len(r) = Len(tasks) + Len(s)
  /\ \A i \in 1 .. Len(tasks) : r[i] = tasks[i]
  /\ \A i \in 1 .. Len(s) : r[i + Len(tasks)] = s[i]

LEMMA StacksAreTasks == OrderInv => todo \in [Actor -> Seq(Task)]
  <1>. FineTask \subseteq Task
    BY DEF FineTask
  <1>. QED  BY StackWidens DEF OrderInv

LEMMA BecomesGivesWay ==
  ASSUME OrderInv, NEW a \in Actor, todo[a] # <<>>, NEW tasks \in Seq(Task), Becomes(a, tasks)
  PROVE  /\ GivesWay(todo[a], tasks, todo'[a])
         /\ \A b \in Actor : b # a => todo'[b] = todo[b]
         /\ DOMAIN todo' = Actor
  <1>. DEFINE s == todo[a]
  <1>1. s \in Seq(Task) /\ DOMAIN todo = Actor
    BY StacksAreTasks
  <1>2. todo'[a] = tasks \o Tail(s) /\ \A b \in Actor : b # a => todo'[b] = todo[b]
    BY <1>1 DEF Becomes
  <1>3. /\ Tail(s) \in Seq(Task) /\ Len(Tail(s)) = Len(s) - 1
        /\ \A i \in 1 .. Len(Tail(s)) : Tail(s)[i] = s[i + 1]
    BY <1>1, HeadTailProperties
  <1>4. Len(s) \in Nat /\ Len(tasks) \in Nat
    BY <1>1, LenProperties
  <1>. HIDE DEF s
  <1>5. /\ tasks \o Tail(s) \in Seq(Task)
        /\ Len(tasks \o Tail(s)) = Len(tasks) + (Len(s) - 1)
        /\ \A i \in 1 .. Len(tasks) + (Len(s) - 1) : (tasks \o Tail(s))[i] =
              IF i <= Len(tasks) THEN tasks[i] ELSE Tail(s)[i - Len(tasks)]
    BY <1>3, <1>4, ConcatProperties
  <1>6. \A i \in 1 .. Len(tasks) : (tasks \o Tail(s))[i] = tasks[i]
    <2>. SUFFICES ASSUME NEW i \in 1 .. Len(tasks) PROVE (tasks \o Tail(s))[i] = tasks[i]
      OBVIOUS
    <2>1. Len(s) # 0
      BY <1>1, EmptySeq DEF s
    <2>. QED  BY <2>1, <1>4, <1>5
  <1>7. \A i \in 2 .. Len(s) : (tasks \o Tail(s))[i + (Len(tasks) - 1)] = s[i]
    <2>. SUFFICES ASSUME NEW i \in 2 .. Len(s)
                  PROVE (tasks \o Tail(s))[i + (Len(tasks) - 1)] = s[i]
      OBVIOUS
    <2>. DEFINE k == i + (Len(tasks) - 1)
    <2>1. k \in 1 .. Len(tasks) + (Len(s) - 1) /\ ~(k <= Len(tasks)) /\ k - Len(tasks) = i - 1
          /\ i - 1 \in 1 .. Len(Tail(s)) /\ (i - 1) + 1 = i
      BY <1>3, <1>4
    <2>. HIDE DEF k
    <2>2. (tasks \o Tail(s))[k] = Tail(s)[i - 1]
      BY <2>1, <1>5
    <2>. QED  BY <2>1, <2>2, <1>3 DEF k
  <1>. QED  BY <1>1, <1>2, <1>4, <1>5, <1>6, <1>7 DEF GivesWay, s, Becomes

LEMMA PushIsUpon ==
  ASSUME OrderInv, NEW a \in Actor, NEW tasks \in Seq(Task),
         todo' = [todo EXCEPT ![a] = tasks \o @]
  PROVE  /\ Upon(todo[a], tasks, todo'[a])
         /\ \A b \in Actor : b # a => todo'[b] = todo[b]
         /\ DOMAIN todo' = Actor
  <1>. DEFINE s == todo[a]
  <1>1. s \in Seq(Task) /\ DOMAIN todo = Actor
    BY StacksAreTasks
  <1>2. todo'[a] = tasks \o s /\ \A b \in Actor : b # a => todo'[b] = todo[b]
    BY <1>1
  <1>4. Len(s) \in Nat /\ Len(tasks) \in Nat
    BY <1>1, LenProperties
  <1>. HIDE DEF s
  <1>5. /\ tasks \o s \in Seq(Task)
        /\ Len(tasks \o s) = Len(tasks) + Len(s)
        /\ \A i \in 1 .. Len(tasks) + Len(s) : (tasks \o s)[i] =
              IF i <= Len(tasks) THEN tasks[i] ELSE s[i - Len(tasks)]
    BY <1>1, ConcatProperties DEF s
  <1>6. \A i \in 1 .. Len(tasks) : (tasks \o s)[i] = tasks[i]
    BY <1>4, <1>5
  <1>7. \A i \in 1 .. Len(s) : (tasks \o s)[i + Len(tasks)] = s[i]
    BY <1>4, <1>5
  <1>. QED  BY <1>1, <1>2, <1>4, <1>5, <1>6, <1>7 DEF Upon, s

\* Where the tasks of the new stack come from.
LEMMA WayOrigin ==
  ASSUME NEW s, NEW tasks, NEW r, GivesWay(s, tasks, r)
  PROVE  /\ Len(s) \in Nat \ {0} /\ Len(tasks) \in Nat /\ Len(r) = Len(tasks) + Len(s) - 1
         /\ DOMAIN s = 1 .. Len(s) /\ DOMAIN tasks = 1 .. Len(tasks) /\ DOMAIN r = 1 .. Len(r)
         /\ Head(s) = s[1] /\ s[1] \in Task
         /\ \A i \in DOMAIN r :
              \/ i \in 1 .. Len(tasks) /\ r[i] = tasks[i] /\ tasks[i] \in Task
              \/ \E k \in 2 .. Len(s) : i = k + (Len(tasks) - 1) /\ r[i] = s[k] /\ s[k] \in Task
         /\ \A i \in 1 .. Len(tasks) : i \in DOMAIN r /\ r[i] = tasks[i]
         /\ \A k \in 2 .. Len(s) : k + (Len(tasks) - 1) \in DOMAIN r /\ r[k + (Len(tasks) - 1)] = s[k]
  <1>1. /\ Len(s) \in Nat \ {0} /\ Len(tasks) \in Nat /\ Len(r) = Len(tasks) + Len(s) - 1
        /\ DOMAIN s = 1 .. Len(s) /\ DOMAIN tasks = 1 .. Len(tasks) /\ DOMAIN r = 1 .. Len(r)
    BY LenProperties, EmptySeq DEF GivesWay
  <1>2. /\ \A i \in 1 .. Len(s) : s[i] \in Task
        /\ \A i \in 1 .. Len(tasks) : tasks[i] \in Task
    BY ElementOfSeq DEF GivesWay
  <1>3. ASSUME NEW i \in DOMAIN r, i > Len(tasks)
        PROVE  \E k \in 2 .. Len(s) : i = k + (Len(tasks) - 1) /\ r[i] = s[k]
    <2>. DEFINE k == i - (Len(tasks) - 1)
    <2>1. k \in 2 .. Len(s) /\ i = k + (Len(tasks) - 1)
      BY <1>1, <1>3
    <2>. HIDE DEF k
    <2>. QED  BY <2>1 DEF GivesWay
  <1>4. \A i \in DOMAIN r :
              \/ i \in 1 .. Len(tasks) /\ r[i] = tasks[i] /\ tasks[i] \in Task
              \/ \E k \in 2 .. Len(s) : i = k + (Len(tasks) - 1) /\ r[i] = s[k] /\ s[k] \in Task
    <2>. SUFFICES ASSUME NEW i \in DOMAIN r
                  PROVE  \/ i \in 1 .. Len(tasks) /\ r[i] = tasks[i] /\ tasks[i] \in Task
                         \/ \E k \in 2 .. Len(s) : i = k + (Len(tasks) - 1) /\ r[i] = s[k] /\ s[k] \in Task
      OBVIOUS
    <2>1. CASE i <= Len(tasks)
      BY <2>1, <1>1, <1>2 DEF GivesWay
    <2>2. CASE i > Len(tasks)
      <3>1. PICK k \in 2 .. Len(s) : i = k + (Len(tasks) - 1) /\ r[i] = s[k]
        BY <2>2, <1>3
      <3>. QED  BY <3>1, <1>1, <1>2
    <2>. QED  BY <2>1, <2>2, <1>1
  <1>5. Head(s) = s[1] /\ s[1] \in Task
    BY <1>1, <1>2 DEF GivesWay
  <1>6. /\ \A i \in 1 .. Len(tasks) : i \in DOMAIN r /\ r[i] = tasks[i]
        /\ \A k \in 2 .. Len(s) : k + (Len(tasks) - 1) \in DOMAIN r /\ r[k + (Len(tasks) - 1)] = s[k]
    BY <1>1 DEF GivesWay
  <1>. QED  BY <1>1, <1>4, <1>5, <1>6

LEMMA UponOrigin ==
  ASSUME NEW s, NEW tasks, NEW r, Upon(s, tasks, r)
  PROVE  /\ Len(s) \in Nat /\ Len(tasks) \in Nat /\ Len(r) = Len(tasks) + Len(s)
         /\ DOMAIN s = 1 .. Len(s) /\ DOMAIN tasks = 1 .. Len(tasks) /\ DOMAIN r = 1 .. Len(r)
         /\ \A i \in DOMAIN r :
              \/ i \in 1 .. Len(tasks) /\ r[i] = tasks[i] /\ tasks[i] \in Task
              \/ \E k \in 1 .. Len(s) : i = k + Len(tasks) /\ r[i] = s[k] /\ s[k] \in Task
         /\ \A i \in 1 .. Len(tasks) : i \in DOMAIN r /\ r[i] = tasks[i]
         /\ \A k \in 1 .. Len(s) : k + Len(tasks) \in DOMAIN r /\ r[k + Len(tasks)] = s[k]
  <1>1. /\ Len(s) \in Nat /\ Len(tasks) \in Nat /\ Len(r) = Len(tasks) + Len(s)
        /\ DOMAIN s = 1 .. Len(s) /\ DOMAIN tasks = 1 .. Len(tasks) /\ DOMAIN r = 1 .. Len(r)
    BY LenProperties DEF Upon
  <1>2. /\ \A i \in 1 .. Len(s) : s[i] \in Task
        /\ \A i \in 1 .. Len(tasks) : tasks[i] \in Task
    BY ElementOfSeq DEF Upon
  <1>3. ASSUME NEW i \in DOMAIN r, i > Len(tasks)
        PROVE  \E k \in 1 .. Len(s) : i = k + Len(tasks) /\ r[i] = s[k]
    <2>. DEFINE k == i - Len(tasks)
    <2>1. k \in 1 .. Len(s) /\ i = k + Len(tasks)
      BY <1>1, <1>3
    <2>. HIDE DEF k
    <2>. QED  BY <2>1 DEF Upon
  <1>4. \A i \in DOMAIN r :
              \/ i \in 1 .. Len(tasks) /\ r[i] = tasks[i] /\ tasks[i] \in Task
              \/ \E k \in 1 .. Len(s) : i = k + Len(tasks) /\ r[i] = s[k] /\ s[k] \in Task
    <2>. SUFFICES ASSUME NEW i \in DOMAIN r
                  PROVE  \/ i \in 1 .. Len(tasks) /\ r[i] = tasks[i] /\ tasks[i] \in Task
                         \/ \E k \in 1 .. Len(s) : i = k + Len(tasks) /\ r[i] = s[k] /\ s[k] \in Task
      OBVIOUS
    <2>1. CASE i <= Len(tasks)
      BY <2>1, <1>1, <1>2 DEF Upon
    <2>2. CASE i > Len(tasks)
      <3>1. PICK k \in 1 .. Len(s) : i = k + Len(tasks) /\ r[i] = s[k]
        BY <2>2, <1>3
      <3>. QED  BY <3>1, <1>1, <1>2
    <2>. QED  BY <2>1, <2>2, <1>1
  <1>6. /\ \A i \in 1 .. Len(tasks) : i \in DOMAIN r /\ r[i] = tasks[i]
        /\ \A k \in 1 .. Len(s) : k + Len(tasks) \in DOMAIN r /\ r[k + Len(tasks)] = s[k]
    BY <1>1 DEF Upon
  <1>. QED  BY <1>1, <1>4, <1>6
-----------------------------------------------------------------------------
(***************************************************************************)
(* The initialisation entry points, while no call comes during another: at *)
(* most one actor has more to do than to return from client code, and the  *)
(* tasks of an initialisation come next to each other in its stack, the    *)
(* code that it is in before them.                                         *)
(***************************************************************************)
Sets(t, s) == t.do \in {"setState", "assign"} /\ t.to = s

InitTask(t) == t.do \in {"initFor", "initLoop", "clear"} \/ Sets(t, "Initialising")

Harmless(t) == t = Client \/ Sets(t, "Aborting")

Idle(s)    == \A i \in DOMAIN s : s[i] = Client
Foreign(s) == \A i \in DOMAIN s : ~InitTask(s[i])

\* k times client code, m tasks of an initialisation, and none after them.
InitPart(s, k, m) ==
  /\ k \in Nat /\ m \in Nat /\ k + m <= Len(s)
  /\ \A i \in 1 .. k : s[i] = Client
  /\ \A i \in k + m + 1 .. Len(s) : ~InitTask(s[i])

\* The entry points that wait have not been executed; or the first n have.
FirstRan(n) == \A j \in DOMAIN toInit : ran[toInit[j]] = IF j <= n THEN 1 ELSE 0
Fresh       == \A j \in DOMAIN toInit : ran[toInit[j]] = 0
AllRan      == \A j \in DOMAIN toInit : ran[toInit[j]] = 1

\* The states in which no entry point is accepted and no initialisation begins.
Closed == state \in {"Initialising", "Aborting"}

NoInit(s) ==
  /\ Foreign(s)
  /\ Fresh \/ (Closed /\ \A i \in DOMAIN s : Harmless(s[i]))

Begins(s, k) ==
  /\ InitPart(s, k, 3) /\ Fresh
  /\ Sets(s[k + 1], "Initialising") /\ s[k + 2].do = "initFor" /\ s[k + 3].do = "clear"

Starts(s, k) ==
  /\ InitPart(s, k, 2) /\ Fresh /\ state = "Initialising"
  /\ s[k + 1].do = "initFor" /\ s[k + 2].do = "clear"

Loops(s, k) ==
  /\ InitPart(s, k, 2) /\ state = "Initialising"
  /\ s[k + 1].do = "initLoop" /\ s[k + 2].do = "clear"
  /\ s[k + 1].n = Len(toInit) /\ s[k + 1].i <= Len(toInit) /\ FirstRan(s[k + 1].i)

Clears(s, k) ==
  /\ InitPart(s, k, 1) /\ AllRan /\ state = "Initialising"
  /\ s[k + 1].do = "clear"

Stage(s) ==
  \/ NoInit(s)
  \/ \E k \in Nat : Begins(s, k) \/ Starts(s, k) \/ Loops(s, k) \/ Clears(s, k)

\* Nobody waits twice, nobody is forgotten, and nobody has been executed
\* more than once.
InitsAre ==
  /\ \A i, j \in DOMAIN toInit : toInit[i] = toInit[j] => i = j
  /\ \A j \in DOMAIN toInit : toInit[j] \in accepted
  /\ \A e \in EntryPoint : ran[e] \in {0, 1} /\ (e \notin accepted => ran[e] = 0)
  /\ \A e \in accepted : ran[e] = 1 \/ \E j \in DOMAIN toInit : toInit[j] = e

InitType ==
  /\ toInit \in Seq(EntryPoint)
  /\ accepted \subseteq EntryPoint
  /\ ran \in [EntryPoint -> Nat]

Quiet == (\A a \in Actor : Idle(todo[a])) /\ (Fresh \/ Closed)

InTurn == \E a \in Actor : Stage(todo[a]) /\ \A b \in Actor : b # a => Idle(todo[b])

InitInv == InitType /\ (~overlap => InitsAre /\ (Quiet \/ InTurn))

\* Client code u times, and w other tasks.
ClientsThen(tasks, u, w) ==
  /\ u \in Nat /\ w \in Nat /\ Len(tasks) = u + w
  /\ \A i \in 1 .. u : tasks[i] = Client

\* The first task of an initialisation is replaced.
LEMMA WayShape ==
  ASSUME NEW s, NEW tasks, NEW r, GivesWay(s, tasks, r), NEW m \in Nat, m > 0,
         InitPart(s, 0, m), NEW u, NEW w, ClientsThen(tasks, u, w)
  PROVE  /\ InitPart(r, u, w + (m - 1))
         /\ \A i \in 1 .. u + w : r[i] = tasks[i]
         /\ \A i \in 1 .. m - 1 : r[(u + w) + i] = s[i + 1]
  <1>1. /\ Len(s) \in Nat /\ Len(r) = u + w + Len(s) - 1 /\ m <= Len(s)
        /\ \A i \in 1 .. u + w : r[i] = tasks[i]
        /\ \A i \in 2 .. Len(s) : r[i + ((u + w) - 1)] = s[i]
        /\ \A i \in m + 1 .. Len(s) : ~InitTask(s[i])
    BY WayOrigin DEF InitPart, GivesWay, ClientsThen
  <1>2. u \in Nat /\ w \in Nat /\ \A i \in 1 .. u : r[i] = Client
    BY <1>1 DEF ClientsThen
  <1>3. ASSUME NEW i \in u + (w + (m - 1)) + 1 .. Len(r)
        PROVE  ~InitTask(r[i])
    <2>. DEFINE k == i - ((u + w) - 1)
    <2>1. k \in m + 1 .. Len(s) /\ k \in 2 .. Len(s) /\ i = k + ((u + w) - 1)
      BY <1>1, <1>2
    <2>. HIDE DEF k
    <2>. QED  BY <2>1, <1>1
  <1>4. ASSUME NEW i \in 1 .. m - 1
        PROVE  r[(u + w) + i] = s[i + 1]
    <2>1. i + 1 \in 2 .. Len(s) /\ (i + 1) + ((u + w) - 1) = (u + w) + i
      BY <1>1, <1>2
    <2>. QED  BY <2>1, <1>1
  <1>5. u + (w + (m - 1)) <= Len(r) /\ w + (m - 1) \in Nat
    BY <1>1, <1>2
  <1>. QED  BY <1>1, <1>2, <1>3, <1>4, <1>5 DEF InitPart

LEMMA PopShape ==
  ASSUME NEW s, NEW r, GivesWay(s, <<>>, r), NEW k \in Nat, k > 0, NEW m \in Nat,
         InitPart(s, k, m)
  PROVE  /\ InitPart(r, k - 1, m)
         /\ \A i \in 1 .. m : r[(k - 1) + i] = s[k + i]
  <1>1. /\ Len(s) \in Nat /\ Len(r) = Len(s) - 1 /\ k + m <= Len(s)
        /\ \A i \in 2 .. Len(s) : r[i - 1] = s[i]
        /\ \A i \in 1 .. k : s[i] = Client
        /\ \A i \in k + m + 1 .. Len(s) : ~InitTask(s[i])
    <2>1. Len(<<>>) = 0
      BY EmptySeq
    <2>2. Len(s) \in Nat /\ Len(r) = Len(s) - 1
      BY <2>1, WayOrigin
    <2>3. \A i \in 2 .. Len(s) : r[i - 1] = s[i]
      <3>. SUFFICES ASSUME NEW i \in 2 .. Len(s) PROVE r[i - 1] = s[i]
        OBVIOUS
      <3>1. i + (0 - 1) = i - 1
        BY <2>2
      <3>. QED  BY <2>1, <3>1 DEF GivesWay
    <2>. QED  BY <2>2, <2>3 DEF InitPart
  <1>2. ASSUME NEW i \in 1 .. k - 1
        PROVE  r[i] = Client
    <2>1. i + 1 \in 2 .. Len(s) /\ i + 1 \in 1 .. k /\ (i + 1) - 1 = i
      BY <1>1
    <2>. QED  BY <2>1, <1>1
  <1>3. ASSUME NEW i \in (k - 1) + m + 1 .. Len(r)
        PROVE  ~InitTask(r[i])
    <2>1. i + 1 \in 2 .. Len(s) /\ i + 1 \in k + m + 1 .. Len(s) /\ (i + 1) - 1 = i
      BY <1>1
    <2>. QED  BY <2>1, <1>1
  <1>4. ASSUME NEW i \in 1 .. m
        PROVE  r[(k - 1) + i] = s[k + i]
    <2>1. k + i \in 2 .. Len(s) /\ (k + i) - 1 = (k - 1) + i
      BY <1>1
    <2>. QED  BY <2>1, <1>1
  <1>5. k - 1 \in Nat /\ (k - 1) + m <= Len(r)
    BY <1>1
  <1>. QED  BY <1>2, <1>3, <1>4, <1>5 DEF InitPart

\* A stack without tasks of an initialisation gives way to other such tasks,
\* or to an initialisation.
LEMMA ForeignWay ==
  ASSUME NEW s, NEW tasks, NEW r, GivesWay(s, tasks, r), Foreign(s), Foreign(tasks)
  PROVE  Foreign(r)
  BY WayOrigin DEF Foreign

LEMMA HarmlessWay ==
  ASSUME NEW s, NEW tasks, NEW r, GivesWay(s, tasks, r),
         \A i \in DOMAIN s : Harmless(s[i]), \A i \in DOMAIN tasks : Harmless(tasks[i])
  PROVE  \A i \in DOMAIN r : Harmless(r[i])
  BY WayOrigin

LEMMA ClientIsForeign == ~InitTask(Client) /\ Harmless(Client)
  BY DEF Client, InitTask, Sets, Harmless

LEMMA IdleIsForeign ==
  ASSUME NEW s, Idle(s)
  PROVE  Foreign(s) /\ \A i \in DOMAIN s : Harmless(s[i])
  BY ClientIsForeign DEF Idle, Foreign

LEMMA InitialiseTasksAre ==
  /\ InitialiseTasks \in Seq(Task) /\ Len(InitialiseTasks) = 4
  /\ Sets(InitialiseTasks[1], "Initialising")
  /\ InitialiseTasks[2].do = "initFor" /\ InitialiseTasks[3].do = "clear"
  /\ ~InitTask(InitialiseTasks[4])
  <1>1. InitialiseTasks \in Seq(Task)
    <2>. FineTask \subseteq Task
      BY DEF FineTask
    <2>. QED  BY CallTasks, SeqMonotonic
  <1>. QED  BY <1>1 DEF InitialiseTasks, SetState, Just, Sets, InitTask

LEMMA WayInitialises ==
  ASSUME NEW s, NEW r, GivesWay(s, InitialiseTasks, r), Foreign(s)
  PROVE  /\ InitPart(r, 0, 3) /\ Sets(r[1], "Initialising")
         /\ r[2].do = "initFor" /\ r[3].do = "clear"
  <1>. DEFINE tasks == InitialiseTasks
  <1>1. /\ Len(s) \in Nat \ {0} /\ Len(r) = 4 + Len(s) - 1 /\ DOMAIN s = 1 .. Len(s)
        /\ \A i \in 1 .. 4 : r[i] = tasks[i]
        /\ \A i \in 2 .. Len(s) : r[i + (4 - 1)] = s[i]
    BY InitialiseTasksAre, LenProperties, EmptySeq DEF GivesWay
  <1>. HIDE DEF tasks
  <1>2. ASSUME NEW i \in 3 + 1 .. Len(r)
        PROVE  ~InitTask(r[i])
    <2>1. CASE i = 4
      BY <2>1, <1>1, InitialiseTasksAre DEF tasks
    <2>2. CASE i # 4
      <3>. DEFINE k == i - 3
      <3>1. k \in 2 .. Len(s) /\ i = k + (4 - 1)
        BY <2>2, <1>1
      <3>. HIDE DEF k
      <3>. QED  BY <3>1, <1>1 DEF Foreign
    <2>. QED  BY <2>1, <2>2
  <1>3. InitPart(r, 0, 3)
    BY <1>1, <1>2 DEF InitPart
  <1>. QED  BY <1>1, <1>3, InitialiseTasksAre DEF tasks

LEMMA UponInitialises ==
  ASSUME NEW s, NEW r, Upon(s, InitialiseTasks, r), Foreign(s)
  PROVE  /\ InitPart(r, 0, 3) /\ Sets(r[1], "Initialising")
         /\ r[2].do = "initFor" /\ r[3].do = "clear"
  <1>. DEFINE tasks == InitialiseTasks
  <1>1. /\ Len(s) \in Nat /\ Len(r) = 4 + Len(s) /\ DOMAIN s = 1 .. Len(s)
        /\ \A i \in 1 .. 4 : r[i] = tasks[i]
        /\ \A i \in 1 .. Len(s) : r[i + 4] = s[i]
    BY InitialiseTasksAre, LenProperties DEF Upon
  <1>. HIDE DEF tasks
  <1>2. ASSUME NEW i \in 3 + 1 .. Len(r)
        PROVE  ~InitTask(r[i])
    <2>1. CASE i = 4
      BY <2>1, <1>1, InitialiseTasksAre DEF tasks
    <2>2. CASE i # 4
      <3>. DEFINE k == i - 4
      <3>1. k \in 1 .. Len(s) /\ i = k + 4
        BY <2>2, <1>1
      <3>. HIDE DEF k
      <3>. QED  BY <3>1, <1>1 DEF Foreign
    <2>. QED  BY <2>1, <2>2
  <1>3. InitPart(r, 0, 3)
    BY <1>1, <1>2 DEF InitPart
  <1>. QED  BY <1>1, <1>3, InitialiseTasksAre DEF tasks

\* The first task of a stack without tasks of an initialisation.
LEMMA NoInitGoesOn ==
  ASSUME OrderInv, NEW a \in Actor, todo[a] # <<>>, NEW tasks \in Seq(Task),
         Becomes(a, tasks), Foreign(tasks), NoInit(todo[a]), UNCHANGED <<toInit, ran>>,
         Harmless(Head(todo[a])) =>
           /\ \A i \in DOMAIN tasks : Harmless(tasks[i])
           /\ state' = state \/ state' = "Aborting"
  PROVE  Stage(todo[a])'
  <1>1. GivesWay(todo[a], tasks, todo'[a])
    BY BecomesGivesWay
  <1>2. Foreign(todo'[a])
    BY <1>1, ForeignWay DEF NoInit
  <1>3. CASE Fresh
    BY <1>2, <1>3 DEF Stage, NoInit, Fresh
  <1>4. CASE Closed /\ \A i \in DOMAIN todo[a] : Harmless(todo[a][i])
    <2>1. Harmless(Head(todo[a]))
      BY <1>1, <1>4, WayOrigin
    <2>2. \A i \in DOMAIN todo'[a] : Harmless(todo'[a][i])
      BY <1>1, <1>4, <2>1, HarmlessWay
    <2>. QED  BY <1>2, <1>4, <2>1, <2>2 DEF Stage, NoInit, Closed
  <1>. QED  BY <1>3, <1>4 DEF NoInit

\* Nothing is left to do: the initialisation had not begun, or the state is
\* the one it has left.
LEMMA ThrowsAway ==
  ASSUME OrderInv, NEW a \in Actor, Throws(a), Stage(todo[a]), UNCHANGED <<state, toInit, ran>>
  PROVE  Stage(todo[a])'
  <1>1. todo'[a] = <<>>
    BY DEF Throws, OrderInv
  <1>2. Foreign(todo'[a]) /\ \A i \in DOMAIN todo'[a] : Harmless(todo'[a][i])
    BY <1>1 DEF Foreign
  <1>3. Fresh' \/ Closed'
    BY DEF Stage, NoInit, Begins, Starts, Loops, Clears, Fresh, Closed
  <1>. QED  BY <1>2, <1>3 DEF Stage, NoInit

\* Client code returns.
LEMMA ClientLeaves ==
  ASSUME OrderInv, NEW a \in Actor, At(a, "client"), Becomes(a, <<>>), Stage(todo[a]),
         UNCHANGED <<state, toInit, ran>>
  PROVE  Stage(todo[a])'
  <1>1. GivesWay(todo[a], <<>>, todo'[a])
    BY BecomesGivesWay, EmptySeq DEF At
  <1>2. Head(todo[a]) = todo[a][1] /\ todo[a][1].do = "client" /\ todo[a][1] \in Task
    BY <1>1, WayOrigin DEF At
  <1>3. CASE NoInit(todo[a])
    <2>1. Foreign(<<>>) /\ \A i \in DOMAIN <<>> : Harmless(<<>>[i])
      BY DEF Foreign
    <2>. QED  BY <1>3, <2>1, NoInitGoesOn, EmptySeq DEF At
  <1>4. ASSUME NEW k \in Nat, \/ Begins(todo[a], k) \/ Starts(todo[a], k)
                              \/ Loops(todo[a], k) \/ Clears(todo[a], k)
        PROVE  Stage(todo[a])'
    <2>1. k # 0
      <3>1. ~(k = 0)
        <4>. SUFFICES ASSUME k = 0 PROVE FALSE
          OBVIOUS
        <4>1. todo[a][k + 1].do = "client"
          BY <1>2
        <4>. QED  BY <1>4, <4>1 DEF Begins, Starts, Loops, Clears, Sets
      <3>. QED  BY <3>1
    <2>2. k \in Nat /\ k > 0 /\ k - 1 \in Nat
      BY <2>1
    <2>0. ASSUME NEW m \in Nat, InitPart(todo[a], k, m)
          PROVE  /\ InitPart(todo'[a], k - 1, m)
                 /\ \A i \in 1 .. m : todo'[a][(k - 1) + i] = todo[a][k + i]
      <3>. DEFINE s == todo[a]
                  r == todo'[a]
      <3>1. GivesWay(s, <<>>, r) /\ InitPart(s, k, m)
        BY <1>1, <2>0
      <3>. HIDE DEF s, r
      <3>2. InitPart(r, k - 1, m) /\ \A i \in 1 .. m : r[(k - 1) + i] = s[k + i]
        BY <2>2, <3>1, PopShape, ZenonT(40)
      <3>. QED  BY <3>2 DEF s, r
    <2>3. CASE Begins(todo[a], k)
      <3>0. InitPart(todo[a], k, 3) /\ 3 \in Nat
        BY <2>3 DEF Begins
      <3>1. InitPart(todo'[a], k - 1, 3)
            /\ \A i \in 1 .. 3 : todo'[a][(k - 1) + i] = todo[a][k + i]
        BY <3>0, <2>0
      <3>2. Begins(todo[a], k - 1)'
        BY <3>1, <2>3 DEF Begins, Fresh
      <3>. QED  BY <3>2, <2>2 DEF Stage
    <2>4. CASE Starts(todo[a], k)
      <3>0. InitPart(todo[a], k, 2) /\ 2 \in Nat
        BY <2>4 DEF Starts
      <3>1. InitPart(todo'[a], k - 1, 2)
            /\ \A i \in 1 .. 2 : todo'[a][(k - 1) + i] = todo[a][k + i]
        BY <3>0, <2>0
      <3>2. Starts(todo[a], k - 1)'
        BY <3>1, <2>4 DEF Starts, Fresh
      <3>. QED  BY <3>2, <2>2 DEF Stage
    <2>5. CASE Loops(todo[a], k)
      <3>0. InitPart(todo[a], k, 2) /\ 2 \in Nat
        BY <2>5 DEF Loops
      <3>1. InitPart(todo'[a], k - 1, 2)
            /\ \A i \in 1 .. 2 : todo'[a][(k - 1) + i] = todo[a][k + i]
        BY <3>0, <2>0
      <3>2. todo'[a][(k - 1) + 1] = todo[a][k + 1] /\ todo'[a][(k - 1) + 2] = todo[a][k + 2]
        BY <3>1
      <3>3. Loops(todo[a], k - 1)'
        BY <3>1, <3>2, <2>5 DEF Loops, FirstRan
      <3>. QED  BY <3>3, <2>2 DEF Stage
    <2>6. CASE Clears(todo[a], k)
      <3>0. InitPart(todo[a], k, 1) /\ 1 \in Nat
        BY <2>6 DEF Clears
      <3>1. InitPart(todo'[a], k - 1, 1)
            /\ \A i \in 1 .. 1 : todo'[a][(k - 1) + i] = todo[a][k + i]
        BY <3>0, <2>0
      <3>2. Clears(todo[a], k - 1)'
        BY <3>1, <2>6 DEF Clears, AllRan
      <3>. QED  BY <3>2, <2>2 DEF Stage
    <2>. QED  BY <1>4, <2>3, <2>4, <2>5, <2>6
  <1>. QED  BY <1>3, <1>4 DEF Stage

\* A task other than client code is the first of an initialisation, or not
\* of an initialisation.
LEMMA StageAt ==
  ASSUME OrderInv, NEW a \in Actor, todo[a] # <<>>, ~At(a, "client"), Stage(todo[a])
  PROVE  /\ Head(todo[a]) = todo[a][1]
         /\ \/ NoInit(todo[a]) /\ ~InitTask(Head(todo[a]))
            \/ Begins(todo[a], 0) \/ Starts(todo[a], 0) \/ Loops(todo[a], 0)
            \/ Clears(todo[a], 0)
  <1>1. /\ todo[a] \in Seq(Task) /\ Len(todo[a]) \in Nat \ {0} /\ Head(todo[a]) = todo[a][1]
        /\ DOMAIN todo[a] = 1 .. Len(todo[a])
    BY StacksAreTasks, LenProperties, EmptySeq
  <1>2. todo[a][1] # Client
    BY <1>1 DEF At, Client
  <1>3. ASSUME NEW k \in Nat, NEW m, InitPart(todo[a], k, m)
        PROVE  k = 0
    <2>1. CASE k > 0
      <3>1. todo[a][1] = Client
        BY <1>3, <2>1 DEF InitPart
      <3>. QED  BY <3>1, <1>2
    <2>. QED  BY <2>1
  <1>4. NoInit(todo[a]) => ~InitTask(todo[a][1])
    BY <1>1 DEF NoInit, Foreign
  <1>5. ASSUME NEW k \in Nat, \/ Begins(todo[a], k) \/ Starts(todo[a], k)
                              \/ Loops(todo[a], k) \/ Clears(todo[a], k)
        PROVE  k = 0
    BY <1>3, <1>5 DEF Begins, Starts, Loops, Clears
  <1>. QED  BY <1>1, <1>4, <1>5 DEF Stage

LEMMA EmitIs ==
  ASSUME NEW event
  PROVE  /\ Emit(event) \in Seq(Task)
         /\ \E u \in Nat : ClientsThen(Emit(event), u, 0)
  <1>1. Client \in Task
    BY DEF Client, Task
  <1>2. CASE Emit(event) = <<>>
    <2>1. Emit(event) \in Seq(Task) /\ Len(Emit(event)) = 0
      BY <1>2, EmptySeq
    <2>2. ClientsThen(Emit(event), 0, 0)
      BY <2>1 DEF ClientsThen
    <2>. QED  BY <2>1, <2>2
  <1>3. CASE Emit(event) = <<Client>>
    <2>1. ClientsThen(<<Client>>, 1, 0)
      BY DEF ClientsThen
    <2>. QED  BY <1>1, <1>3, <2>1
  <1>. QED  BY <1>2, <1>3 DEF Emit

LEMMA AssigningIs ==
  ASSUME NEW event, NEW st \in SimState
  PROVE  /\ Emit(event) \o <<Assign(st)>> \in Seq(Task)
         /\ \E u \in Nat :
              /\ ClientsThen(Emit(event) \o <<Assign(st)>>, u, 1)
              /\ (Emit(event) \o <<Assign(st)>>)[u + 1] = Assign(st)
  <1>. DEFINE e == Emit(event)
              t == <<Assign(st)>>
  <1>1. t \in Seq(Task) /\ Len(t) = 1 /\ t[1] = Assign(st)
    BY DEF Assign, Task
  <1>2. PICK u \in Nat : Len(e) = u /\ (\A i \in 1 .. u : e[i] = Client) /\ e \in Seq(Task)
    BY EmitIs DEF ClientsThen
  <1>. HIDE DEF e, t
  <1>3. /\ e \o t \in Seq(Task) /\ Len(e \o t) = Len(e) + Len(t)
        /\ \A i \in 1 .. Len(e) + Len(t) :
             (e \o t)[i] = IF i <= Len(e) THEN e[i] ELSE t[i - Len(e)]
    BY <1>1, <1>2, ConcatProperties
  <1>4. ClientsThen(e \o t, u, 1) /\ (e \o t)[u + 1] = Assign(st)
    <2>1. /\ \A i \in 1 .. u : i \in 1 .. Len(e) + Len(t) /\ i <= Len(e)
          /\ u + 1 \in 1 .. Len(e) + Len(t) /\ ~(u + 1 <= Len(e)) /\ (u + 1) - Len(e) = 1
      BY <1>1, <1>2
    <2>. QED  BY <2>1, <1>1, <1>2, <1>3 DEF ClientsThen
  <1>. QED  BY <1>3, <1>4 DEF e, t

-----------------------------------------------------------------------------
(***************************************************************************)
(* What the steps make of a stage of the initialisation.                   *)
(***************************************************************************)

LEMMA SetStateStage ==
  ASSUME OrderInv, NEW a \in Actor, BeginSetState(a), Stage(todo[a])
  PROVE  Stage(todo[a])'
  <1>. DEFINE t == Head(todo[a])
              tasks == IF state = t.to THEN <<>>
                       ELSE Emit(<<"Leave", state>>) \o <<Assign(t.to)>>
  <1>1. /\ todo[a] # <<>> /\ t \in Task /\ t.do = "setState" /\ Becomes(a, tasks)
        /\ UNCHANGED <<state, toInit, ran>> /\ ~At(a, "client")
    BY NextTask, StacksAreTasks DEF BeginSetState, At, inits
  <1>2. t.to \in SimState
    BY <1>1 DEF Task
  <1>3. tasks \in Seq(Task)
    BY <1>2, AssigningIs, EmptySeq
  <1>4. CASE NoInit(todo[a]) /\ ~InitTask(t)
    <2>1. t.to # "Initialising"
      BY <1>1, <1>4 DEF InitTask, Sets
    <2>2. \A i \in DOMAIN tasks : tasks[i] = Client \/ tasks[i] = Assign(t.to)
      <3>1. CASE state = t.to
        BY <3>1
      <3>2. CASE state # t.to
        <4>1. PICK u \in Nat : ClientsThen(tasks, u, 1) /\ tasks[u + 1] = Assign(t.to)
          BY <3>2, <1>2, AssigningIs
        <4>2. DOMAIN tasks = 1 .. u + 1
          BY <4>1, <1>3, LenProperties DEF ClientsThen
        <4>. HIDE DEF tasks
        <4>. QED  BY <4>1, <4>2 DEF ClientsThen
      <3>. QED  BY <3>1, <3>2
    <2>3. ~InitTask(Assign(t.to))
      BY <2>1 DEF InitTask, Sets, Assign
    <2>4. Harmless(t) => Harmless(Assign(t.to))
      BY <1>1 DEF Harmless, Sets, Assign, Client
    <2>5. Foreign(tasks) /\ (Harmless(t) => \A i \in DOMAIN tasks : Harmless(tasks[i]))
      BY <2>2, <2>3, <2>4, ClientIsForeign DEF Foreign
    <2>. HIDE DEF tasks
    <2>. QED  BY <1>1, <1>3, <1>4, <2>5, NoInitGoesOn
  <1>5. CASE Begins(todo[a], 0)
    <2>. DEFINE s == todo[a]
                r == todo'[a]
    <2>1. GivesWay(s, tasks, r)
      BY <1>1, <1>3, BecomesGivesWay
    <2>2. /\ InitPart(s, 0, 3) /\ Fresh /\ t.to = "Initialising"
          /\ s[2].do = "initFor" /\ s[3].do = "clear"
      BY <1>5, StageAt, <1>1 DEF Begins, Sets
    <2>. HIDE DEF s, r
    <2>3. CASE state = t.to
      <3>1. ClientsThen(tasks, 0, 0)
        BY <2>3, EmptySeq DEF ClientsThen
      <3>. HIDE DEF tasks
      <3>2. /\ InitPart(r, 0, 0 + (3 - 1))
            /\ \A i \in 1 .. 3 - 1 : r[(0 + 0) + i] = s[i + 1]
        BY <2>1, <2>2, <3>1, WayShape
      <3>3. Starts(r, 0) /\ r = todo'[a]
        BY <3>2, <2>2, <2>3 DEF Starts, r
      <3>4. Starts(todo[a], 0)'
        BY <3>3, <1>1 DEF Starts, Fresh
      <3>. QED  BY <3>4 DEF Stage
    <2>4. CASE state # t.to
      <3>1. PICK u \in Nat : ClientsThen(tasks, u, 1) /\ tasks[u + 1] = Assign(t.to)
        BY <2>4, <1>2, AssigningIs
      <3>. HIDE DEF tasks
      <3>2. /\ InitPart(r, u, 1 + (3 - 1))
            /\ \A i \in 1 .. u + 1 : r[i] = tasks[i]
            /\ \A i \in 1 .. 3 - 1 : r[(u + 1) + i] = s[i + 1]
        BY <2>1, <2>2, <3>1, WayShape
      <3>3. InitPart(r, u, 3) /\ r[u + 1] = tasks[u + 1] /\ r[u + 2] = s[2] /\ r[u + 3] = s[3]
        BY <3>2
      <3>4. Sets(r[u + 1], "Initialising")
        BY <3>1, <3>3, <2>2 DEF Sets, Assign
      <3>5. Begins(r, u) /\ r = todo'[a]
        BY <3>3, <3>4, <2>2 DEF Begins, r
      <3>6. Begins(todo[a], u)'
        BY <3>5, <1>1 DEF Begins, Fresh
      <3>. QED  BY <3>6 DEF Stage
    <2>. QED  BY <2>3, <2>4
  <1>6. CASE Starts(todo[a], 0) \/ Loops(todo[a], 0) \/ Clears(todo[a], 0)
    BY <1>1, <1>6, StageAt DEF Starts, Loops, Clears
  <1>. QED  BY <1>1, <1>4, <1>5, <1>6, StageAt

LEMMA AssignStage ==
  ASSUME OrderInv, NEW a \in Actor, AssignState(a), Stage(todo[a])
  PROVE  Stage(todo[a])'
  <1>. DEFINE t == Head(todo[a])
              tasks == Emit(<<"Enter", state'>>)
  <1>1. /\ todo[a] # <<>> /\ t \in Task /\ t.do = "assign" /\ Becomes(a, tasks)
        /\ state' = t.to /\ UNCHANGED <<toInit, ran>> /\ ~At(a, "client")
    BY NextTask, StacksAreTasks DEF AssignState, At, inits
  <1>2. PICK u \in Nat : ClientsThen(tasks, u, 0)
    BY EmitIs
  <1>3. tasks \in Seq(Task)
    BY EmitIs
  <1>. HIDE DEF tasks
  <1>4. CASE NoInit(todo[a]) /\ ~InitTask(t)
    <2>1. \A i \in DOMAIN tasks : tasks[i] = Client
      BY <1>2, <1>3, LenProperties DEF ClientsThen
    <2>2. Foreign(tasks) /\ \A i \in DOMAIN tasks : Harmless(tasks[i])
      BY <2>1, IdleIsForeign DEF Idle
    <2>3. Harmless(t) => t.to = "Aborting"
      BY <1>1 DEF Harmless, Sets, Client
    <2>. QED  BY <1>1, <1>3, <1>4, <2>2, <2>3, NoInitGoesOn
  <1>5. CASE Begins(todo[a], 0)
    <2>. DEFINE s == todo[a]
                r == todo'[a]
    <2>1. GivesWay(s, tasks, r)
      BY <1>1, <1>3, BecomesGivesWay
    <2>2. /\ InitPart(s, 0, 3) /\ Fresh /\ t.to = "Initialising"
          /\ s[2].do = "initFor" /\ s[3].do = "clear"
      BY <1>5, StageAt, <1>1 DEF Begins, Sets
    <2>. HIDE DEF s, r
    <2>3. /\ InitPart(r, u, 0 + (3 - 1))
          /\ \A i \in 1 .. 3 - 1 : r[(u + 0) + i] = s[i + 1]
      BY <2>1, <2>2, <1>2, WayShape
    <2>4. InitPart(r, u, 2) /\ r[u + 1].do = "initFor" /\ r[u + 2].do = "clear" /\ r = todo'[a]
      BY <2>2, <2>3 DEF r
    <2>5. Starts(todo[a], u)'
      BY <2>2, <2>4, <1>1 DEF Starts, Fresh
    <2>. QED  BY <2>5 DEF Stage
  <1>6. CASE Starts(todo[a], 0) \/ Loops(todo[a], 0) \/ Clears(todo[a], 0)
    BY <1>1, <1>6, StageAt DEF Starts, Loops, Clears
  <1>. QED  BY <1>1, <1>4, <1>5, <1>6, StageAt

\* The tasks that have nothing to do with the entry points.
LEMMA TreeStage ==
  ASSUME OrderInv, NEW a \in Actor, Stage(todo[a]),
         \/ PublishCycle(a) \/ PublishCompleted(a) \/ BeginFor(a) \/ WalkOn(a)
         \/ WalkEnds(a) \/ BeginPhase(a) \/ EnterPhase(a)
  PROVE  Stage(todo[a])' /\ UNCHANGED <<state, inits, overlap>>
  <1>. DEFINE t == Head(todo[a])
              Strange(tasks) == tasks \in Seq(Task) /\ Foreign(tasks)
  <1>1. /\ todo[a] # <<>> /\ t \in Task
        /\ t.do \in {"cycle", "again", "for", "walk", "phase", "enter"}
        /\ ~At(a, "client")
    BY NextTask, StacksAreTasks
       DEF At, PublishCycle, PublishCompleted, BeginFor, WalkOn, WalkEnds, BeginPhase,
           EnterPhase
  <1>2. /\ NoInit(todo[a]) /\ ~Harmless(t)
    BY <1>1, StageAt DEF Begins, Starts, Loops, Clears, Sets, Harmless, Client
  <1>3. UNCHANGED <<state, inits, overlap>>
    BY DEF PublishCycle, PublishCompleted, BeginFor, WalkOn, WalkEnds, BeginPhase, EnterPhase,
           ProceedWith, counters
  <1>4. ASSUME NEW tasks, Strange(tasks), Becomes(a, tasks)
        PROVE  Stage(todo[a])'
    BY <1>1, <1>2, <1>3, <1>4, NoInitGoesOn DEF inits
  <1>5. Throws(a) => Stage(todo[a])'
    BY <1>3, ThrowsAway DEF inits
  <1>6. Strange(<<>>)
    BY EmptySeq DEF Foreign
  <1>7. ASSUME NEW x \in Task, ~InitTask(x)
        PROVE  Strange(<<x>>)
    BY <1>7 DEF Foreign
  <1>8. ASSUME NEW x \in Task, NEW y \in Task, ~InitTask(x), ~InitTask(y)
        PROVE  Strange(<<x, y>>)
    BY <1>8 DEF Foreign
  <1>9. /\ \A n \in Nat : Again(n) \in Task /\ ~InitTask(Again(n))
        /\ Just("cycle") \in Task /\ ~InitTask(Just("cycle"))
        /\ Client \in Task /\ ~InitTask(Client)
    BY DEF Again, Just, Client, Task, InitTask, Sets
  <1>10. ASSUME NEW ph \in Phase
         PROVE  /\ \A p \in Place : For(ph, p) \in Task /\ ~InitTask(For(ph, p))
                /\ \A c \in Component :
                     /\ DoPhase(ph, c) \in Task /\ ~InitTask(DoPhase(ph, c))
                     /\ Enter(ph, c) \in Task /\ ~InitTask(Enter(ph, c))
                /\ \A p \in Place, i, n \in Nat :
                     Walk(ph, p, i, n) \in Task /\ ~InitTask(Walk(ph, p, i, n))
    BY DEF For, DoPhase, Enter, Walk, Task, InitTask, Sets
  <1>11. \A p \in Place : members[p] \in Seq(Component) /\ Len(members[p]) \in Nat
    BY LenProperties DEF OrderInv, TreeType
  <1>. HIDE DEF Strange
  <1>12. CASE PublishCycle(a)
    <2>1. "Publish" \in Phase /\ "services" \in Place
      BY DEF Phase, Place
    <2>2. Strange(<<For("Publish", "services"), Again(Len(members["services"]))>>)
      BY <2>1, <1>8, <1>9, <1>10, <1>11
    <2>. QED  BY <2>2, <1>12, <1>3, <1>4 DEF PublishCycle
  <1>13. CASE PublishCompleted(a)
    BY <1>13, <1>3, <1>4, <1>6, <1>7, <1>9 DEF PublishCompleted
  <1>14. CASE BeginFor(a) \/ WalkOn(a) \/ WalkEnds(a)
    <2>1. t.ph \in Phase /\ t.in \in Place /\ (t.do = "walk" => t.i \in Nat /\ t.n \in Nat)
      BY <1>1, <1>14 DEF Task, BeginFor, WalkOn, WalkEnds, At
    <2>2. CASE BeginFor(a)
      BY <2>1, <2>2, <1>3, <1>4, <1>7, <1>10, <1>11 DEF BeginFor
    <2>3. CASE WalkOn(a)
      <3>. DEFINE next == Walk(t.ph, t.in, t.i + 1, t.n)
                  c == members[t.in][t.i + 1]
      <3>1. /\ t.do = "walk" /\ t.i < Len(members[t.in])
            /\ Becomes(a, <<next>>) \/ Becomes(a, <<DoPhase(t.ph, c), next>>)
        BY <2>3 DEF WalkOn, At
      <3>2. c \in Component
        BY <2>1, <3>1, <1>11, ElementOfSeq
      <3>3. next \in Task /\ ~InitTask(next)
        BY <2>1, <3>1, <1>10
      <3>4. DoPhase(t.ph, c) \in Task /\ ~InitTask(DoPhase(t.ph, c))
        BY <2>1, <3>2, <1>10
      <3>. HIDE DEF next, c
      <3>. QED  BY <3>1, <3>3, <3>4, <1>3, <1>4, <1>7, <1>8
    <2>4. CASE WalkEnds(a)
      BY <2>4, <1>3, <1>4, <1>6 DEF WalkEnds
    <2>. QED  BY <1>14, <2>2, <2>3, <2>4
  <1>15. CASE BeginPhase(a) \/ EnterPhase(a)
    <2>1. t.ph \in Phase /\ t.c \in Component
      BY <1>1, <1>15 DEF Task, BeginPhase, EnterPhase, At
    <2>2. CASE ProceedWith(a, t.ph, t.c)
      <3>1. t.c \in Place
        BY <2>1 DEF Place
      <3>2. Strange(<<Client, For(t.ph, t.c)>>)
        BY <2>1, <3>1, <1>8, <1>9, <1>10
      <3>. QED  BY <2>2, <3>2, <1>3, <1>4, <1>5 DEF ProceedWith
    <2>3. CASE ~ProceedWith(a, t.ph, t.c)
      <3>. DEFINE previous == IF t.ph = "Connect" THEN "Configure" ELSE "Publish"
      <3>1. Becomes(a, <<DoPhase(previous, t.c), Enter(t.ph, t.c)>>)
        BY <2>3, <1>15 DEF BeginPhase, EnterPhase
      <3>2. previous \in Phase
        BY DEF Phase
      <3>. HIDE DEF previous
      <3>3. Strange(<<DoPhase(previous, t.c), Enter(t.ph, t.c)>>)
        BY <2>1, <3>2, <1>8, <1>10
      <3>. QED  BY <3>1, <3>3, <1>3, <1>4
    <2>. QED  BY <2>2, <2>3
  <1>. QED  BY <1>12, <1>13, <1>14, <1>15

\* The end of Connect: an initialisation begins with entry points that have
\* not been executed, for the state is Standby.
LEMMA AfterConnectStage ==
  ASSUME OrderInv, NEW a \in Actor, Stage(todo[a]), InitialiseAfterConnect(a)
  PROVE  Stage(todo[a])'
  <1>1. /\ todo[a] # <<>> /\ Head(todo[a]).do = "initialise" /\ ~At(a, "client")
        /\ UNCHANGED <<state, toInit, ran>>
    BY DEF InitialiseAfterConnect, At, inits
  <1>2. NoInit(todo[a]) /\ ~Harmless(Head(todo[a]))
    BY <1>1, StageAt DEF Begins, Starts, Loops, Clears, Sets, Harmless, Client
  <1>3. CASE state = "Standby"
    <2>1. Becomes(a, InitialiseTasks)
      BY <1>3 DEF InitialiseAfterConnect
    <2>2. GivesWay(todo[a], InitialiseTasks, todo'[a])
      BY <2>1, <1>1, InitialiseTasksAre, BecomesGivesWay
    <2>3. Fresh /\ Foreign(todo[a])
      BY <1>2, <1>3, <1>1, StageAt DEF NoInit, Closed
    <2>4. /\ InitPart(todo'[a], 0, 3) /\ Sets(todo'[a][1], "Initialising")
          /\ todo'[a][2].do = "initFor" /\ todo'[a][3].do = "clear"
      BY <2>2, <2>3, WayInitialises
    <2>5. Begins(todo[a], 0)'
      BY <2>3, <2>4, <1>1 DEF Begins, Fresh
    <2>. QED  BY <2>5 DEF Stage
  <1>4. CASE state # "Standby"
    <2>1. Becomes(a, <<>>)
      BY <1>4 DEF InitialiseAfterConnect
    <2>2. Foreign(<<>>) /\ <<>> \in Seq(Task)
      BY EmptySeq DEF Foreign
    <2>. QED  BY <1>1, <1>2, <2>1, <2>2, NoInitGoesOn
  <1>. QED  BY <1>3, <1>4

LEMMA BeginInitStage ==
  ASSUME OrderInv, InitType, NEW a \in Actor, Stage(todo[a]), BeginInit(a)
  PROVE  Stage(todo[a])'
  <1>. DEFINE s == todo[a]
              r == todo'[a]
              tasks == <<InitLoop(0, Len(toInit))>>
  <1>1. /\ todo[a] # <<>> /\ Head(todo[a]).do = "initFor" /\ ~At(a, "client")
        /\ Becomes(a, tasks) /\ UNCHANGED <<state, toInit, ran>>
    BY DEF BeginInit, At, inits
  <1>2. Starts(todo[a], 0)
    <2>1. ~NoInit(todo[a]) \/ InitTask(Head(todo[a]))
      BY <1>1 DEF InitTask
    <2>. QED  BY <1>1, <2>1, StageAt DEF Begins, Loops, Clears, Sets
  <1>3. Len(toInit) \in Nat /\ DOMAIN toInit = 1 .. Len(toInit)
    BY LenProperties DEF InitType
  <1>4. /\ tasks \in Seq(Task) /\ ClientsThen(tasks, 0, 1)
        /\ tasks[1].do = "initLoop" /\ tasks[1].n = Len(toInit) /\ tasks[1].i = 0
    BY <1>3 DEF InitLoop, Task, ClientsThen
  <1>. HIDE DEF tasks
  <1>5. GivesWay(s, tasks, r) /\ InitPart(s, 0, 2)
    BY <1>1, <1>2, <1>4, BecomesGivesWay DEF Starts
  <1>. HIDE DEF s, r
  <1>6. /\ InitPart(r, 0, 1 + (2 - 1))
        /\ \A i \in 1 .. 0 + 1 : r[i] = tasks[i]
        /\ \A i \in 1 .. 2 - 1 : r[(0 + 1) + i] = s[i + 1]
    <2>1. PICK u \in Nat : u = 0
      OBVIOUS
    <2>2. ClientsThen(tasks, u, 1)
      BY <2>1, <1>4
    <2>3. /\ InitPart(r, u, 1 + (2 - 1))
          /\ \A i \in 1 .. u + 1 : r[i] = tasks[i]
          /\ \A i \in 1 .. 2 - 1 : r[(u + 1) + i] = s[i + 1]
      BY <2>2, <1>5, WayShape
    <2>. QED  BY <2>1, <2>3
  <1>7. InitPart(r, 0, 2) /\ r[1] = tasks[1] /\ r[2] = s[2]
    BY <1>6
  <1>8. FirstRan(0)
    BY <1>2, <1>3 DEF Starts, Fresh, FirstRan
  <1>9. Loops(r, 0)
    BY <1>2, <1>3, <1>4, <1>7, <1>8 DEF Loops, Starts, s
  <1>10. Loops(todo[a], 0)'
    BY <1>9, <1>1 DEF Loops, FirstRan, r
  <1>. QED  BY <1>10 DEF Stage

LEMMA LoopAt ==
  ASSUME OrderInv, NEW a \in Actor, Stage(todo[a]), At(a, "initLoop")
  PROVE  /\ Loops(todo[a], 0) /\ Head(todo[a]) = todo[a][1]
         /\ Head(todo[a]).i \in Nat /\ Head(todo[a]).n \in Nat
  <1>1. todo[a] # <<>> /\ Head(todo[a]).do = "initLoop" /\ ~At(a, "client")
    BY DEF At
  <1>2. InitTask(Head(todo[a]))
    BY <1>1 DEF InitTask
  <1>3. Head(todo[a]).i \in Nat /\ Head(todo[a]).n \in Nat
    <2>1. Head(todo[a]) \in Task
      BY StacksAreTasks, NextTask
    <2>. QED  BY <2>1, <1>1 DEF Task
  <1>. QED  BY <1>1, <1>2, <1>3, StageAt DEF Begins, Starts, Clears, Sets

LEMMA ExecuteInitStage ==
  ASSUME OrderInv, InitType, InitsAre, NEW a \in Actor, Stage(todo[a]), ExecuteInit(a)
  PROVE  Stage(todo[a])' /\ InitsAre'
  <1>. DEFINE s == todo[a]
              r == todo'[a]
              t == Head(todo[a])
              tasks == <<Client, InitLoop(t.i + 1, t.n)>>
              e == toInit[t.i + 1]
  <1>1. /\ At(a, "initLoop") /\ todo[a] # <<>> /\ Becomes(a, tasks)
        /\ t.i < Len(toInit) /\ ran' = [ran EXCEPT ![e] = @ + 1]
        /\ UNCHANGED <<state, toInit, accepted>>
    BY DEF ExecuteInit, At
  <1>2. Loops(s, 0) /\ t.i \in Nat /\ t.n \in Nat /\ t = s[1]
    BY <1>1, LoopAt
  <1>3. Len(toInit) \in Nat /\ DOMAIN toInit = 1 .. Len(toInit)
        /\ \A j \in DOMAIN toInit : toInit[j] \in EntryPoint
    BY LenProperties, ElementOfSeq DEF InitType
  <1>4. t.i + 1 \in DOMAIN toInit /\ e \in EntryPoint /\ e \in accepted /\ ran[e] = 0
    <2>1. t.i + 1 \in DOMAIN toInit
      BY <1>1, <1>2, <1>3
    <2>2. ran[toInit[t.i + 1]] = 0
      BY <2>1, <1>2, <1>3 DEF Loops, FirstRan
    <2>. QED  BY <2>1, <2>2, <1>3 DEF InitsAre
  <1>5. ran'[e] = 1 /\ \A d \in EntryPoint : d # e => ran'[d] = ran[d]
    BY <1>1, <1>4 DEF InitType
  <1>6. ASSUME NEW j \in DOMAIN toInit
        PROVE  ran'[toInit[j]] = IF j <= t.i + 1 THEN 1 ELSE 0
    <2>1. CASE j = t.i + 1
      BY <2>1, <1>2, <1>5
    <2>2. CASE j # t.i + 1
      <3>1. toInit[j] # e /\ toInit[j] \in EntryPoint
        BY <2>2, <1>3, <1>4 DEF InitsAre
      <3>2. ran'[toInit[j]] = IF j <= t.i THEN 1 ELSE 0
        BY <3>1, <1>2, <1>5 DEF Loops, FirstRan
      <3>3. j <= t.i <=> j <= t.i + 1
        BY <2>2, <1>2, <1>3
      <3>. QED  BY <3>2, <3>3
    <2>. QED  BY <2>1, <2>2
  <1>7. InitsAre'
    <2>1. \A d \in EntryPoint : ran'[d] \in {0, 1} /\ (d \notin accepted => ran'[d] = 0)
      BY <1>4, <1>5 DEF InitsAre
    <2>2. \A d \in accepted : ran'[d] = 1 \/ \E j \in DOMAIN toInit : toInit[j] = d
      BY <1>5 DEF InitsAre, InitType
    <2>. QED  BY <2>1, <2>2, <1>1 DEF InitsAre
  <1>8. /\ tasks \in Seq(Task) /\ ClientsThen(tasks, 1, 1)
        /\ tasks[2].do = "initLoop" /\ tasks[2].n = t.n /\ tasks[2].i = t.i + 1
    BY <1>2 DEF InitLoop, Client, Task, ClientsThen
  <1>. HIDE DEF tasks, e
  <1>9. GivesWay(s, tasks, r) /\ InitPart(s, 0, 2)
    BY <1>1, <1>2, <1>8, BecomesGivesWay DEF Loops
  <1>. HIDE DEF s, r
  <1>10. /\ InitPart(r, 1, 1 + (2 - 1))
         /\ \A i \in 1 .. 1 + 1 : r[i] = tasks[i]
         /\ \A i \in 1 .. 2 - 1 : r[(1 + 1) + i] = s[i + 1]
    BY <1>8, <1>9, WayShape
  <1>11. InitPart(r, 1, 2) /\ r[1 + 1] = tasks[2] /\ r[1 + 2] = s[2]
    BY <1>10
  <1>12. /\ state = "Initialising" /\ s[2].do = "clear" /\ t.n = Len(toInit)
    BY <1>2 DEF Loops
  <1>. HIDE DEF t
  <1>13. Loops(todo[a], 1)'
    <2>1. r = todo'[a]
      BY DEF r
    <2>2. tasks[2].i <= Len(toInit)
      BY <1>1, <1>2, <1>3, <1>8
    <2>. QED  BY <1>1, <1>6, <1>8, <1>11, <1>12, <2>1, <2>2 DEF Loops, FirstRan
  <1>. QED  BY <1>7, <1>13 DEF Stage

LEMMA InitEndsStage ==
  ASSUME OrderInv, InitType, NEW a \in Actor, Stage(todo[a]), InitEnds(a)
  PROVE  Stage(todo[a])'
  <1>. DEFINE s == todo[a]
              r == todo'[a]
              t == Head(todo[a])
  <1>1. /\ At(a, "initLoop") /\ todo[a] # <<>> /\ Becomes(a, <<>>)
        /\ t.i >= t.n \/ t.i >= Len(toInit)
        /\ UNCHANGED <<state, toInit, ran>>
    BY DEF InitEnds, At, inits
  <1>2. Loops(s, 0) /\ t.i \in Nat /\ t.n \in Nat /\ t = s[1]
    BY <1>1, LoopAt
  <1>3. Len(toInit) \in Nat /\ DOMAIN toInit = 1 .. Len(toInit)
    BY LenProperties DEF InitType
  <1>4. AllRan
    <2>1. t.i = Len(toInit)
      BY <1>1, <1>2, <1>3 DEF Loops
    <2>. QED  BY <2>1, <1>2, <1>3 DEF Loops, FirstRan, AllRan
  <1>5. <<>> \in Seq(Task) /\ ClientsThen(<<>>, 0, 0)
    BY EmptySeq DEF ClientsThen
  <1>6. GivesWay(s, <<>>, r) /\ InitPart(s, 0, 2) /\ s[2].do = "clear"
    <2>1. GivesWay(s, <<>>, r)
      BY <1>1, <1>5, BecomesGivesWay
    <2>. QED  BY <2>1, <1>2 DEF Loops
  <1>. HIDE DEF s, r
  <1>7. /\ InitPart(r, 0, 0 + (2 - 1))
        /\ \A i \in 1 .. 2 - 1 : r[(0 + 0) + i] = s[i + 1]
    BY <1>5, <1>6, WayShape
  <1>8. InitPart(r, 0, 1) /\ r[1].do = "clear" /\ r = todo'[a] /\ state = "Initialising"
    BY <1>2, <1>6, <1>7 DEF r, Loops
  <1>9. Clears(todo[a], 0)'
    BY <1>1, <1>4, <1>8 DEF Clears, AllRan
  <1>. QED  BY <1>9 DEF Stage

LEMMA ClearInitStage ==
  ASSUME OrderInv, InitType, InitsAre, NEW a \in Actor, Stage(todo[a]), ClearInit(a)
  PROVE  Stage(todo[a])' /\ InitsAre'
  <1>. DEFINE s == todo[a]
              r == todo'[a]
  <1>1. /\ todo[a] # <<>> /\ Head(todo[a]).do = "clear" /\ ~At(a, "client")
        /\ Becomes(a, <<>>) /\ toInit' = <<>> /\ UNCHANGED <<accepted, ran>>
    BY DEF ClearInit, At
  <1>2. Clears(s, 0)
    <2>1. InitTask(Head(todo[a]))
      BY <1>1 DEF InitTask
    <2>. QED  BY <1>1, <2>1, StageAt DEF Begins, Starts, Loops, Sets
  <1>3. <<>> \in Seq(Task) /\ ClientsThen(<<>>, 0, 0)
    BY EmptySeq DEF ClientsThen
  <1>4. GivesWay(s, <<>>, r) /\ InitPart(s, 0, 1)
    BY <1>1, <1>2, <1>3, BecomesGivesWay DEF Clears
  <1>. HIDE DEF s, r
  <1>5. InitPart(r, 0, 0 + (1 - 1)) /\ r \in Seq(Task)
    <2>1. /\ InitPart(r, 0, 0 + (1 - 1))
          /\ \A i \in 1 .. 1 - 1 : r[(0 + 0) + i] = s[i + 1]
      BY <1>3, <1>4, WayShape
    <2>. QED  BY <2>1, <1>4 DEF GivesWay
  <1>6. Foreign(r)
    BY <1>5, LenProperties DEF InitPart, Foreign
  <1>7. r = todo'[a] /\ Fresh'
    BY <1>1 DEF r, Fresh
  <1>8. InitsAre'
    <2>1. \A e \in accepted : ran[e] = 1
      BY <1>2 DEF InitsAre, Clears, AllRan
    <2>. QED  BY <2>1, <1>1 DEF InitsAre
  <1>. QED  BY <1>6, <1>7, <1>8 DEF Stage, NoInit

-----------------------------------------------------------------------------
(***************************************************************************)
(* The calls, and all steps.                                               *)
(***************************************************************************)

LEMMA StageIsFreshOrClosed ==
  ASSUME NEW s, Stage(s)
  PROVE  Fresh \/ Closed
  BY DEF Stage, NoInit, Begins, Starts, Loops, Clears, Closed

LEMMA ForeignUpon ==
  ASSUME NEW s, NEW tasks, NEW r, Upon(s, tasks, r), Foreign(s), Foreign(tasks)
  PROVE  Foreign(r)
  BY UponOrigin DEF Foreign

LEMMA HarmlessUpon ==
  ASSUME NEW s, NEW tasks, NEW r, Upon(s, tasks, r),
         \A i \in DOMAIN s : Harmless(s[i]), \A i \in DOMAIN tasks : Harmless(tasks[i])
  PROVE  \A i \in DOMAIN r : Harmless(r[i])
  BY UponOrigin, SMTT(40)

\* A call that does not come during another one.
LEMMA AcceptedInTurn ==
  ASSUME OrderInv, Quiet \/ InTurn, NEW a \in Actor, NEW call, NEW tasks \in Seq(Task),
         Accepted(a, call, tasks), ~overlap',
         \/ Foreign(tasks) /\ (Closed => \A i \in DOMAIN tasks : Harmless(tasks[i]))
         \/ tasks = InitialiseTasks /\ ~Closed
  PROVE  InTurn' /\ UNCHANGED <<state, inits>>
  <1>1. UNCHANGED <<state, toInit, accepted, ran>> /\ \A b \in Actor : ~Busy(b)
    BY DEF Accepted, inits
  <1>2. \A b \in Actor : Idle(todo[b])
    BY <1>1 DEF Busy, Idle
  <1>3. Fresh \/ Closed
    BY StageIsFreshOrClosed DEF Quiet, InTurn
  <1>4. /\ Upon(todo[a], tasks, todo'[a])
        /\ \A b \in Actor : b # a => todo'[b] = todo[b]
    BY PushIsUpon DEF Accepted
  <1>5. Foreign(todo[a]) /\ \A i \in DOMAIN todo[a] : Harmless(todo[a][i])
    BY <1>2, IdleIsForeign
  <1>6. Stage(todo[a])'
    <2>. DEFINE s == todo[a]
                r == todo'[a]
    <2>1. Upon(s, tasks, r) /\ Foreign(s) /\ \A i \in DOMAIN s : Harmless(s[i])
      BY <1>4, <1>5
    <2>. HIDE DEF s, r
    <2>2. CASE Foreign(tasks) /\ (Closed => \A i \in DOMAIN tasks : Harmless(tasks[i]))
      <3>1. Foreign(r)
        BY <2>1, <2>2, ForeignUpon
      <3>2. Closed => \A i \in DOMAIN r : Harmless(r[i])
        BY <2>1, <2>2, HarmlessUpon
      <3>3. NoInit(r)
        BY <1>3, <3>1, <3>2 DEF NoInit
      <3>4. NoInit(todo[a])'
        BY <3>3, <1>1 DEF NoInit, Fresh, Closed, r
      <3>. QED  BY <3>4 DEF Stage
    <2>3. CASE tasks = InitialiseTasks /\ ~Closed
      <3>1. /\ InitPart(r, 0, 3) /\ Sets(r[1], "Initialising")
            /\ r[2].do = "initFor" /\ r[3].do = "clear"
        BY <2>1, <2>3, UponInitialises
      <3>2. Begins(r, 0)
        BY <1>3, <2>3, <3>1 DEF Begins
      <3>3. Begins(todo[a], 0)'
        BY <3>2, <1>1 DEF Begins, Fresh, r
      <3>. QED  BY <3>3 DEF Stage
    <2>. QED  BY <2>2, <2>3
  <1>7. \A b \in Actor : b # a => Idle(todo'[b])
    BY <1>2, <1>4
  <1>. QED  BY <1>1, <1>6, <1>7 DEF InTurn, inits

LEMMA CallsInTurn ==
  ASSUME OrderInv, Quiet \/ InTurn, NEW a \in Actor, ~overlap',
         \/ Publish(a) \/ Configure(a) \/ Connect(a) \/ Initialise(a) \/ Run(a)
         \/ Stop(a) \/ Store(a) \/ Restore(a) \/ Reconnect(a) \/ Exit(a) \/ Abort(a)
  PROVE  InTurn' /\ UNCHANGED <<state, inits>>
  <1>. DEFINE Strange(tasks) == tasks \in Seq(Task) /\ Foreign(tasks)
  <1>1. ASSUME NEW x \in Task, ~InitTask(x)
        PROVE  Strange(<<x>>)
    BY <1>1 DEF Foreign
  <1>2. ASSUME NEW x \in Task, NEW y \in Task, ~InitTask(x), ~InitTask(y)
        PROVE  Strange(<<x, y>>)
    BY <1>2 DEF Foreign
  <1>3. ASSUME NEW x, NEW y, Strange(x), Strange(y)
        PROVE  Strange(x \o y)
    <2>1. /\ x \in Seq(Task) /\ y \in Seq(Task) /\ Len(x) \in Nat /\ Len(y) \in Nat
          /\ \A i \in 1 .. Len(x) : ~InitTask(x[i])
          /\ \A i \in 1 .. Len(y) : ~InitTask(y[i])
      BY <1>3, LenProperties DEF Foreign
    <2>2. /\ x \o y \in Seq(Task) /\ Len(x \o y) = Len(x) + Len(y)
          /\ \A i \in 1 .. Len(x) + Len(y) :
               (x \o y)[i] = IF i <= Len(x) THEN x[i] ELSE y[i - Len(x)]
      BY <2>1, ConcatProperties
    <2>3. ASSUME NEW i \in 1 .. Len(x) + Len(y)
          PROVE  ~InitTask((x \o y)[i])
      <3>1. CASE i <= Len(x)
        BY <3>1, <2>1, <2>2
      <3>2. CASE ~(i <= Len(x))
        <4>1. i - Len(x) \in 1 .. Len(y)
          BY <3>2, <2>1
        <4>2. (x \o y)[i] = y[i - Len(x)]
          BY <3>2, <2>2
        <4>. QED  BY <4>1, <4>2, <2>1
      <3>. QED  BY <3>1, <3>2
    <2>4. DOMAIN (x \o y) = 1 .. Len(x) + Len(y)
      BY <2>2, LenProperties
    <2>. QED  BY <2>2, <2>3, <2>4 DEF Foreign
  <1>4. /\ \A ph \in Phase, p \in Place : For(ph, p) \in Task /\ ~InitTask(For(ph, p))
        /\ \A ph \in Phase, c \in Component : DoPhase(ph, c) \in Task /\ ~InitTask(DoPhase(ph, c))
        /\ \A s \in SimState : SetState(s) \in Task /\ (s # "Initialising" => ~InitTask(SetState(s)))
        /\ \A what \in {"cycle", "initialise"} : Just(what) \in Task /\ ~InitTask(Just(what))
        /\ Client \in Task /\ ~InitTask(Client)
    BY DEF For, DoPhase, SetState, Just, Client, Task, InitTask, Sets
  <1>5. {"services", "models"} \subseteq Place /\ Phase = {"Publish", "Configure", "Connect", "Disconnect"}
    BY DEF Place, Phase
  <1>. HIDE DEF Strange
  <1>6. \A ph \in Phase : Strange(ForAll(ph))
    BY <1>2, <1>4, <1>5 DEF ForAll
  <1>7. \A s \in SimState : s # "Initialising" => Strange(<<SetState(s)>>)
    BY <1>1, <1>4
  <1>8. ASSUME NEW call, NEW tasks, Accepted(a, call, tasks), Strange(tasks), ~Closed
        PROVE  InTurn' /\ UNCHANGED <<state, inits>>
    BY <1>8, AcceptedInTurn DEF Strange
  <1>9. CASE Publish(a)
    <2>1. Strange(<<Just("cycle"), For("Publish", "models")>>)
      BY <1>2, <1>4, <1>5
    <2>. QED  BY <1>9, <2>1, <1>8 DEF Publish, Closed
  <1>10. CASE Configure(a)
    BY <1>10, <1>6, <1>8, <1>5 DEF Configure, Closed
  <1>11. CASE Connect(a)
    <2>1. Strange(<<SetState("Connecting")>>) /\ Strange(ForAll("Connect"))
      BY <1>6, <1>7, <1>5 DEF SimState
    <2>2. Strange(<<SetState("Standby"), Just("initialise")>>)
      BY <1>2, <1>4 DEF SimState
    <2>3. Strange(<<SetState("Connecting")>> \o ForAll("Connect"))
      BY <2>1, <1>3
    <2>4. Strange(<<SetState("Connecting")>> \o ForAll("Connect")
                  \o <<SetState("Standby"), Just("initialise")>>)
      BY <2>2, <2>3, <1>3
    <2>. QED  BY <1>11, <2>4, <1>8 DEF Connect, Closed
  <1>12. CASE Initialise(a)
    <2>1. Accepted(a, "Initialise", InitialiseTasks) /\ ~Closed
      BY <1>12 DEF Initialise, Closed
    <2>. QED  BY <2>1, AcceptedInTurn, InitialiseTasksAre
  <1>13. CASE Run(a) \/ Stop(a)
    <2>1. Strange(<<SetState("Executing")>>) /\ Strange(<<SetState("Standby")>>)
      BY <1>7 DEF SimState
    <2>. QED  BY <1>13, <2>1, <1>8 DEF Run, Stop, Closed
  <1>14. CASE Store(a) \/ Restore(a)
    <2>1. ASSUME NEW s \in {"Storing", "Restoring"}
          PROVE  Strange(<<SetState(s), Client, SetState("Standby")>>)
      <3>1. /\ SetState(s) \in Task /\ ~InitTask(SetState(s))
            /\ SetState("Standby") \in Task /\ ~InitTask(SetState("Standby"))
        BY <1>4 DEF SimState
      <3>. QED  BY <3>1, <1>4 DEF Strange, Foreign
    <2>. QED  BY <1>14, <2>1, <1>8 DEF Store, Restore, Closed
  <1>15. CASE Reconnect(a)
    <2>1. PICK c \in Present : Accepted(a, "Reconnect", <<DoPhase("Connect", c)>>)
      BY <1>15 DEF Reconnect
    <2>2. Strange(<<DoPhase("Connect", c)>>)
      BY <1>1, <1>4, <1>5 DEF Present
    <2>. QED  BY <1>15, <2>1, <2>2, <1>8 DEF Reconnect, Closed
  <1>16. CASE Exit(a)
    <2>1. Strange(<<SetState("Exiting")>>) /\ Strange(ForAll("Disconnect"))
      BY <1>6, <1>7, <1>5 DEF SimState
    <2>2. Strange(<<SetState("Exiting")>> \o ForAll("Disconnect"))
      BY <2>1, <1>3
    <2>. QED  BY <1>16, <2>2, <1>8 DEF Exit, Closed
  <1>17. CASE Abort(a)
    <2>1. Strange(<<SetState("Aborting")>>)
      BY <1>7 DEF SimState
    <2>2. \A i \in DOMAIN <<SetState("Aborting")>> : Harmless(<<SetState("Aborting")>>[i])
      BY DEF SetState, Harmless, Sets
    <2>. QED  BY <1>17, <2>1, <2>2, AcceptedInTurn DEF Abort, Strange
  <1>. QED  BY <1>9, <1>10, <1>11, <1>12, <1>13, <1>14, <1>15, <1>16, <1>17

\* An entry point is accepted when no initialisation runs or has been broken
\* off: all that wait are fresh, and so is this one.
LEMMA AddInitInTurn ==
  ASSUME OrderInv, InitType, InitsAre, Quiet \/ InTurn, NEW a \in Actor, AddInitEntryPoint(a)
  PROVE  InitsAre' /\ (Quiet \/ InTurn)'
  <1>1. PICK e \in EntryPoint \ accepted :
          toInit' = Append(toInit, e) /\ accepted' = accepted \union {e}
    BY DEF AddInitEntryPoint
  <1>2. UNCHANGED <<state, todo, ran>> /\ ~Closed
    BY DEF AddInitEntryPoint, Closed
  <1>3. Fresh /\ ran[e] = 0
    BY <1>2, StageIsFreshOrClosed DEF Quiet, InTurn, InitsAre
  <1>4. /\ Len(toInit) \in Nat /\ DOMAIN toInit = 1 .. Len(toInit)
        /\ DOMAIN toInit' = 1 .. Len(toInit) + 1
        /\ \A i \in 1 .. Len(toInit) : toInit'[i] = toInit[i]
        /\ toInit'[Len(toInit) + 1] = e
    <2>1. toInit \in Seq(EntryPoint)
      BY DEF InitType
    <2>2. /\ Append(toInit, e) \in Seq(EntryPoint) /\ Len(Append(toInit, e)) = Len(toInit) + 1
          /\ \A i \in 1 .. Len(toInit) : Append(toInit, e)[i] = toInit[i]
          /\ Append(toInit, e)[Len(toInit) + 1] = e
      BY <2>1, AppendProperties
    <2>. QED  BY <2>1, <2>2, <1>1, LenProperties
  <1>5. Fresh'
    BY <1>2, <1>3, <1>4 DEF Fresh
  <1>6. InitsAre'
    <2>1. ASSUME NEW i \in DOMAIN toInit', NEW j \in DOMAIN toInit', toInit'[i] = toInit'[j]
          PROVE  i = j
      <3>1. \A k \in 1 .. Len(toInit) : toInit[k] # e
        BY <1>4 DEF InitsAre
      <3>. QED  BY <2>1, <3>1, <1>4 DEF InitsAre
    <2>2. \A j \in DOMAIN toInit' : toInit'[j] \in accepted'
      BY <1>1, <1>4 DEF InitsAre
    <2>3. \A d \in EntryPoint : ran'[d] \in {0, 1} /\ (d \notin accepted' => ran'[d] = 0)
      BY <1>1, <1>2 DEF InitsAre
    <2>4. ASSUME NEW d \in accepted'
          PROVE  ran'[d] = 1 \/ \E j \in DOMAIN toInit' : toInit'[j] = d
      <3>1. CASE d = e
        BY <3>1, <1>4
      <3>2. CASE d \in accepted
        <4>1. CASE ran[d] = 1
          BY <4>1, <1>2
        <4>2. CASE ran[d] # 1
          <5>1. PICK j \in DOMAIN toInit : toInit[j] = d
            BY <3>2, <4>2 DEF InitsAre
          <5>2. j \in DOMAIN toInit' /\ toInit'[j] = d
            BY <5>1, <1>4
          <5>. QED  BY <5>2
        <4>. QED  BY <4>1, <4>2
      <3>. QED  BY <3>1, <3>2, <1>1
    <2>. QED  BY <2>1, <2>2, <2>3, <2>4 DEF InitsAre
  <1>7. CASE Quiet
    BY <1>7, <1>2, <1>5, <1>6 DEF Quiet, Idle
  <1>8. ASSUME NEW b \in Actor, Stage(todo[b])
        PROVE  Stage(todo[b])'
    <2>1. CASE NoInit(todo[b])
      BY <2>1, <1>2, <1>5 DEF Stage, NoInit
    <2>2. ASSUME NEW k \in Nat, Begins(todo[b], k)
          PROVE  Stage(todo[b])'
      BY <2>2, <1>2, <1>5 DEF Stage, Begins
    <2>. QED  BY <1>8, <2>1, <2>2, <1>2 DEF Stage, Starts, Loops, Clears, Closed
  <1>9. CASE InTurn
    BY <1>9, <1>8, <1>2, <1>6 DEF InTurn, Idle
  <1>. QED  BY <1>6, <1>7, <1>9

\* Only one stack changes, and the actor that has nothing to do but to
\* return from client code does only that.
LEMMA WorkIsLocal ==
  ASSUME OrderInv, NEW a \in Actor, Work(a)
  PROVE  \A b \in Actor : b # a => todo'[b] = todo[b]
  <1>1. Throws(a) \/ \E tasks : Becomes(a, tasks)
    <2>1. CASE ClientReturns(a) \/ ClientThrows(a) \/ BeginSetState(a) \/ AssignState(a)
               \/ PublishCycle(a) \/ PublishCompleted(a) \/ BeginFor(a)
      BY <2>1 DEF ClientReturns, ClientThrows, BeginSetState, AssignState, PublishCycle,
                  PublishCompleted, BeginFor
    <2>2. CASE WalkOn(a) \/ WalkEnds(a) \/ BeginPhase(a) \/ EnterPhase(a)
      BY <2>2 DEF WalkOn, WalkEnds, BeginPhase, EnterPhase, ProceedWith
    <2>3. CASE InitialiseAfterConnect(a) \/ BeginInit(a) \/ ExecuteInit(a) \/ InitEnds(a)
               \/ ClearInit(a)
      BY <2>3 DEF InitialiseAfterConnect, BeginInit, ExecuteInit, InitEnds, ClearInit
    <2>. QED  BY <2>1, <2>2, <2>3 DEF Work
  <1>. QED  BY <1>1, StacksAreTasks DEF Throws, Becomes

LEMMA IdleWorks ==
  ASSUME OrderInv, NEW a \in Actor, Work(a), Idle(todo[a])
  PROVE  Idle(todo'[a]) /\ UNCHANGED <<state, inits, overlap>>
  <1>1. todo[a] # <<>> => At(a, "client")
    <2>. SUFFICES ASSUME todo[a] # <<>> PROVE At(a, "client")
      OBVIOUS
    <2>1. Head(todo[a]) = todo[a][1] /\ 1 \in DOMAIN todo[a]
      BY StacksAreTasks, LenProperties, EmptySeq
    <2>. QED  BY <2>1 DEF Idle, At, Client
  <1>2. ClientReturns(a) \/ ClientThrows(a)
    BY <1>1 DEF Work, At, ClientReturns, ClientThrows, BeginSetState, AssignState, PublishCycle,
                PublishCompleted, BeginFor, WalkOn, WalkEnds, BeginPhase, EnterPhase,
                InitialiseAfterConnect, BeginInit, ExecuteInit, InitEnds, ClearInit
  <1>3. CASE ClientReturns(a)
    <2>1. GivesWay(todo[a], <<>>, todo'[a])
      BY <1>3, BecomesGivesWay, EmptySeq DEF ClientReturns, At
    <2>2. Idle(todo'[a])
      <3>. DEFINE s == todo[a]
                  r == todo'[a]
      <3>1. GivesWay(s, <<>>, r) /\ Idle(s) /\ Idle(<<>>)
        BY <2>1 DEF Idle
      <3>. HIDE DEF s, r
      <3>2. Idle(r)
        BY <3>1, WayOrigin DEF Idle
      <3>. QED  BY <3>2 DEF r
    <2>. QED  BY <2>2, <1>3 DEF ClientReturns, counters
  <1>4. CASE ClientThrows(a)
    <2>1. todo'[a] = <<>>
      BY <1>4, StacksAreTasks DEF ClientThrows, Throws
    <2>2. Idle(todo'[a])
      BY <2>1 DEF Idle
    <2>. QED  BY <2>2, <1>4 DEF ClientThrows
  <1>. QED  BY <1>2, <1>3, <1>4

LEMMA WorkStage ==
  ASSUME OrderInv, InitType, InitsAre, NEW a \in Actor, Work(a), Stage(todo[a])
  PROVE  Stage(todo[a])' /\ InitsAre' /\ overlap' = overlap
  <1>1. CASE ClientReturns(a)
    BY <1>1, ClientLeaves DEF ClientReturns, inits, counters, InitsAre
  <1>2. CASE ClientThrows(a)
    BY <1>2, ThrowsAway DEF ClientThrows, inits, InitsAre
  <1>3. CASE BeginSetState(a)
    BY <1>3, SetStateStage DEF BeginSetState, inits, counters, InitsAre
  <1>4. CASE AssignState(a)
    BY <1>4, AssignStage DEF AssignState, inits, counters, InitsAre
  <1>5. CASE \/ PublishCycle(a) \/ PublishCompleted(a) \/ BeginFor(a) \/ WalkOn(a)
             \/ WalkEnds(a) \/ BeginPhase(a) \/ EnterPhase(a)
    BY <1>5, TreeStage DEF inits, InitsAre
  <1>6. CASE InitialiseAfterConnect(a)
    BY <1>6, AfterConnectStage DEF InitialiseAfterConnect, inits, counters, InitsAre
  <1>7. CASE BeginInit(a)
    BY <1>7, BeginInitStage DEF BeginInit, inits, counters, InitsAre
  <1>8. CASE ExecuteInit(a)
    BY <1>8, ExecuteInitStage DEF ExecuteInit, counters
  <1>9. CASE InitEnds(a)
    BY <1>9, InitEndsStage DEF InitEnds, inits, counters, InitsAre
  <1>10. CASE ClearInit(a)
    BY <1>10, ClearInitStage DEF ClearInit, counters
  <1>. QED  BY <1>1, <1>2, <1>3, <1>4, <1>5, <1>6, <1>7, <1>8, <1>9, <1>10 DEF Work

LEMMA WorkInTurn ==
  ASSUME OrderInv, InitType, NEW a \in Actor, Work(a), ~overlap',
         ~overlap => InitsAre /\ (Quiet \/ InTurn)
  PROVE  InitsAre' /\ (Quiet \/ InTurn)'
  <1>1. \A b \in Actor : b # a => todo'[b] = todo[b]
    BY WorkIsLocal
  <1>2. overlap' = overlap
    BY DEF Work, ClientReturns, ClientThrows, BeginSetState, AssignState, PublishCycle,
           PublishCompleted, BeginFor, WalkOn, WalkEnds, BeginPhase, EnterPhase, ProceedWith,
           InitialiseAfterConnect, BeginInit, ExecuteInit, InitEnds, ClearInit, counters
  <1>3. InitsAre /\ (Quiet \/ InTurn)
    BY <1>2
  <1>4. CASE Idle(todo[a])
    <2>1. Idle(todo'[a]) /\ UNCHANGED <<state, toInit, accepted, ran>>
      BY <1>4, IdleWorks DEF inits
    <2>2. \A b \in Actor : Idle(todo[b]) => Idle(todo'[b])
      BY <1>1, <2>1
    <2>3. InitsAre' /\ Fresh' = Fresh /\ Closed' = Closed
      BY <1>3, <2>1 DEF InitsAre, Fresh, Closed
    <2>4. CASE Quiet
      BY <2>2, <2>3, <2>4 DEF Quiet
    <2>5. ASSUME NEW b \in Actor, Stage(todo[b]), \A c \in Actor : c # b => Idle(todo[c])
          PROVE  (Quiet \/ InTurn)'
      <3>1. CASE b = a
        <4>1. \A c \in Actor : Idle(todo[c])
          BY <1>4, <2>5, <3>1
        <4>2. Quiet
          BY <4>1, <2>5, StageIsFreshOrClosed DEF Quiet
        <4>. QED  BY <4>2, <2>4
      <3>2. CASE b # a
        <4>1. todo'[b] = todo[b]
          BY <3>2, <1>1
        <4>2. Stage(todo[b])'
          BY <4>1, <2>1, <2>5 DEF Stage, NoInit, Begins, Starts, Loops, Clears, Fresh, Closed,
                                  FirstRan, AllRan
        <4>3. \A c \in Actor : c # b => Idle(todo'[c])
          BY <2>2, <2>5
        <4>. QED  BY <4>2, <4>3 DEF InTurn
      <3>. QED  BY <3>1, <3>2
    <2>. QED  BY <1>3, <2>3, <2>4, <2>5 DEF InTurn
  <1>5. CASE ~Idle(todo[a])
    <2>1. Stage(todo[a]) /\ \A b \in Actor : b # a => Idle(todo[b])
      BY <1>3, <1>5 DEF Quiet, InTurn
    <2>2. Stage(todo[a])' /\ InitsAre'
      BY <2>1, <1>3, WorkStage
    <2>3. \A b \in Actor : b # a => Idle(todo'[b])
      BY <2>1, <1>1
    <2>. QED  BY <2>2, <2>3 DEF InTurn
  <1>. QED  BY <1>4, <1>5

LEMMA InitTypeKept ==
  ASSUME InitType, OrderInv, Next
  PROVE  InitType'
  <1>1. PICK a \in Actor : Call(a) \/ Work(a)
    BY DEF Next
  <1>2. CASE AddInitEntryPoint(a)
    <2>1. PICK e \in EntryPoint \ accepted :
            toInit' = Append(toInit, e) /\ accepted' = accepted \union {e} /\ ran' = ran
      BY <1>2 DEF AddInitEntryPoint
    <2>. QED  BY <2>1, AppendProperties DEF InitType
  <1>3. CASE ExecuteInit(a)
    <2>1. Len(toInit) \in Nat /\ Head(todo[a]).i \in Nat
      <3>1. Head(todo[a]) \in Task /\ Head(todo[a]).do = "initLoop"
        BY <1>3, NextTask, StacksAreTasks DEF ExecuteInit
      <3>. QED  BY <3>1, LenProperties DEF InitType, Task
    <2>2. toInit[Head(todo[a]).i + 1] \in EntryPoint
      BY <2>1, <1>3, ElementOfSeq DEF ExecuteInit, InitType
    <2>. QED  BY <2>2, <1>3 DEF ExecuteInit, InitType
  <1>4. CASE ClearInit(a)
    BY <1>4, EmptySeq DEF ClearInit, InitType
  <1>5. CASE Call(a) /\ ~AddInitEntryPoint(a)
    <2>1. UNCHANGED inits
      BY <1>5 DEF Call, Publish, Configure, Connect, Initialise, Run, Stop, Store, Restore,
                  Reconnect, Exit, Abort, Add, AddConnected, Accepted, inits
    <2>. QED  BY <2>1 DEF inits, InitType
  <1>6. CASE Work(a) /\ ~ExecuteInit(a) /\ ~ClearInit(a)
    <2>1. UNCHANGED inits
      BY <1>6 DEF Work, ClientReturns, ClientThrows, BeginSetState, AssignState, PublishCycle,
                  PublishCompleted, BeginFor, WalkOn, WalkEnds, BeginPhase, EnterPhase,
                  ProceedWith, InitialiseAfterConnect, BeginInit, InitEnds
    <2>. QED  BY <2>1 DEF inits, InitType
  <1>. QED  BY <1>1, <1>2, <1>3, <1>4, <1>5, <1>6

LEMMA InitInvInit == Init => InitInv
  <1>. SUFFICES ASSUME Init PROVE InitInv
    OBVIOUS
  <1>1. toInit = <<>> /\ accepted = {} /\ ran = [e \in EntryPoint |-> 0]
    BY DEF Init
  <1>2. InitType
    BY <1>1, EmptySeq DEF InitType
  <1>3. InitsAre /\ Fresh
    BY <1>1 DEF InitsAre, Fresh
  <1>4. \A a \in Actor : Idle(todo[a])
    BY DEF Init, Idle
  <1>. QED  BY <1>2, <1>3, <1>4 DEF InitInv, Quiet

LEMMA InitInvNext == OrderInv /\ InitInv /\ [Next]_vars => InitInv'
  <1>. SUFFICES ASSUME OrderInv, InitInv, [Next]_vars PROVE InitInv'
    OBVIOUS
  <1>1. ASSUME UNCHANGED <<state, todo, toInit, accepted, ran, overlap>>
        PROVE  InitInv'
    <2>1. InitType'
      BY <1>1 DEF InitInv, InitType
    <2>2. InitsAre' = InitsAre /\ Fresh' = Fresh /\ Closed' = Closed
      BY <1>1 DEF InitsAre, Fresh, Closed
    <2>3. ASSUME NEW a \in Actor, Stage(todo[a])
          PROVE  Stage(todo[a])'
      BY <1>1, <2>3 DEF Stage, NoInit, Begins, Starts, Loops, Clears, Fresh, Closed,
                        FirstRan, AllRan
    <2>4. InTurn => InTurn'
      BY <1>1, <2>3 DEF InTurn, Idle
    <2>5. Quiet => Quiet'
      BY <1>1, <2>2 DEF Quiet, Idle
    <2>. QED  BY <1>1, <2>1, <2>2, <2>4, <2>5 DEF InitInv
  <1>2. CASE UNCHANGED vars
    BY <1>1, <1>2 DEF vars
  <1>3. ASSUME NEW a \in Actor, Call(a)
        PROVE  InitInv'
    <2>1. InitType'
      BY <1>3, InitTypeKept DEF InitInv, Next
    <2>2. CASE Add(a) \/ AddConnected(a)
      BY <1>1, <2>2 DEF Add, AddConnected
    <2>3. CASE AddInitEntryPoint(a)
      BY <2>1, <2>3, AddInitInTurn DEF InitInv, AddInitEntryPoint
    <2>4. CASE \/ Publish(a) \/ Configure(a) \/ Connect(a) \/ Initialise(a) \/ Run(a)
               \/ Stop(a) \/ Store(a) \/ Restore(a) \/ Reconnect(a) \/ Exit(a) \/ Abort(a)
      <3>. SUFFICES ASSUME ~overlap' PROVE InitsAre' /\ InTurn'
        BY <2>1 DEF InitInv
      <3>1. ~overlap
        BY <2>4 DEF Publish, Configure, Connect, Initialise, Run, Stop, Store, Restore,
                    Reconnect, Exit, Abort, Accepted
      <3>2. InTurn' /\ UNCHANGED inits
        BY <2>4, <3>1, CallsInTurn DEF InitInv
      <3>. QED  BY <3>1, <3>2 DEF InitInv, InitsAre, inits
    <2>. QED  BY <1>3, <2>2, <2>3, <2>4 DEF Call
  <1>4. ASSUME NEW a \in Actor, Work(a)
        PROVE  InitInv'
    <2>1. InitType'
      BY <1>4, InitTypeKept DEF InitInv, Next
    <2>. QED  BY <1>4, <2>1, WorkInTurn DEF InitInv
  <1>. QED  BY <1>2, <1>3, <1>4 DEF Next

\* As long as no call that may change the state comes during another one, an
\* entry point that was accepted for initialisation waits or has been
\* executed, and is never executed twice: whoever throws, whatever is added
\* meanwhile, and whether it is Initialise or the end of Connect.
THEOREM InitsRunOnce == Spec => []InitOnce
  <1>1. InitInv => InitOnce
    <2>. SUFFICES ASSUME InitInv, ~overlap, NEW e \in accepted
                  PROVE  (e \in ToSet(toInit) \/ ran[e] = 1) /\ ran[e] <= 1
      BY DEF InitOnce
    <2>1. ran[e] \in {0, 1} /\ (ran[e] = 1 \/ \E j \in DOMAIN toInit : toInit[j] = e)
      BY DEF InitInv, InitsAre, InitType
    <2>. QED  BY <2>1 DEF ToSet
  <1>2. Init => OrderInv /\ InitInv
    BY OrderInit, InitInvInit
  <1>3. OrderInv /\ InitInv /\ [Next]_vars => OrderInv' /\ InitInv'
    BY OrderNext, InitInvNext
  <1>. QED  BY <1>1, <1>2, <1>3, PTL DEF Spec

-----------------------------------------------------------------------------
(***************************************************************************)
(* The tree.                                                               *)
(***************************************************************************)

\* Who is in a container is there once, and is at home there.
WellPlaced ==
  \A p \in Place :
    /\ \A i, j \in DOMAIN members[p] : members[p][i] = members[p][j] => i = j
    /\ \A i \in DOMAIN members[p] : home[members[p][i]] = p
    /\ \A c \in Component : home[c] = p => \E i \in DOMAIN members[p] : members[p][i] = c

HomesArePresent == \A c \in Component : home[c] \in Component => home[home[c]] # None

NoneIsDeleted == \A c \in Component : home[c] # None => comp[c] # "Deleted"

\* Those that can be replaced are services without components of their own.
ReplacedAreLeaves ==
  \A c \in Component : Replaces[c] # None =>
    /\ home[Replaces[c]] \in {None, "services"}
    /\ \A d \in Component : home[d] # Replaces[c]

Acyclic == \A S \in SUBSET Component : S # {} => \E c \in S : home[c] \notin S

\* A component that was there when Connect began was put in one that was.
LateInLate ==
  \A c \in Present \ late : home[c] \in Component => home[c] \notin late

OwnAreServices ==
  /\ own \subseteq late /\ late \subseteq Component
  /\ \A c \in own : home[c] \in {None, "services"} /\ Rank[comp[c]] >= 3

TreeInv ==
  /\ WellPlaced /\ HomesArePresent /\ NoneIsDeleted /\ ReplacedAreLeaves
  /\ Acyclic /\ LateInLate /\ OwnAreServices

\* What RemoveAt leaves.
LEMMA RemovedIs ==
  ASSUME NEW S, NEW s \in Seq(S), NEW k \in 1 .. Len(s)
  PROVE  /\ RemoveAt(s, k) \in Seq(S)
         /\ Len(RemoveAt(s, k)) = Len(s) - 1
         /\ \A i \in 1 .. Len(s) - 1 :
              RemoveAt(s, k)[i] = IF i < k THEN s[i] ELSE s[i + 1]
  <1>. DEFINE l == SubSeq(s, 1, k - 1)
              r == SubSeq(s, k + 1, Len(s))
  <1>1. Len(s) \in Nat /\ \A i \in 1 .. Len(s) : s[i] \in S
    BY LenProperties, ElementOfSeq
  <1>2. /\ l \in Seq(S) /\ Len(l) = k - 1
        /\ \A i \in 1 .. k - 1 : l[i] = s[i]
    BY <1>1, SubSeqProperties
  <1>3. /\ r \in Seq(S) /\ Len(r) = Len(s) - k
        /\ \A i \in 1 .. Len(s) - k : r[i] = s[k + i]
    BY <1>1, SubSeqProperties
  <1>. HIDE DEF l, r
  <1>4. /\ l \o r \in Seq(S) /\ Len(l \o r) = Len(s) - 1
        /\ \A i \in 1 .. Len(s) - 1 : (l \o r)[i] = IF i <= k - 1 THEN l[i] ELSE r[i - (k - 1)]
    BY <1>1, <1>2, <1>3, ConcatProperties
  <1>5. ASSUME NEW i \in 1 .. Len(s) - 1
        PROVE  (l \o r)[i] = IF i < k THEN s[i] ELSE s[i + 1]
    <2>1. CASE i < k
      <3>. i \in 1 .. k - 1
        BY <2>1
      <3>. QED  BY <2>1, <1>2, <1>4
    <2>2. CASE ~(i < k)
      <3>1. i - (k - 1) \in 1 .. Len(s) - k /\ k + (i - (k - 1)) = i + 1
        BY <2>2, <1>1
      <3>2. (l \o r)[i] = r[i - (k - 1)]
        BY <2>2, <1>1, <1>4
      <3>. QED  BY <2>2, <3>1, <3>2, <1>3
    <2>. QED  BY <2>1, <2>2
  <1>. QED  BY <1>4, <1>5 DEF RemoveAt, l, r

\* A component is added at the end of a container: the others stay where they
\* are, unless a service is replaced.
Stays(q) ==
  /\ DOMAIN members[q] \subseteq DOMAIN members'[q]
  /\ \A i \in DOMAIN members[q] : members'[q][i] = members[q][i]

\* c comes into p, and old, if it is one, goes.
Enters(c, p, old) ==
  /\ c \in Component /\ p \in Place /\ home[c] = None /\ comp[c] = "Created"
  /\ old # None => \E d \in Component : Replaces[d] = old
  /\ old # c /\ (old # None => p = "services")
  /\ \A q \in Place : q # p => members'[q] = members[q]
  /\ \A i \in DOMAIN members'[p] : i \notin DOMAIN members[p] => members'[p][i] = c
  /\ \A q \in Place : Stays(q) \/ (q = "services" /\ old # None)
  /\ DOMAIN home' = Component /\ DOMAIN comp' = Component
  /\ home'[c] = p
  /\ \A d \in Component : d # c => home'[d] = IF d = old THEN None ELSE home[d]
  /\ \A d \in Component : d # c => comp'[d] = IF d = old THEN "Deleted" ELSE comp[d]

LEMMA AddEnters ==
  ASSUME OrderInv, TreeInv, NEW a \in Actor, Add(a)
  PROVE  \E c, p, old :
           /\ Enters(c, p, old) /\ WellPlaced' /\ p \in Places[c]
           /\ p \in Component => home[p] # None
           /\ comp'[c] = "Created" /\ own' = own
           /\ late' = IF state = "Building" THEN late ELSE late \union {c}
           /\ old # None => \A b \in Actor : \A i \in DOMAIN todo[b] :
                todo[b][i].do = "walk" => todo[b][i].in # "services"
  <1>1. PICK c \in Component \ Present, p \in Place :
          LET old == IF p = "services" THEN Replaces[c] ELSE None IN
          /\ comp[c] = "Created" /\ p \in Places[c]
          /\ p \in Component => p \in Present
          /\ old # None => \A b \in Actor : \A i \in DOMAIN todo[b] :
                             todo[b][i].do = "walk" => todo[b][i].in # "services"
          /\ members' = [members EXCEPT ![p] =
               Append(IF old \in ToSet(@)
                      THEN RemoveAt(@, CHOOSE i \in DOMAIN @ : @[i] = old) ELSE @, c)]
          /\ home' = [d \in Component |-> IF d = c THEN p
                                          ELSE IF d = old THEN None ELSE home[d]]
          /\ comp' = [d \in Component |-> IF d = old THEN "Deleted" ELSE comp[d]]
          /\ late' = IF state = "Building" THEN late ELSE late \union {c}
    BY DEF Add
  <1>. DEFINE old == IF p = "services" THEN Replaces[c] ELSE None
              s == members[p]
              rest == IF old \in ToSet(s)
                      THEN RemoveAt(s, CHOOSE i \in DOMAIN s : s[i] = old) ELSE s
  <1>2. home[c] = None /\ old # c /\ None \notin Component /\ None \notin Place
    BY ConstantsAssumption DEF Present, Place
  <1>3. old # None => p = "services" /\ Replaces[c] = old /\ old \in Component
    BY <1>2, ConstantsAssumption
  <1>4. s \in Seq(Component) /\ members \in [Place -> Seq(Component)]
    BY DEF OrderInv, TreeType
  <1>5. Len(s) \in Nat /\ DOMAIN s = 1 .. Len(s) /\ \A i \in DOMAIN s : s[i] \in Component
    BY <1>4, LenProperties, ElementOfSeq
  <1>6. /\ \A i, j \in DOMAIN s : s[i] = s[j] => i = j
        /\ \A i \in DOMAIN s : home[s[i]] = p
        /\ \A d \in Component : home[d] = p => \E i \in DOMAIN s : s[i] = d
    BY DEF TreeInv, WellPlaced
  <1>7. /\ rest \in Seq(Component)
        /\ \A i, j \in DOMAIN rest : rest[i] = rest[j] => i = j
        /\ \A i \in DOMAIN rest : rest[i] # old /\ home[rest[i]] = p
        /\ \A d \in Component : home[d] = p /\ d # old => \E i \in DOMAIN rest : rest[i] = d
        /\ old = None => rest = s
        /\ Len(rest) <= Len(s)
    <2>1. CASE old \in ToSet(s)
      <3>. DEFINE k == CHOOSE i \in DOMAIN s : s[i] = old
      <3>1. k \in 1 .. Len(s) /\ s[k] = old
        BY <2>1, <1>5 DEF ToSet
      <3>2. rest = RemoveAt(s, k)
        BY <2>1
      <3>. HIDE DEF k, rest, old, s
      <3>3. /\ rest \in Seq(Component) /\ Len(rest) = Len(s) - 1
            /\ \A i \in 1 .. Len(s) - 1 : rest[i] = IF i < k THEN s[i] ELSE s[i + 1]
        BY <3>1, <3>2, <1>4, RemovedIs
      <3>4. DOMAIN rest = 1 .. Len(s) - 1
        BY <3>3, LenProperties
      <3>5. ASSUME NEW i \in DOMAIN rest
            PROVE  \E m \in DOMAIN s : m # k /\ rest[i] = s[m] /\ m = (IF i < k THEN i ELSE i + 1)
        BY <3>3, <3>4, <1>5, <3>1
      <3>6. ASSUME NEW i \in DOMAIN rest, NEW j \in DOMAIN rest, rest[i] = rest[j]
            PROVE  i = j
        BY <3>5, <3>6, <1>6, <3>4, <1>5, <3>1
      <3>7. ASSUME NEW i \in DOMAIN rest
            PROVE  rest[i] # old /\ home[rest[i]] = p
        BY <3>5, <1>6, <1>5, <3>1
      <3>8. ASSUME NEW d \in Component, home[d] = p, d # old
            PROVE  \E i \in DOMAIN rest : rest[i] = d
        <4>1. PICK m \in DOMAIN s : s[m] = d
          BY <3>8, <1>6
        <4>2. m # k
          BY <4>1, <3>1, <3>8
        <4>3. CASE m < k
          BY <4>1, <4>3, <3>1, <3>3, <3>4, <1>5
        <4>4. CASE m > k
          <5>. m - 1 \in 1 .. Len(s) - 1 /\ ~(m - 1 < k) /\ (m - 1) + 1 = m
            BY <4>4, <3>1, <1>5
          <5>. QED  BY <4>1, <3>3, <3>4
        <4>. QED  BY <4>2, <4>3, <4>4, <3>1, <1>5
      <3>9. old # None
        BY <3>1, <1>2, <1>5
      <3>. QED  BY <3>3, <3>6, <3>7, <3>8, <3>9, <1>5
    <2>2. CASE old \notin ToSet(s)
      <3>1. rest = s
        BY <2>2
      <3>2. \A i \in DOMAIN s : s[i] # old
        BY <2>2 DEF ToSet
      <3>. HIDE DEF rest, old, s
      <3>. QED  BY <3>1, <3>2, <1>4, <1>5, <1>6
    <2>. QED  BY <2>1, <2>2
  <1>. DEFINE new == Append(rest, c)
  <1>8. members' = [members EXCEPT ![p] = new]
    BY <1>1
  <1>9. /\ home' = [d \in Component |-> IF d = c THEN p
                                        ELSE IF d = old THEN None ELSE home[d]]
        /\ comp' = [d \in Component |-> IF d = old THEN "Deleted" ELSE comp[d]]
        /\ old # None => \A b \in Actor : \A i \in DOMAIN todo[b] :
             todo[b][i].do = "walk" => todo[b][i].in # "services"
    BY <1>1
  <1>. HIDE DEF rest, old, s
  <1>10. /\ new \in Seq(Component) /\ Len(new) = Len(rest) + 1 /\ new[Len(rest) + 1] = c
         /\ \A i \in 1 .. Len(rest) : new[i] = rest[i]
    BY <1>7, AppendProperties
  <1>11. Len(rest) \in Nat /\ DOMAIN rest = 1 .. Len(rest) /\ DOMAIN new = 1 .. Len(rest) + 1
    BY <1>7, <1>10, LenProperties
  <1>12. \A i \in DOMAIN rest : rest[i] \in Component
    BY <1>7, <1>11, ElementOfSeq
  <1>. HIDE DEF new
  <1>13. members'[p] = new /\ \A q \in Place : q # p => members'[q] = members[q]
    BY <1>8, <1>4
  <1>14. WellPlaced'
    <2>1. ASSUME NEW q \in Place, q # p
          PROVE  /\ \A i, j \in DOMAIN members'[q] : members'[q][i] = members'[q][j] => i = j
                 /\ \A i \in DOMAIN members'[q] : home'[members'[q][i]] = q
                 /\ \A d \in Component : home'[d] = q => \E i \in DOMAIN members'[q] : members'[q][i] = d
      <3>1. members'[q] = members[q]
        BY <2>1, <1>13
      <3>2. /\ \A i, j \in DOMAIN members[q] : members[q][i] = members[q][j] => i = j
            /\ \A i \in DOMAIN members[q] : home[members[q][i]] = q
            /\ \A d \in Component : home[d] = q => \E i \in DOMAIN members[q] : members[q][i] = d
        BY DEF TreeInv, WellPlaced
      <3>3. ASSUME NEW i \in DOMAIN members[q]
            PROVE  home'[members[q][i]] = q
        <4>1. members[q][i] \in Component
          BY <1>4, LenProperties, ElementOfSeq
        <4>2. members[q][i] # c
          BY <3>2, <1>2
        <4>3. members[q][i] # old
          <5>1. CASE old # None
            <6>1. home[old] \in {None, "services"}
              BY <5>1, <1>3 DEF TreeInv, ReplacedAreLeaves
            <6>. QED  BY <6>1, <5>1, <1>3, <2>1, <3>2, <1>2
          <5>2. CASE old = None
            BY <5>2, <4>1, <1>2
          <5>. QED  BY <5>1, <5>2
        <4>. QED  BY <4>1, <4>2, <4>3, <3>2, <1>9
      <3>4. ASSUME NEW d \in Component, home'[d] = q
            PROVE  home[d] = q
        BY <3>4, <1>9, <1>2, <2>1
      <3>. QED  BY <3>1, <3>2, <3>3, <3>4
    <2>2. \A i, j \in DOMAIN new : new[i] = new[j] => i = j
      <3>1. \A i \in DOMAIN rest : rest[i] # c
        BY <1>7, <1>2
      <3>. QED  BY <3>1, <1>7, <1>10, <1>11
    <2>3. ASSUME NEW i \in DOMAIN new
          PROVE  home'[new[i]] = p
      <3>1. CASE i \in DOMAIN rest
        <4>1. new[i] = rest[i] /\ rest[i] # old /\ home[rest[i]] = p /\ rest[i] \in Component
          BY <3>1, <1>7, <1>10, <1>11, <1>12
        <4>. QED  BY <4>1, <1>9
      <3>2. CASE i \notin DOMAIN rest
        <4>1. new[i] = c
          BY <3>2, <1>10, <1>11
        <4>. QED  BY <4>1, <1>9
      <3>. QED  BY <3>1, <3>2
    <2>4. ASSUME NEW d \in Component, home'[d] = p
          PROVE  \E i \in DOMAIN new : new[i] = d
      <3>1. CASE d = c
        BY <3>1, <1>10, <1>11
      <3>2. CASE d # c
        <4>1. home[d] = p /\ d # old
          BY <3>2, <2>4, <1>9, <1>2
        <4>2. PICK i \in DOMAIN rest : rest[i] = d
          BY <4>1, <1>7
        <4>. QED  BY <4>2, <1>10, <1>11
      <3>. QED  BY <3>1, <3>2
    <2>. QED  BY <2>1, <2>2, <2>3, <2>4, <1>13 DEF WellPlaced
  <1>15. \A i \in DOMAIN members'[p] : i \notin DOMAIN s => members'[p][i] = c
    BY <1>13, <1>10, <1>11, <1>5, <1>7
  <1>16. old = None => Stays(p)
    <2>. HAVE old = None
    <2>1. rest = s
      BY <1>7
    <2>. QED  BY <2>1, <1>13, <1>10, <1>11 DEF Stays, s
  <1>17. \A q \in Place : Stays(q) \/ (q = "services" /\ old # None)
    BY <1>13, <1>16, <1>3 DEF Stays
  <1>18. Enters(c, p, old)
    BY <1>1, <1>2, <1>3, <1>9, <1>13, <1>15, <1>17 DEF Enters, s
  <1>19. comp'[c] = "Created"
    BY <1>1, <1>2, <1>9
  <1>20. own' = own /\ (p \in Component => home[p] # None)
    BY <1>1 DEF Add, Present
  <1>. QED  BY <1>1, <1>9, <1>14, <1>18, <1>19, <1>20

LEMMA AddConnectedEnters ==
  ASSUME OrderInv, TreeInv, NEW a \in Actor, AddConnected(a)
  PROVE  \E c :
           /\ Enters(c, "services", None) /\ WellPlaced' /\ "services" \in Places[c]
           /\ comp'[c] = "Connected"
           /\ own' = own \union {c} /\ late' = late \union {c}
  <1>1. PICK c \in Component \ Present :
          /\ comp[c] = "Created" /\ "services" \in Places[c]
          /\ members' = [members EXCEPT !["services"] = Append(@, c)]
          /\ home' = [home EXCEPT ![c] = "services"]
          /\ comp' = [comp EXCEPT ![c] = "Connected"]
          /\ own' = own \union {c} /\ late' = late \union {c}
    BY DEF AddConnected
  <1>. DEFINE s == members["services"]
              new == Append(s, c)
  <1>2. home[c] = None /\ None \notin Component /\ None \notin Place /\ "services" \in Place
    BY <1>1, ConstantsAssumption DEF Present, Place
  <1>3. s \in Seq(Component) /\ members \in [Place -> Seq(Component)]
        /\ comp \in [Component -> DOMAIN Rank] /\ home \in [Component -> Place \union {None}]
    BY <1>2 DEF OrderInv, TreeType
  <1>4. Len(s) \in Nat /\ DOMAIN s = 1 .. Len(s) /\ \A i \in DOMAIN s : s[i] \in Component
    BY <1>3, LenProperties, ElementOfSeq
  <1>. HIDE DEF s
  <1>5. /\ new \in Seq(Component) /\ Len(new) = Len(s) + 1 /\ new[Len(s) + 1] = c
        /\ \A i \in 1 .. Len(s) : new[i] = s[i]
    BY <1>3, AppendProperties
  <1>6. DOMAIN new = 1 .. Len(s) + 1
    BY <1>5, LenProperties
  <1>7. members'["services"] = new /\ \A q \in Place : q # "services" => members'[q] = members[q]
    BY <1>1, <1>2, <1>3 DEF s
  <1>. HIDE DEF new
  <1>8. /\ home'[c] = "services" /\ comp'[c] = "Connected"
        /\ DOMAIN home' = Component /\ DOMAIN comp' = Component
        /\ \A d \in Component : d # c => home'[d] = home[d] /\ comp'[d] = comp[d]
    BY <1>1, <1>3
  <1>9. \A q \in Place : /\ \A i, j \in DOMAIN members[q] : members[q][i] = members[q][j] => i = j
                         /\ \A i \in DOMAIN members[q] : home[members[q][i]] = q
                         /\ \A d \in Component : home[d] = q => \E i \in DOMAIN members[q] : members[q][i] = d
    BY DEF TreeInv, WellPlaced
  <1>10. \A q \in Place : \A i \in DOMAIN members[q] : members[q][i] \in Component
    BY <1>3, LenProperties, ElementOfSeq
  <1>15. /\ \A i, j \in DOMAIN s : s[i] = s[j] => i = j
         /\ \A i \in DOMAIN s : home[s[i]] = "services"
         /\ \A d \in Component : home[d] = "services" => \E i \in DOMAIN s : s[i] = d
    BY <1>2 DEF TreeInv, WellPlaced, s
  <1>11. WellPlaced'
    <2>1. ASSUME NEW q \in Place, q # "services"
          PROVE  /\ \A i, j \in DOMAIN members'[q] : members'[q][i] = members'[q][j] => i = j
                 /\ \A i \in DOMAIN members'[q] : home'[members'[q][i]] = q
                 /\ \A d \in Component : home'[d] = q => \E i \in DOMAIN members'[q] : members'[q][i] = d
      <3>1. members'[q] = members[q]
        BY <2>1, <1>7
      <3>2. \A i \in DOMAIN members[q] : members[q][i] # c
        BY <1>2, <1>9
      <3>3. \A i \in DOMAIN members[q] : home'[members[q][i]] = q
        BY <3>2, <1>8, <1>9, <1>10
      <3>4. \A d \in Component : home'[d] = q => home[d] = q
        BY <2>1, <1>8
      <3>5. /\ \A i, j \in DOMAIN members[q] : members[q][i] = members[q][j] => i = j
            /\ \A d \in Component : home[d] = q => \E i \in DOMAIN members[q] : members[q][i] = d
        BY DEF TreeInv, WellPlaced
      <3>. QED  BY <3>1, <3>3, <3>4, <3>5
    <2>2. \A i, j \in DOMAIN new : new[i] = new[j] => i = j
      BY <1>2, <1>4, <1>5, <1>6, <1>15
    <2>3. \A i \in DOMAIN new : home'[new[i]] = "services"
      BY <1>2, <1>4, <1>5, <1>6, <1>8, <1>15
    <2>4. \A d \in Component : home'[d] = "services" => \E i \in DOMAIN new : new[i] = d
      <3>. SUFFICES ASSUME NEW d \in Component, home'[d] = "services"
                    PROVE  \E i \in DOMAIN new : new[i] = d
        OBVIOUS
      <3>1. CASE d = c
        BY <3>1, <1>4, <1>5, <1>6
      <3>2. CASE d # c
        <4>1. PICK i \in DOMAIN s : s[i] = d
          <5>1. home[d] = "services"
            BY <3>2, <1>8
          <5>. QED  BY <5>1, <1>15
        <4>. QED  BY <4>1, <1>4, <1>5, <1>6
      <3>. QED  BY <3>1, <3>2
    <2>. QED  BY <2>1, <2>2, <2>3, <2>4, <1>7 DEF WellPlaced
  <1>12. \A q \in Place : Stays(q)
    <2>1. Stays("services")
      BY <1>4, <1>5, <1>6, <1>7 DEF Stays, s
    <2>. QED  BY <2>1, <1>7 DEF Stays
  <1>13. \A i \in DOMAIN members'["services"] : i \notin DOMAIN s => members'["services"][i] = c
    BY <1>4, <1>5, <1>6, <1>7
  <1>14. Enters(c, "services", None)
    BY <1>1, <1>2, <1>7, <1>8, <1>12, <1>13 DEF Enters, s
  <1>. QED  BY <1>1, <1>8, <1>11, <1>14

LEMMA EntersTree ==
  ASSUME TreeInv, NEW c, NEW p, NEW old, Enters(c, p, old), WellPlaced', p \in Places[c],
         p \in Component => home[p] # None,
         comp'[c] \in {"Created", "Connected"},
         late' = late \union {c} \/ (late' = late /\ late = {}),
         \/ own' = own
         \/ own' = own \union {c} /\ c \in late' /\ p = "services" /\ comp'[c] = "Connected"
  PROVE  TreeInv'
  <1>1. /\ c \in Component /\ p \in Place /\ home[c] = None
        /\ old # None => \E d \in Component : Replaces[d] = old
        /\ old # c /\ (old # None => p = "services")
        /\ home'[c] = p
        /\ \A d \in Component : d # c => home'[d] = IF d = old THEN None ELSE home[d]
        /\ \A d \in Component : d # c => comp'[d] = IF d = old THEN "Deleted" ELSE comp[d]
    BY DEF Enters
  <1>2. None \notin Component /\ None \notin Place /\ "services" \notin Component
    BY ConstantsAssumption DEF Place
  <1>3. /\ HomesArePresent /\ NoneIsDeleted /\ ReplacedAreLeaves /\ Acyclic
        /\ LateInLate /\ OwnAreServices
    BY DEF TreeInv
  <1>4. \A d \in Component : home[d] # c
    BY <1>1, <1>2, <1>3 DEF HomesArePresent
  <1>5. \A d \in Component : old # None => home[d] # old
    BY <1>1, <1>3 DEF ReplacedAreLeaves
  <1>6. HomesArePresent'
    BY <1>1, <1>2, <1>3, <1>4, <1>5 DEF HomesArePresent
  <1>7. NoneIsDeleted'
    BY <1>1, <1>3 DEF NoneIsDeleted
  <1>8. ReplacedAreLeaves'
    <2>. SUFFICES ASSUME NEW e \in Component, Replaces[e] # None
                  PROVE  /\ home'[Replaces[e]] \in {None, "services"}
                         /\ \A d \in Component : home'[d] # Replaces[e]
      BY DEF ReplacedAreLeaves
    <2>. DEFINE r == Replaces[e]
    <2>1. r \in Component
      BY ConstantsAssumption
    <2>2. r \notin Places[c] /\ Places[r] \subseteq {"services"}
      BY <1>1, TreeAssumption
    <2>3. home[r] \in {None, "services"} /\ \A d \in Component : home[d] # r
      BY <1>3 DEF ReplacedAreLeaves
    <2>. HIDE DEF r
    <2>4. home'[r] \in {None, "services"}
      BY <2>1, <2>2, <2>3, <1>1
    <2>5. \A d \in Component : home'[d] # r
      BY <2>1, <2>2, <2>3, <1>1, <1>2
    <2>. QED  BY <2>4, <2>5 DEF r
  <1>9. Acyclic'
    <2>. SUFFICES ASSUME NEW S \in SUBSET Component, S # {}
                  PROVE  \E d \in S : home'[d] \notin S
      BY DEF Acyclic
    <2>1. CASE S \ {c} = {}
      <3>1. S = {c}
        BY <2>1
      <3>. QED  BY <3>1, <1>1
    <2>2. CASE S \ {c} # {}
      <3>1. PICK d \in S \ {c} : home[d] \notin S \ {c}
        BY <2>2, <1>3 DEF Acyclic
      <3>. QED  BY <3>1, <1>1, <1>2, <1>4
    <2>. QED  BY <2>1, <2>2
  <1>10. LateInLate'
    BY <1>1, <1>2, <1>3, <1>4, <1>5 DEF LateInLate, Present
  <1>11. OwnAreServices'
    <2>1. own' \subseteq late'
      BY <1>3 DEF OwnAreServices
    <2>2. late' \subseteq Component
      BY <1>1, <1>3 DEF OwnAreServices
    <2>3. ASSUME NEW d \in own'
          PROVE  home'[d] \in {None, "services"} /\ Rank[comp'[d]] >= 3
      <3>1. CASE d = c /\ own' # own
        BY <3>1, <1>1 DEF Rank
      <3>2. CASE d \in own
        <4>1. d # c /\ home[d] \in {None, "services"} /\ Rank[comp[d]] >= 3
          BY <3>2, <1>3 DEF OwnAreServices, Enters, Rank
        <4>. QED  BY <4>1, <1>1, <3>2, <1>3 DEF OwnAreServices, Rank
      <3>. QED  BY <3>1, <3>2
    <2>. QED  BY <2>1, <2>2, <2>3 DEF OwnAreServices
  <1>. QED  BY <1>6, <1>7, <1>8, <1>9, <1>10, <1>11 DEF TreeInv

-----------------------------------------------------------------------------
(***************************************************************************)
(* Sets of tasks that only leave tasks of the set.                         *)
(***************************************************************************)
PhaseTask(t) == t.do \in {"for", "walk", "phase", "enter"}

Begets(X) ==
  /\ X \subseteq Task
  /\ \A t \in X :
       /\ t.do \in {"setState", "assign", "phase", "enter", "initLoop"} => Client \in X
       /\ t.do = "setState" => Assign(t.to) \in X
       /\ t.do = "cycle" => For("Publish", "services") \in X /\ \A n \in Nat : Again(n) \in X
       /\ t.do = "again" => Just("cycle") \in X
       /\ t.do \in {"for", "walk"} => \A i, n \in Nat : Walk(t.ph, t.in, i, n) \in X
       /\ t.do = "walk" => \A c \in Component : DoPhase(t.ph, c) \in X
       /\ t.do \in {"phase", "enter"} => For(t.ph, t.c) \in X
       /\ t.do = "phase" /\ t.ph = "Configure" => DoPhase("Publish", t.c) \in X
       /\ t.do = "phase" /\ t.ph = "Connect" => DoPhase("Configure", t.c) \in X
       /\ t.do = "phase" /\ t.ph \in {"Configure", "Connect"} => Enter(t.ph, t.c) \in X
       /\ t.do = "initialise" => \A i \in 1 .. 4 : InitialiseTasks[i] \in X
       /\ t.do \in {"initFor", "initLoop"} => \A i, n \in Nat : InitLoop(i, n) \in X

LEMMA WorkBecomes ==
  ASSUME OrderInv, InitType, NEW a \in Actor, NEW X, Begets(X), Work(a), Head(todo[a]) \in X
  PROVE  /\ todo[a] # <<>>
         /\ Throws(a) \/ \E tasks \in Seq(X) : Becomes(a, tasks)
  <1>. DEFINE t == Head(todo[a])
  <1>1. t \in X /\ t \in Task /\ X \subseteq Task
    BY DEF Begets
  <1>2. <<>> \in Seq(X) /\ (\A x \in X : <<x>> \in Seq(X)) /\ (\A x, y \in X : <<x, y>> \in Seq(X))
    BY EmptySeq
  <1>3. /\ \A p \in Place : members[p] \in Seq(Component) /\ Len(members[p]) \in Nat
        /\ "services" \in Place /\ Len(toInit) \in Nat
    BY LenProperties DEF OrderInv, TreeType, Place, InitType
  <1>4. \A event : Client \in X => Emit(event) \in Seq(X)
    BY <1>2 DEF Emit
  <1>5. CASE ClientReturns(a) \/ WalkEnds(a) \/ InitEnds(a) \/ ClearInit(a)
    BY <1>5, <1>2 DEF ClientReturns, WalkEnds, InitEnds, ClearInit, At
  <1>6. CASE ClientThrows(a)
    BY <1>6 DEF ClientThrows, At
  <1>7. CASE BeginSetState(a)
    <2>. DEFINE e == Emit(<<"Leave", state>>)
    <2>1. t.do = "setState" /\ Becomes(a, IF state = t.to THEN <<>> ELSE e \o <<Assign(t.to)>>)
          /\ todo[a] # <<>>
      BY <1>7 DEF BeginSetState, At
    <2>2. e \in Seq(X) /\ <<Assign(t.to)>> \in Seq(X)
      BY <1>1, <1>2, <1>4, <2>1 DEF Begets
    <2>. HIDE DEF e
    <2>3. e \o <<Assign(t.to)>> \in Seq(X)
      BY <2>2, ConcatProperties
    <2>. QED  BY <2>1, <2>3, <1>2
  <1>8. CASE AssignState(a)
    <2>1. t.do = "assign" /\ Becomes(a, Emit(<<"Enter", state'>>)) /\ todo[a] # <<>>
      BY <1>8 DEF AssignState, At
    <2>2. Emit(<<"Enter", state'>>) \in Seq(X)
      BY <1>1, <1>4, <2>1 DEF Begets
    <2>. QED  BY <2>1, <2>2
  <1>9. CASE PublishCycle(a) \/ PublishCompleted(a)
    <2>1. CASE PublishCycle(a)
      <3>1. For("Publish", "services") \in X /\ Again(Len(members["services"])) \in X
        BY <1>1, <1>3, <2>1 DEF Begets, PublishCycle, At
      <3>. QED  BY <3>1, <2>1, <1>2 DEF PublishCycle, At
    <2>2. CASE PublishCompleted(a)
      <3>1. Just("cycle") \in X
        BY <1>1, <2>2 DEF Begets, PublishCompleted, At
      <3>. QED  BY <3>1, <2>2, <1>2 DEF PublishCompleted, At
    <2>. QED  BY <1>9, <2>1, <2>2
  <1>10. CASE BeginFor(a) \/ WalkOn(a)
    <2>1. /\ t.do \in {"for", "walk"} /\ todo[a] # <<>> /\ t.in \in Place
          /\ t.do = "walk" => t.i \in Nat /\ t.n \in Nat
      BY <1>1, <1>10 DEF BeginFor, WalkOn, At, Task
    <2>2. \A i, n \in Nat : Walk(t.ph, t.in, i, n) \in X
      BY <1>1, <2>1 DEF Begets
    <2>3. CASE BeginFor(a)
      BY <2>1, <2>2, <2>3, <1>2, <1>3 DEF BeginFor
    <2>4. CASE WalkOn(a)
      <3>. DEFINE next == Walk(t.ph, t.in, t.i + 1, t.n)
                  c == members[t.in][t.i + 1]
      <3>1. /\ t.do = "walk" /\ t.i < Len(members[t.in])
            /\ Becomes(a, <<next>>) \/ Becomes(a, <<DoPhase(t.ph, c), next>>)
        BY <2>4 DEF WalkOn, At
      <3>2. c \in Component
        BY <2>1, <3>1, <1>3, ElementOfSeq
      <3>3. next \in X /\ DoPhase(t.ph, c) \in X
        BY <1>1, <2>1, <2>2, <3>1, <3>2 DEF Begets
      <3>. HIDE DEF next, c
      <3>. QED  BY <2>1, <3>1, <3>3, <1>2
    <2>. QED  BY <1>10, <2>3, <2>4
  <1>11. CASE BeginPhase(a) \/ EnterPhase(a)
    <2>1. t.do \in {"phase", "enter"} /\ todo[a] # <<>>
      BY <1>11 DEF BeginPhase, EnterPhase, At
    <2>2. CASE ProceedWith(a, t.ph, t.c)
      <3>1. <<Client, For(t.ph, t.c)>> \in Seq(X)
        BY <1>1, <1>2, <2>1 DEF Begets
      <3>. QED  BY <2>1, <2>2, <3>1 DEF ProceedWith
    <2>3. CASE BeginPhase(a) /\ Behind(t.ph, t.c)
      <3>. DEFINE previous == IF t.ph = "Connect" THEN "Configure" ELSE "Publish"
      <3>1. Becomes(a, <<DoPhase(previous, t.c), Enter(t.ph, t.c)>>) /\ t.do = "phase"
        BY <2>3 DEF BeginPhase, At
      <3>2. DoPhase(previous, t.c) \in X /\ Enter(t.ph, t.c) \in X
        BY <1>1, <2>3, <3>1 DEF Begets, Behind
      <3>. HIDE DEF previous
      <3>. QED  BY <2>1, <3>1, <3>2, <1>2
    <2>. QED  BY <1>11, <2>2, <2>3 DEF BeginPhase, EnterPhase
  <1>12. CASE InitialiseAfterConnect(a)
    <2>1. InitialiseTasks \in Seq(X)
      <3>1. InitialiseTasks \in [1 .. 4 -> X]
        <4>1. \A i \in 1 .. 4 : InitialiseTasks[i] \in X
          BY <1>1, <1>12 DEF Begets, InitialiseAfterConnect, At
        <4>. QED  BY <4>1 DEF InitialiseTasks
      <3>. QED  BY <3>1, SeqDef
    <2>. QED  BY <1>12, <2>1, <1>2 DEF InitialiseAfterConnect, At
  <1>13. CASE BeginInit(a)
    <2>1. InitLoop(0, Len(toInit)) \in X
      BY <1>1, <1>3, <1>13 DEF Begets, BeginInit, At
    <2>. QED  BY <1>13, <2>1, <1>2 DEF BeginInit, At
  <1>14. CASE ExecuteInit(a)
    <2>1. t.do = "initLoop" /\ t.i \in Nat /\ t.n \in Nat
      BY <1>1, <1>14 DEF ExecuteInit, At, Task
    <2>2. InitLoop(t.i + 1, t.n) \in X /\ Client \in X
      BY <1>1, <2>1 DEF Begets
    <2>. QED  BY <1>14, <2>2, <1>2 DEF ExecuteInit, At
  <1>. QED  BY <1>5, <1>6, <1>7, <1>8, <1>9, <1>10, <1>11, <1>12, <1>13, <1>14 DEF Work

LEMMA WorkIn ==
  ASSUME OrderInv, InitType, NEW a \in Actor, NEW X, Begets(X), Work(a), todo[a] \in Seq(X)
  PROVE  todo'[a] \in Seq(X)
  <1>1. todo[a] # <<>>
    BY DEF Work, ClientReturns, ClientThrows, BeginSetState, AssignState, PublishCycle,
           PublishCompleted, BeginFor, WalkOn, WalkEnds, BeginPhase, EnterPhase,
           InitialiseAfterConnect, BeginInit, ExecuteInit, InitEnds, ClearInit, At
  <1>2. Head(todo[a]) \in X /\ Tail(todo[a]) \in Seq(X)
    BY <1>1, HeadTailProperties
  <1>3. DOMAIN todo = Actor
    BY DEF OrderInv
  <1>4. CASE Throws(a)
    BY <1>3, <1>4, EmptySeq DEF Throws
  <1>5. ASSUME NEW tasks \in Seq(X), Becomes(a, tasks)
        PROVE  todo'[a] \in Seq(X)
    <2>1. todo'[a] = tasks \o Tail(todo[a])
      BY <1>3, <1>5 DEF Becomes
    <2>. QED  BY <2>1, <1>2, ConcatProperties
  <1>. QED  BY <1>2, <1>4, <1>5, WorkBecomes

\* The calls, by what they put upon the stack, and in which state they are accepted.
CallIs(a, st, tasks) ==
  \/ st = {"Building"} /\ Publish(a) /\ tasks = <<Just("cycle"), For("Publish", "models")>>
  \/ st = {"Building"} /\ Configure(a) /\ tasks = ForAll("Configure")
  \/ /\ st = {"Building"} /\ Connect(a)
     /\ tasks = <<SetState("Connecting"), For("Connect", "services"), For("Connect", "models"),
                  SetState("Standby"), Just("initialise")>>
  \/ st = {"Standby"} /\ Initialise(a) /\ tasks = InitialiseTasks
  \/ st = {"Standby"} /\ Run(a) /\ tasks = <<SetState("Executing")>>
  \/ st = {"Executing"} /\ Stop(a) /\ tasks = <<SetState("Standby")>>
  \/ st = {"Standby"} /\ Store(a) /\ tasks = <<SetState("Storing"), Client, SetState("Standby")>>
  \/ st = {"Standby"} /\ Restore(a) /\ tasks = <<SetState("Restoring"), Client, SetState("Standby")>>
  \/ /\ st = {"Standby"} /\ Reconnect(a)
     /\ \E c \in Present : tasks = <<DoPhase("Connect", c)>>
  \/ /\ st = {"Standby"} /\ Exit(a)
     /\ tasks = <<SetState("Exiting"), For("Disconnect", "services"), For("Disconnect", "models")>>
  \/ st = SimState /\ Abort(a) /\ tasks = <<SetState("Aborting")>>

\* Everything but additions.
Tells(a) ==
  \/ Publish(a) \/ Configure(a) \/ Connect(a) \/ Initialise(a) \/ Run(a)
  \/ Stop(a) \/ Store(a) \/ Restore(a) \/ Reconnect(a) \/ Exit(a) \/ Abort(a)

\* Sequences that are put together.
LEMMA OneAndTwo ==
  ASSUME NEW x, NEW y, NEW z
  PROVE  <<x>> \o <<y, z>> = <<x, y, z>>
  <1>. DEFINE S == {x, y, z}
              l == <<x>> \o <<y, z>>
  <1>1. <<x>> \in Seq(S) /\ <<y, z>> \in Seq(S) /\ Len(<<x>>) = 1 /\ Len(<<y, z>>) = 2
    OBVIOUS
  <1>2. /\ l \in Seq(S) /\ Len(l) = 3
        /\ \A i \in 1 .. 3 : l[i] = IF i <= 1 THEN <<x>>[i] ELSE <<y, z>>[i - 1]
    BY <1>1, ConcatProperties
  <1>3. l[1] = x /\ l[2] = y /\ l[3] = z
    BY <1>2
  <1>4. <<x, y, z>> \in Seq(S) /\ Len(<<x, y, z>>) = 3
    OBVIOUS
  <1>. HIDE DEF l
  <1>5. l = <<x, y, z>>
    BY <1>2, <1>3, <1>4, SeqEqual
  <1>. QED  BY <1>5 DEF l

LEMMA ThreeAndTwo ==
  ASSUME NEW x, NEW y, NEW z, NEW v, NEW w
  PROVE  <<x, y, z>> \o <<v, w>> = <<x, y, z, v, w>>
  <1>. DEFINE S == {x, y, z, v, w}
              l == <<x, y, z>> \o <<v, w>>
  <1>1. /\ <<x, y, z>> \in Seq(S) /\ <<v, w>> \in Seq(S)
        /\ Len(<<x, y, z>>) = 3 /\ Len(<<v, w>>) = 2
    OBVIOUS
  <1>2. /\ l \in Seq(S) /\ Len(l) = 5
        /\ \A i \in 1 .. 5 : l[i] = IF i <= 3 THEN <<x, y, z>>[i] ELSE <<v, w>>[i - 3]
    BY <1>1, ConcatProperties
  <1>3. l[1] = x /\ l[2] = y /\ l[3] = z /\ l[4] = v /\ l[5] = w
    BY <1>2
  <1>4. <<x, y, z, v, w>> \in Seq(S) /\ Len(<<x, y, z, v, w>>) = 5
    OBVIOUS
  <1>. HIDE DEF l
  <1>5. l = <<x, y, z, v, w>>
    BY <1>2, <1>3, <1>4, SeqEqual
  <1>. QED  BY <1>5 DEF l

LEMMA TellsIs ==
  ASSUME NEW a \in Actor, Tells(a)
  PROVE  \E call, st, tasks : Accepted(a, call, tasks) /\ CallIs(a, st, tasks)
                              /\ (state \in st \/ st = SimState)
  <1>1. ForAll("Connect") = <<For("Connect", "services"), For("Connect", "models")>>
        /\ ForAll("Disconnect") = <<For("Disconnect", "services"), For("Disconnect", "models")>>
    BY DEF ForAll
  <1>2. CASE Connect(a)
    <2>1. <<SetState("Connecting")>> \o ForAll("Connect") \o <<SetState("Standby"), Just("initialise")>>
          = <<SetState("Connecting"), For("Connect", "services"), For("Connect", "models"),
              SetState("Standby"), Just("initialise")>>
      <3>1. <<SetState("Connecting")>> \o ForAll("Connect")
            = <<SetState("Connecting"), For("Connect", "services"), For("Connect", "models")>>
        BY <1>1, OneAndTwo
      <3>2. <<SetState("Connecting"), For("Connect", "services"), For("Connect", "models")>>
              \o <<SetState("Standby"), Just("initialise")>>
            = <<SetState("Connecting"), For("Connect", "services"), For("Connect", "models"),
                SetState("Standby"), Just("initialise")>>
        BY ThreeAndTwo
      <3>. QED  BY <3>1, <3>2
    <2>. QED  BY <1>2, <2>1 DEF Connect, CallIs
  <1>3. CASE Exit(a)
    <2>1. <<SetState("Exiting")>> \o ForAll("Disconnect")
          = <<SetState("Exiting"), For("Disconnect", "services"), For("Disconnect", "models")>>
      BY <1>1, OneAndTwo
    <2>. QED  BY <1>3, <2>1 DEF Exit, CallIs
  <1>4. CASE Reconnect(a)
    BY <1>4 DEF Reconnect, CallIs
  <1>5. CASE Publish(a) \/ Configure(a) \/ Initialise(a)
    BY <1>5 DEF Publish, Configure, Initialise, CallIs
  <1>6. CASE Run(a) \/ Stop(a) \/ Abort(a)
    BY <1>6 DEF Run, Stop, Abort, CallIs
  <1>7. CASE Store(a) \/ Restore(a)
    BY <1>7 DEF Store, Restore, CallIs
  <1>. QED  BY <1>2, <1>3, <1>4, <1>5, <1>6, <1>7 DEF Tells

\* The tasks that do not go to the states S, and phases of P only.
Tasks(S, P) == {t \in Task : (\A s \in S : ~Sets(t, s)) /\ (PhaseTask(t) => t.ph \in P)}

LEMMA TasksBeget ==
  ASSUME NEW S, "Initialising" \notin S, "Standby" \notin S, NEW P \in {Phase, Assembling}
  PROVE  Begets(Tasks(S, P))
  <1>. DEFINE X == Tasks(S, P)
  <1>0. P \subseteq Phase /\ {"Publish", "Configure", "Connect"} \subseteq P
    BY DEF Phase, Assembling
  <1>1. X \subseteq Task
    BY DEF Tasks
  <1>2. \A t \in Task : t.do \notin {"setState", "assign"} /\ ~PhaseTask(t) => t \in X
    BY DEF Tasks, Sets
  <1>3. ASSUME NEW t \in Task, PhaseTask(t), t.ph \in P
        PROVE  t \in X
    BY <1>3 DEF Tasks, Sets, PhaseTask
  <1>4. Client \in X /\ Just("cycle") \in X
        /\ \A i, n \in Nat : Again(n) \in X /\ InitLoop(i, n) \in X
    <2>1. /\ Client \in Task /\ Just("cycle") \in Task
          /\ \A i, n \in Nat : Again(n) \in Task /\ InitLoop(i, n) \in Task
      BY DEF Client, Just, Again, InitLoop, Task
    <2>2. \A i, n \in Nat : \A t \in {Client, Just("cycle"), Again(n), InitLoop(i, n)} :
            t.do \notin {"setState", "assign"} /\ ~PhaseTask(t)
      BY DEF Client, Just, Again, InitLoop, PhaseTask
    <2>. QED  BY <2>1, <2>2, <1>2
  <1>5. \A ph \in P :
          /\ \A p \in Place : For(ph, p) \in X /\ \A i, n \in Nat : Walk(ph, p, i, n) \in X
          /\ \A c \in Component : DoPhase(ph, c) \in X /\ Enter(ph, c) \in X
    <2>. SUFFICES ASSUME NEW ph \in P
                  PROVE  /\ \A p \in Place : For(ph, p) \in X /\ \A i, n \in Nat : Walk(ph, p, i, n) \in X
                         /\ \A c \in Component : DoPhase(ph, c) \in X /\ Enter(ph, c) \in X
      OBVIOUS
    <2>1. ph \in Phase
      BY <1>0
    <2>2. \A p \in Place : For(ph, p) \in X
      <3>. TAKE p \in Place
      <3>1. For(ph, p) \in Task /\ PhaseTask(For(ph, p)) /\ For(ph, p).ph = ph
        BY <2>1 DEF For, Task, PhaseTask
      <3>. QED  BY <3>1, <1>3
    <2>3. \A p \in Place, i, n \in Nat : Walk(ph, p, i, n) \in X
      <3>. TAKE p \in Place, i, n \in Nat
      <3>1. Walk(ph, p, i, n) \in Task /\ PhaseTask(Walk(ph, p, i, n)) /\ Walk(ph, p, i, n).ph = ph
        BY <2>1 DEF Walk, Task, PhaseTask
      <3>. QED  BY <3>1, <1>3
    <2>4. \A c \in Component : DoPhase(ph, c) \in X /\ Enter(ph, c) \in X
      <3>. TAKE c \in Component
      <3>1. /\ DoPhase(ph, c) \in Task /\ PhaseTask(DoPhase(ph, c)) /\ DoPhase(ph, c).ph = ph
            /\ Enter(ph, c) \in Task /\ PhaseTask(Enter(ph, c)) /\ Enter(ph, c).ph = ph
        BY <2>1 DEF DoPhase, Enter, Task, PhaseTask
      <3>. QED  BY <3>1, <1>3
    <2>. QED  BY <2>2, <2>3, <2>4
  <1>6. \A i \in 1 .. 4 : InitialiseTasks[i] \in X
    <2>1. \A s \in SimState : SetState(s) \in Task /\ (s \notin S => SetState(s) \in X)
      BY DEF SetState, Task, Tasks, Sets, PhaseTask
    <2>2. Just("initFor") \in X /\ Just("clear") \in X
      BY <1>2 DEF Just, Task, PhaseTask
    <2>. QED  BY <2>1, <2>2 DEF InitialiseTasks, SimState
  <1>7. ASSUME NEW t \in X, t.do = "setState"
        PROVE  Assign(t.to) \in X
    BY <1>7 DEF Tasks, Assign, Task, Sets, PhaseTask
  <1>8. ASSUME NEW t \in X
        PROVE  /\ t.do \in {"for", "walk"} => t.ph \in P /\ t.in \in Place
               /\ t.do \in {"phase", "enter"} => t.ph \in P /\ t.c \in Component /\ t.c \in Place
    BY DEF Tasks, Task, PhaseTask, Place
  <1>9. "services" \in Place
    BY DEF Place
  <1>. HIDE DEF X
  <1>. QED  BY <1>0, <1>1, <1>4, <1>5, <1>6, <1>7, <1>8, <1>9 DEF Begets, X

\* The tasks of the calls are tasks.
LEMMA CallIsTasks ==
  ASSUME NEW a, NEW st, NEW tasks, CallIs(a, st, tasks)
  PROVE  /\ tasks \in Seq(Task)
         /\ \A i \in DOMAIN tasks :
              /\ ~Sets(tasks[i], "Building")
              /\ Sets(tasks[i], "Connecting") => Connect(a)
              /\ Sets(tasks[i], "Exiting") => Exit(a)
              /\ PhaseTask(tasks[i]) /\ tasks[i].ph = "Disconnect" => Exit(a)
  <1>. DEFINE Good(t) == /\ t \in Task /\ ~Sets(t, "Building")
                         /\ Sets(t, "Connecting") => Connect(a)
                         /\ Sets(t, "Exiting") => Exit(a)
                         /\ PhaseTask(t) /\ t.ph = "Disconnect" => Exit(a)
              Goods(s) == s \in Seq(Task) /\ \A i \in DOMAIN s : Good(s[i])
  <1>1. /\ Good(Client)
        /\ \A what \in {"cycle", "initialise", "initFor", "clear"} : Good(Just(what))
    BY DEF Client, Just, Task, Sets, PhaseTask
  <1>2. \A s \in SimState : s \notin {"Building", "Connecting", "Exiting"} => Good(SetState(s))
    BY DEF SetState, Task, Sets, PhaseTask
  <1>3. Connect(a) => Good(SetState("Connecting"))
    BY DEF SetState, Task, Sets, PhaseTask, SimState
  <1>4. Exit(a) => Good(SetState("Exiting"))
    BY DEF SetState, Task, Sets, PhaseTask, SimState
  <1>5. \A ph \in Phase, p \in {"services", "models"} :
          ph # "Disconnect" \/ Exit(a) => Good(For(ph, p))
    BY DEF For, Task, Sets, PhaseTask, Place
  <1>6. \A c \in Present : Good(DoPhase("Connect", c))
    BY DEF DoPhase, Task, Sets, PhaseTask, Present, Phase
  <1>7. ASSUME NEW x, Good(x)
        PROVE  Goods(<<x>>)
    BY <1>7
  <1>8. ASSUME NEW x, NEW y, Good(x), Good(y)
        PROVE  Goods(<<x, y>>)
    BY <1>8
  <1>9. ASSUME NEW x, NEW y, NEW z, Good(x), Good(y), Good(z)
        PROVE  Goods(<<x, y, z>>)
    BY <1>9
  <1>10. ASSUME NEW x, NEW y, NEW z, NEW v, Good(x), Good(y), Good(z), Good(v)
         PROVE  Goods(<<x, y, z, v>>)
    BY <1>10
  <1>11. ASSUME NEW x, NEW y, NEW z, NEW v, NEW w, Good(x), Good(y), Good(z), Good(v), Good(w)
         PROVE  Goods(<<x, y, z, v, w>>)
    BY <1>11
  <1>12. Phase = {"Publish", "Configure", "Connect", "Disconnect"}
         /\ SimState = {"Building", "Connecting", "Initialising", "Standby", "Executing",
                        "Storing", "Restoring", "Exiting", "Aborting"}
    BY DEF Phase, SimState
  <1>. SUFFICES Goods(tasks)
    OBVIOUS
  <1>. HIDE DEF Good, Goods
  <1>13. CASE st = {"Building"}
    BY <1>13, <1>1, <1>2, <1>3, <1>5, <1>8, <1>11, <1>12 DEF CallIs, ForAll
  <1>14. CASE tasks = InitialiseTasks
    BY <1>14, <1>1, <1>2, <1>10, <1>12 DEF InitialiseTasks
  <1>15. CASE st # {"Building"} /\ tasks # InitialiseTasks
    BY <1>15, <1>1, <1>2, <1>4, <1>5, <1>6, <1>7, <1>9, <1>12 DEF CallIs
  <1>. QED  BY <1>13, <1>14, <1>15

-----------------------------------------------------------------------------
(***************************************************************************)
(* The tree through the steps; Building is never entered again.            *)
(***************************************************************************)
Onward ==
  /\ state = "Building" => late = {}
  /\ todo \in [Actor -> Seq(Tasks({"Building"}, Phase))]

\* c goes through phase ph.
Advances(c, ph) ==
  /\ c \in Component /\ ph \in Phase /\ comp[c] = Before[ph]
  /\ comp' = [comp EXCEPT ![c] = After[ph]]
  /\ UNCHANGED <<members, home, late, own>>

LEMMA WorkOnTree ==
  ASSUME OrderInv, NEW a \in Actor, Work(a)
  PROVE  \/ UNCHANGED tree
         \/ LET t == Head(todo[a]) IN
            /\ Advances(t.c, t.ph)
            /\ At(a, "phase") \/ At(a, "enter")
            /\ Becomes(a, <<Client, For(t.ph, t.c)>>)
            /\ UNCHANGED <<state, inits, counters>>
  <1>. DEFINE t == Head(todo[a])
  <1>1. CASE (BeginPhase(a) \/ EnterPhase(a)) /\ ProceedWith(a, t.ph, t.c)
    <2>1. At(a, "phase") \/ At(a, "enter")
      BY <1>1 DEF BeginPhase, EnterPhase
    <2>2. t.c \in Component /\ t.ph \in Phase
      <3>1. t \in Task /\ t.do \in {"phase", "enter"}
        BY <2>1, NextTask, StacksAreTasks
      <3>. QED  BY <3>1 DEF Task
    <2>. QED  BY <1>1, <2>1, <2>2 DEF ProceedWith, Advances, tree
  <1>2. CASE (BeginPhase(a) \/ EnterPhase(a)) /\ ~ProceedWith(a, t.ph, t.c)
    BY <1>2 DEF BeginPhase, EnterPhase
  <1>3. CASE ~BeginPhase(a) /\ ~EnterPhase(a)
    BY <1>3 DEF Work, ClientReturns, ClientThrows, BeginSetState, AssignState,
                PublishCycle, PublishCompleted, BeginFor, WalkOn, WalkEnds,
                InitialiseAfterConnect, BeginInit, ExecuteInit, InitEnds, ClearInit
  <1>. QED  BY <1>1, <1>2, <1>3

LEMMA AdvancesTree ==
  ASSUME OrderInv, TreeInv, NEW c, NEW ph, Advances(c, ph)
  PROVE  TreeInv' /\ \A d \in Component : d # c => comp'[d] = comp[d]
  <1>1. /\ comp'[c] = After[ph] /\ \A d \in Component : d # c => comp'[d] = comp[d]
    BY DEF Advances, OrderInv, TreeType
  <1>2. After[ph] # "Deleted" /\ Rank[After[ph]] >= Rank[comp[c]]
    BY DEF Advances, Phase, Before, After, Rank
  <1>3. /\ UNCHANGED <<members, home, late, own>> /\ c \in Component
    BY DEF Advances
  <1>4. NoneIsDeleted'
    BY <1>1, <1>2, <1>3 DEF TreeInv, NoneIsDeleted
  <1>5. OwnAreServices'
    <2>1. \A d \in own : Rank[comp'[d]] >= 3
      <3>. SUFFICES ASSUME NEW d \in own PROVE Rank[comp'[d]] >= 3
        OBVIOUS
      <3>1. Rank[comp[d]] >= 3 /\ d \in Component
        BY DEF TreeInv, OwnAreServices
      <3>2. CASE d = c
        <4>1. Rank[comp[c]] \in Nat /\ Rank[After[ph]] \in Nat
          BY <1>3 DEF Advances, Phase, Before, After, Rank
        <4>. QED  BY <3>1, <3>2, <4>1, <1>1, <1>2
      <3>. QED  BY <3>1, <3>2, <1>1
    <2>. QED  BY <2>1, <1>3 DEF TreeInv, OwnAreServices
  <1>6. (WellPlaced /\ HomesArePresent /\ ReplacedAreLeaves /\ Acyclic /\ LateInLate)'
    BY <1>3 DEF TreeInv, WellPlaced, HomesArePresent, ReplacedAreLeaves, Acyclic, LateInLate,
                Present
  <1>. QED  BY <1>1, <1>4, <1>5, <1>6 DEF TreeInv

LEMMA SameTreeInv ==
  ASSUME TreeInv, UNCHANGED tree
  PROVE  TreeInv'
  BY DEF TreeInv, tree, WellPlaced, HomesArePresent, NoneIsDeleted, ReplacedAreLeaves,
         Acyclic, LateInLate, OwnAreServices, Present

\* What an addition does, whoever makes it.
Adds(a, c, p, old) ==
  /\ Enters(c, p, old) /\ WellPlaced'
  /\ comp'[c] = "Created" \/ (comp'[c] = "Connected" /\ c \in own' /\ state = "Connecting")
  /\ own' = own \/ own' = own \union {c}
  /\ late' = IF state = "Building" THEN late ELSE late \union {c}
  /\ old # None => \A b \in Actor : \A i \in DOMAIN todo[b] :
       todo[b][i].do = "walk" => todo[b][i].in # "services"
  /\ UNCHANGED <<state, inits, todo, overlap>>

LEMMA AdditionAdds ==
  ASSUME OrderInv, TreeInv, Onward, NEW a \in Actor, Add(a) \/ AddConnected(a)
  PROVE  TreeInv' /\ \E c, p, old : Adds(a, c, p, old)
  <1>1. CASE Add(a)
    <2>1. PICK c, p, old :
            /\ Enters(c, p, old) /\ WellPlaced' /\ p \in Places[c]
            /\ p \in Component => home[p] # None
            /\ comp'[c] = "Created" /\ own' = own
            /\ late' = IF state = "Building" THEN late ELSE late \union {c}
            /\ old # None => \A b \in Actor : \A i \in DOMAIN todo[b] :
                 todo[b][i].do = "walk" => todo[b][i].in # "services"
      BY <1>1, AddEnters
    <2>2. late' = late \union {c} \/ (late' = late /\ late = {})
      BY <2>1 DEF Onward
    <2>3. TreeInv'
      BY <2>1, <2>2, EntersTree
    <2>4. UNCHANGED <<state, inits, todo, overlap>>
      BY <1>1 DEF Add, inits
    <2>. QED  BY <2>1, <2>3, <2>4 DEF Adds
  <1>2. CASE AddConnected(a)
    <2>1. PICK c :
            /\ Enters(c, "services", None) /\ WellPlaced' /\ "services" \in Places[c]
            /\ comp'[c] = "Connected"
            /\ own' = own \union {c} /\ late' = late \union {c}
      BY <1>2, AddConnectedEnters
    <2>2. TreeInv'
      <3>1. "services" \notin Component
        BY ConstantsAssumption
      <3>. QED  BY <2>1, <3>1, EntersTree
    <2>3. UNCHANGED <<state, inits, todo, overlap>> /\ state = "Connecting"
      BY <1>2 DEF AddConnected, inits
    <2>4. Adds(a, c, "services", None)
      BY <2>1, <2>3 DEF Adds
    <2>. QED  BY <2>2, <2>4
  <1>. QED  BY <1>1, <1>2

LEMMA TellsIn ==
  ASSUME OrderInv, NEW a \in Actor, NEW X, NEW call, NEW tasks \in Seq(X),
         Accepted(a, call, tasks), todo \in [Actor -> Seq(X)]
  PROVE  todo' \in [Actor -> Seq(X)]
  BY StackPush DEF Accepted

LEMMA WorkAllIn ==
  ASSUME OrderInv, InitType, NEW a \in Actor, NEW X, Begets(X), Work(a), todo \in [Actor -> Seq(X)]
  PROVE  todo' \in [Actor -> Seq(X)]
  <1>1. todo'[a] \in Seq(X)
    BY WorkIn
  <1>2. DOMAIN todo' = Actor /\ todo' = [b \in Actor |-> todo'[b]]
    <2>1. Throws(a) \/ \E tasks : Becomes(a, tasks)
      BY DEF Work, ClientReturns, ClientThrows, BeginSetState, AssignState,
             PublishCycle, PublishCompleted, BeginFor, WalkOn, WalkEnds, BeginPhase, EnterPhase,
             ProceedWith, InitialiseAfterConnect, BeginInit, ExecuteInit, InitEnds, ClearInit
    <2>. QED  BY <2>1 DEF Throws, Becomes
  <1>3. \A b \in Actor : b # a => todo'[b] = todo[b]
    BY WorkIsLocal
  <1>. QED  BY <1>1, <1>2, <1>3

LEMMA StepIs ==
  ASSUME Next
  PROVE  \E a \in Actor : \/ Tells(a) \/ Add(a) \/ AddConnected(a) \/ AddInitEntryPoint(a)
                          \/ Work(a)
  BY DEF Next, Call, Tells

LEMMA WorkOnState ==
  ASSUME NEW a \in Actor, Work(a)
  PROVE  /\ overlap' = overlap
         /\ state' = state \/ (AssignState(a) /\ state' = Head(todo[a]).to)
  BY DEF Work, ClientReturns, ClientThrows, BeginSetState, AssignState, PublishCycle,
         PublishCompleted, BeginFor, WalkOn, WalkEnds, BeginPhase, EnterPhase, ProceedWith,
         InitialiseAfterConnect, BeginInit, ExecuteInit, InitEnds, ClearInit, counters

LEMMA OnwardNext ==
  ASSUME OrderInv, InitType, TreeInv, Onward, [Next]_vars
  PROVE  TreeInv' /\ Onward'
  <1>. DEFINE X == Tasks({"Building"}, Phase)
  <1>1. CASE UNCHANGED vars
    <2>. UNCHANGED tree /\ UNCHANGED <<state, todo>> /\ UNCHANGED late
      BY <1>1 DEF vars, tree
    <2>. QED  BY SameTreeInv DEF Onward, Tasks
  <1>2. ASSUME NEW a \in Actor, Tells(a)
        PROVE  TreeInv' /\ Onward'
    <2>1. PICK call, st, tasks : Accepted(a, call, tasks) /\ CallIs(a, st, tasks)
      BY <1>2, TellsIs
    <2>2. tasks \in Seq(X)
      <3>1. tasks \in Seq(Task) /\ \A i \in DOMAIN tasks : ~Sets(tasks[i], "Building")
        BY <2>1, CallIsTasks
      <3>2. \A t \in Task : ~Sets(t, "Building") => t \in X
        BY DEF Tasks, Task, PhaseTask
      <3>. HIDE DEF X
      <3>. QED  BY <3>1, <3>2, LenProperties, ElementOfSeq, SeqDef
    <2>3. todo' \in [Actor -> Seq(X)]
      BY <2>1, <2>2, TellsIn DEF Onward
    <2>4. UNCHANGED tree /\ state' = state /\ late' = late
      BY <2>1 DEF Accepted, tree
    <2>. QED  BY <2>3, <2>4, SameTreeInv DEF Onward, Tasks
  <1>3. ASSUME NEW a \in Actor, Add(a) \/ AddConnected(a)
        PROVE  TreeInv' /\ Onward'
    <2>1. PICK c, p, old : Adds(a, c, p, old) /\ TreeInv'
      BY <1>3, AdditionAdds
    <2>. QED  BY <2>1 DEF Adds, Onward, Tasks
  <1>4. ASSUME NEW a \in Actor, AddInitEntryPoint(a)
        PROVE  TreeInv' /\ Onward'
    <2>. UNCHANGED tree /\ UNCHANGED <<state, todo>> /\ UNCHANGED late
      BY <1>4 DEF AddInitEntryPoint, tree
    <2>. QED  BY SameTreeInv DEF Onward, Tasks
  <1>5. ASSUME NEW a \in Actor, Work(a)
        PROVE  TreeInv' /\ Onward'
    <2>1. TreeInv' /\ late' = late
      <3>1. CASE UNCHANGED tree
        BY <3>1, SameTreeInv DEF tree
      <3>2. CASE ~UNCHANGED tree
        <4>1. Advances(Head(todo[a]).c, Head(todo[a]).ph)
          BY <3>2, <1>5, WorkOnTree
        <4>. QED  BY <4>1, AdvancesTree DEF Advances
      <3>. QED  BY <3>1, <3>2
    <2>2. todo' \in [Actor -> Seq(X)]
      <3>1. Begets(X)
        BY TasksBeget
      <3>. QED  BY <3>1, <1>5, WorkAllIn DEF Onward
    <2>3. state' = "Building" => state = "Building"
      <3>. SUFFICES ASSUME AssignState(a) PROVE Head(todo[a]).to # "Building"
        BY <1>5, WorkOnState
      <3>1. Head(todo[a]) \in X /\ Head(todo[a]).do = "assign"
        BY NextTask DEF Onward, AssignState
      <3>. QED  BY <3>1 DEF Tasks, Sets
    <2>. QED  BY <2>1, <2>2, <2>3 DEF Onward, Tasks
  <1>. QED  BY <1>1, <1>2, <1>3, <1>4, <1>5, StepIs

LEMMA OnwardInit ==
  ASSUME Init
  PROVE  TreeInv /\ Onward
  <1>1. /\ members = FirstMembers /\ late = {} /\ own = {}
        /\ comp = [c \in Component |-> "Created"]
        /\ home = [c \in Component |->
             IF \E p \in Place : c \in ToSet(members[p])
             THEN CHOOSE p \in Place : c \in ToSet(members[p]) ELSE None]
    BY DEF Init
  <1>2. members \in [Place -> Seq(Component)] /\ None \notin Place /\ None \notin Component
    BY <1>1, ConstantsAssumption DEF Place
  <1>3. ASSUME NEW p \in Place, NEW i \in DOMAIN members[p]
        PROVE  members[p][i] \in Component /\ home[members[p][i]] = p
    <2>1. members[p][i] \in Component
      BY <1>2, ElementOfSeq, LenProperties
    <2>2. OrderInv
      BY OrderInit
    <2>. QED  BY <2>1, <2>2, <1>1 DEF OrderInv, TreeType
  <1>4. ASSUME NEW p \in Place, NEW c \in Component, home[c] = p
        PROVE  c \in ToSet(members[p]) /\ \E i \in DOMAIN members[p] : members[p][i] = c
    <2>1. \E q \in Place : c \in ToSet(members[q])
      BY <1>1, <1>2, <1>4
    <2>2. home[c] = CHOOSE q \in Place : c \in ToSet(members[q])
      BY <1>1, <2>1
    <2>. QED  BY <2>1, <2>2, <1>4 DEF ToSet
  <1>5. WellPlaced
    <2>1. \A p \in Place : \A i, j \in DOMAIN members[p] : members[p][i] = members[p][j] => i = j
      BY <1>1, ConstantsAssumption
    <2>. QED  BY <2>1, <1>3, <1>4 DEF WellPlaced
  <1>6. HomesArePresent
    <2>. SUFFICES ASSUME NEW c \in Component, home[c] \in Component
                  PROVE  home[home[c]] # None
      BY DEF HomesArePresent
    <2>1. home[c] \in Place
      BY DEF Place
    <2>2. FirstMembers[home[c]] # <<>>
      <3>1. PICK i \in DOMAIN members[home[c]] : members[home[c]][i] = c
        BY <2>1, <1>4
      <3>. QED  BY <3>1, <1>1
    <2>3. PICK q \in Place : home[c] \in ToSet(members[q])
      BY <2>2, <1>1, TreeAssumption
    <2>4. PICK i \in DOMAIN members[q] : members[q][i] = home[c]
      BY <2>3 DEF ToSet
    <2>. QED  BY <2>4, <1>2, <1>3
  <1>7. NoneIsDeleted
    BY <1>1 DEF NoneIsDeleted
  <1>8. ReplacedAreLeaves
    <2>. SUFFICES ASSUME NEW c \in Component, Replaces[c] # None
                  PROVE  /\ home[Replaces[c]] \in {None, "services"}
                         /\ \A d \in Component : home[d] # Replaces[c]
      BY DEF ReplacedAreLeaves
    <2>. DEFINE r == Replaces[c]
    <2>1. /\ r \in Component /\ r \in Place /\ FirstMembers[r] = <<>>
          /\ \A p \in Place : r \in ToSet(FirstMembers[p]) => p = "services"
      BY ConstantsAssumption, TreeAssumption DEF Place
    <2>. HIDE DEF r
    <2>2. home[r] \in {None, "services"}
      BY <2>1, <1>1
    <2>3. \A d \in Component : home[d] # r
      BY <2>1, <1>1, <1>4 DEF ToSet
    <2>. QED  BY <2>2, <2>3 DEF r
  <1>9. Acyclic
    <2>. SUFFICES ASSUME NEW S \in SUBSET Component, S # {}
                  PROVE  \E c \in S : home[c] \notin S
      BY DEF Acyclic
    <2>1. PICK c \in S : \A p \in S : c \notin ToSet(FirstMembers[p])
      BY TreeAssumption
    <2>2. home[c] \notin S
      BY <2>1, <1>1, <1>4 DEF Place
    <2>. QED  BY <2>2
  <1>10. LateInLate /\ OwnAreServices
    BY <1>1 DEF LateInLate, OwnAreServices
  <1>11. Onward
    BY <1>1, EmptySeq DEF Onward, Init
  <1>. QED  BY <1>5, <1>6, <1>7, <1>8, <1>9, <1>10, <1>11 DEF TreeInv

-----------------------------------------------------------------------------
(***************************************************************************)
(* Stacks that take care: what is still to be done for a phase is done     *)
(* once for each component, in the order of the phases, and only for       *)
(* components that have not gone through the phase.                        *)
(***************************************************************************)
Height(ph) == Rank[After[ph]]

\* The components that a task may still lead through its phase, and those
\* that it will at least try to.
Reaches(t, c) ==
  /\ t.do \in {"phase", "enter"} => t.c = c
  /\ t.do = "for" => home[c] = t.in
  /\ t.do = "walk" => \E j \in DOMAIN members[t.in] : j > t.i /\ members[t.in][j] = c

Will(t, c) ==
  /\ t.do \in {"phase", "enter"} => t.c = c
  /\ t.do = "for" => home[c] = t.in
  /\ t.do = "walk" => \E j \in DOMAIN members[t.in] :
                        j > t.i /\ j <= t.n /\ members[t.in][j] = c

\* Two tasks of the same phase, t before u, have no component in common.
Apart(t, u) ==
  /\ u.do \in {"for", "walk"}
  /\ t.do \in {"for", "walk"} => t.in # u.in
  /\ t.do \in {"phase", "enter"} /\ home[t.c] = u.in =>
       u.do = "walk" /\ \E j \in DOMAIN members[u.in] : j <= u.i /\ members[u.in][j] = t.c

Ordered(t, u) ==
  PhaseTask(t) /\ PhaseTask(u) =>
    Height(t.ph) < Height(u.ph) \/ (t.ph = u.ph /\ Apart(t, u))

Timely(t) ==
  PhaseTask(t) => \A c \in Component : Reaches(t, c) =>
    Rank[comp[c]] < Height(t.ph) \/ (c \in own /\ t.ph # "Disconnect")

Sorted(s)    == \A i, j \in DOMAIN s : i < j => Ordered(s[i], s[j])
AllTimely(s) == \A i \in DOMAIN s : Timely(s[i])

\* A component that goes through a phase has been met by a walk.
Seen(s) ==
  \A i \in DOMAIN s : s[i].do \in {"phase", "enter"} =>
    \E j \in DOMAIN s : j > i /\ s[j].do = "walk" /\ s[j].in = home[s[i].c]

\* Before a phase is resumed, the one before it is done.
Done == {x \in Component \X Phase : comp[x[1]] = Before[x[2]]}

ResumedBy(s, D) ==
  \A i \in DOMAIN s : s[i].do = "enter" =>
    \/ <<s[i].c, s[i].ph>> \in D
    \/ \E j \in DOMAIN s : /\ j < i /\ s[j].do \in {"phase", "enter"}
                           /\ s[j].c = s[i].c /\ After[s[j].ph] = Before[s[i].ph]

Careful(s) == Sorted(s) /\ AllTimely(s) /\ Seen(s) /\ ResumedBy(s, Done)

LEMMA SortedWay ==
  ASSUME NEW s, NEW tasks, NEW r, GivesWay(s, tasks, r), Sorted(s), Sorted(tasks),
         \A i \in DOMAIN tasks, k \in 2 .. Len(s) : Ordered(tasks[i], s[k])
  PROVE  Sorted(r)
  <1>. SUFFICES ASSUME NEW i \in DOMAIN r, NEW j \in DOMAIN r, i < j
                PROVE  Ordered(r[i], r[j])
    BY DEF Sorted
  <1>1. /\ Len(s) \in Nat \ {0} /\ Len(tasks) \in Nat /\ DOMAIN r = 1 .. Len(r) /\ Len(r) \in Nat
        /\ DOMAIN tasks = 1 .. Len(tasks) /\ DOMAIN s = 1 .. Len(s)
    BY WayOrigin
  <1>2. CASE j \in 1 .. Len(tasks)
    <2>1. i \in 1 .. Len(tasks)
      BY <1>1, <1>2
    <2>2. r[i] = tasks[i] /\ r[j] = tasks[j]
      BY <2>1, <1>2, WayOrigin
    <2>. QED  BY <2>1, <2>2, <1>1, <1>2 DEF Sorted
  <1>3. CASE j \notin 1 .. Len(tasks)
    <2>1. PICK k \in 2 .. Len(s) : j = k + (Len(tasks) - 1) /\ r[j] = s[k]
      BY <1>3, WayOrigin
    <2>2. CASE i \in 1 .. Len(tasks)
      <3>1. r[i] = tasks[i]
        BY <2>2, WayOrigin
      <3>. QED  BY <2>1, <2>2, <3>1, <1>1
    <2>3. CASE i \notin 1 .. Len(tasks)
      <3>1. PICK l \in 2 .. Len(s) : i = l + (Len(tasks) - 1) /\ r[i] = s[l]
        <4>1. \E l \in 2 .. Len(s) : i = l + (Len(tasks) - 1) /\ r[i] = s[l] /\ s[l] \in Task
          BY <2>3, WayOrigin
        <4>. QED  BY <4>1
      <3>2. l < k /\ l \in DOMAIN s /\ k \in DOMAIN s
        BY <2>1, <3>1, <1>1
      <3>. QED  BY <2>1, <3>1, <3>2 DEF Sorted
    <2>. QED  BY <2>2, <2>3
  <1>. QED  BY <1>2, <1>3

LEMMA TimelyWay ==
  ASSUME NEW s, NEW tasks, NEW r, GivesWay(s, tasks, r), AllTimely(s), AllTimely(tasks)
  PROVE  AllTimely(r)
  BY WayOrigin DEF AllTimely

LEMMA SeenWay ==
  ASSUME NEW s, NEW tasks, NEW r, GivesWay(s, tasks, r), Seen(s),
         \A i \in DOMAIN tasks : tasks[i].do \in {"phase", "enter"} =>
           \/ \E j \in DOMAIN tasks : j > i /\ tasks[j].do = "walk" /\ tasks[j].in = home[tasks[i].c]
           \/ \E k \in 2 .. Len(s) : s[k].do = "walk" /\ s[k].in = home[tasks[i].c]
  PROVE  Seen(r)
  <1>. SUFFICES ASSUME NEW i \in DOMAIN r, r[i].do \in {"phase", "enter"}
                PROVE  \E j \in DOMAIN r : j > i /\ r[j].do = "walk" /\ r[j].in = home[r[i].c]
    BY DEF Seen
  <1>1. /\ Len(s) \in Nat \ {0} /\ Len(tasks) \in Nat /\ DOMAIN r = 1 .. Len(r) /\ Len(r) \in Nat
        /\ DOMAIN tasks = 1 .. Len(tasks) /\ DOMAIN s = 1 .. Len(s)
    BY WayOrigin
  <1>2. ASSUME NEW k \in 2 .. Len(s)
        PROVE  k + (Len(tasks) - 1) \in DOMAIN r /\ r[k + (Len(tasks) - 1)] = s[k]
    BY WayOrigin
  <1>3. CASE i \in 1 .. Len(tasks)
    <2>1. r[i] = tasks[i] /\ i \in DOMAIN tasks
      BY <1>1, <1>3, WayOrigin
    <2>2. CASE \E j \in DOMAIN tasks : j > i /\ tasks[j].do = "walk" /\ tasks[j].in = home[tasks[i].c]
      <3>1. PICK j \in DOMAIN tasks : j > i /\ tasks[j].do = "walk" /\ tasks[j].in = home[tasks[i].c]
        BY <2>2
      <3>2. j \in DOMAIN r /\ r[j] = tasks[j]
        BY <1>1, WayOrigin
      <3>. QED  BY <2>1, <3>1, <3>2
    <2>3. CASE \E k \in 2 .. Len(s) : s[k].do = "walk" /\ s[k].in = home[tasks[i].c]
      <3>1. PICK k \in 2 .. Len(s) : s[k].do = "walk" /\ s[k].in = home[tasks[i].c]
        BY <2>3
      <3>2. k + (Len(tasks) - 1) > i
        BY <1>1, <1>3
      <3>. QED  BY <2>1, <3>1, <3>2, <1>2
    <2>. QED  BY <2>1, <2>2, <2>3
  <1>4. CASE i \notin 1 .. Len(tasks)
    <2>1. PICK k \in 2 .. Len(s) : i = k + (Len(tasks) - 1) /\ r[i] = s[k]
      BY <1>4, WayOrigin
    <2>2. PICK l \in DOMAIN s : l > k /\ s[l].do = "walk" /\ s[l].in = home[s[k].c]
      BY <1>1, <2>1 DEF Seen
    <2>3. l \in 2 .. Len(s) /\ l + (Len(tasks) - 1) > i
      BY <1>1, <2>1, <2>2
    <2>. QED  BY <2>1, <2>2, <2>3, <1>2
  <1>. QED  BY <1>3, <1>4

LEMMA ResumedWay ==
  ASSUME NEW s, NEW tasks, NEW r, GivesWay(s, tasks, r), NEW D, NEW E, ResumedBy(s, D),
         \A k \in 2 .. Len(s) : s[k].do = "enter" /\ <<s[k].c, s[k].ph>> \in D
           => <<s[k].c, s[k].ph>> \in E,
         ResumedBy(tasks, E),
         s[1].do \in {"phase", "enter"} =>
           \/ \A k \in 2 .. Len(s) : s[k].do = "enter" /\ s[k].c = s[1].c /\ After[s[1].ph] = Before[s[k].ph]
                => <<s[k].c, s[k].ph>> \in E
           \/ \E i \in DOMAIN tasks : tasks[i].do = "enter" /\ tasks[i].c = s[1].c /\ tasks[i].ph = s[1].ph
  PROVE  ResumedBy(r, E)
  <1>. SUFFICES ASSUME NEW i \in DOMAIN r, r[i].do = "enter", <<r[i].c, r[i].ph>> \notin E
                PROVE  \E j \in DOMAIN r : /\ j < i /\ r[j].do \in {"phase", "enter"}
                                           /\ r[j].c = r[i].c /\ After[r[j].ph] = Before[r[i].ph]
    BY DEF ResumedBy
  <1>1. /\ Len(s) \in Nat \ {0} /\ Len(tasks) \in Nat /\ DOMAIN r = 1 .. Len(r) /\ Len(r) \in Nat
        /\ DOMAIN tasks = 1 .. Len(tasks) /\ DOMAIN s = 1 .. Len(s)
    BY WayOrigin
  <1>2. ASSUME NEW k \in 2 .. Len(s)
        PROVE  k + (Len(tasks) - 1) \in DOMAIN r /\ r[k + (Len(tasks) - 1)] = s[k]
    BY WayOrigin
  <1>3. ASSUME NEW j \in DOMAIN tasks
        PROVE  j \in DOMAIN r /\ r[j] = tasks[j]
    BY <1>1, WayOrigin
  <1>4. CASE i \in 1 .. Len(tasks)
    <2>1. r[i] = tasks[i] /\ i \in DOMAIN tasks
      BY <1>1, <1>3, <1>4
    <2>2. PICK j \in DOMAIN tasks : /\ j < i /\ tasks[j].do \in {"phase", "enter"}
                                    /\ tasks[j].c = tasks[i].c /\ After[tasks[j].ph] = Before[tasks[i].ph]
      BY <2>1 DEF ResumedBy
    <2>. QED  BY <2>1, <2>2, <1>3
  <1>5. CASE i \notin 1 .. Len(tasks)
    <2>1. PICK k \in 2 .. Len(s) : i = k + (Len(tasks) - 1) /\ r[i] = s[k]
      <3>1. \A m \in DOMAIN r :
              \/ m \in 1 .. Len(tasks) /\ r[m] = tasks[m] /\ tasks[m] \in Task
              \/ \E k \in 2 .. Len(s) : m = k + (Len(tasks) - 1) /\ r[m] = s[k] /\ s[k] \in Task
        BY WayOrigin
      <3>. QED  BY <3>1, <1>5, Zenon
    <2>2. PICK l \in DOMAIN s : /\ l < k /\ s[l].do \in {"phase", "enter"}
                                /\ s[l].c = s[k].c /\ After[s[l].ph] = Before[s[k].ph]
      BY <1>1, <2>1 DEF ResumedBy
    <2>3. CASE l # 1
      <3>1. l \in 2 .. Len(s) /\ l + (Len(tasks) - 1) < i
        BY <1>1, <2>1, <2>2, <2>3
      <3>. QED  BY <2>1, <2>2, <3>1, <1>2
    <2>4. CASE l = 1
      <3>1. PICK j \in DOMAIN tasks : tasks[j].do = "enter" /\ tasks[j].c = s[1].c /\ tasks[j].ph = s[1].ph
        BY <2>1, <2>2, <2>4
      <3>2. j < i
        BY <1>1, <2>1
      <3>. QED  BY <2>1, <2>2, <2>4, <3>1, <3>2, <1>3
    <2>. QED  BY <2>3, <2>4
  <1>. QED  BY <1>4, <1>5

\* What depends on the tree only.
LEMMA SameCareful ==
  ASSUME UNCHANGED tree, NEW s, Careful(s)
  PROVE  Careful(s)'
  BY DEF tree, Careful, Sorted, AllTimely, Seen, ResumedBy, Done, Ordered, Apart, Timely, Reaches

-----------------------------------------------------------------------------
(***************************************************************************)
(* The steps of an actor leave its stack careful.                          *)
(***************************************************************************)
LEMMA HeightsAre ==
  /\ Height("Publish") = 1 /\ Height("Configure") = 2
  /\ Height("Connect") = 3 /\ Height("Disconnect") = 4
  /\ \A ph \in Phase : Height(ph) \in 1 .. 4 /\ Rank[Before[ph]] = Height(ph) - 1
  /\ \A ph, qh \in Phase : Height(ph) = Height(qh) => ph = qh
  /\ \A ph, qh \in Phase : Before[ph] = Before[qh] => ph = qh
  BY DEF Height, Rank, Before, After, Phase

LEMMA PhaseTaskIs ==
  ASSUME NEW t \in Task, PhaseTask(t)
  PROVE  /\ t.ph \in Phase
         /\ t.do \in {"phase", "enter"} => t.c \in Component
         /\ t.do \in {"for", "walk"} => t.in \in Place
         /\ t.do = "walk" => t.i \in Nat /\ t.n \in Nat
  BY DEF Task, PhaseTask

LEMMA TasksInside ==
  ASSUME NEW s \in Seq(Task)
  PROVE  /\ Len(s) \in Nat /\ DOMAIN s = 1 .. Len(s)
         /\ \A i \in DOMAIN s : s[i] \in Task
  BY LenProperties, ElementOfSeq

LEMMA CarefulPlain ==
  ASSUME NEW s, NEW tasks, NEW r, GivesWay(s, tasks, r), Careful(s),
         s[1].do \notin {"phase", "enter"},
         \A i \in DOMAIN tasks : ~PhaseTask(tasks[i])
  PROVE  Careful(r)
  <1>1. Sorted(tasks) /\ AllTimely(tasks) /\ \A E : ResumedBy(tasks, E)
    BY DEF Sorted, AllTimely, ResumedBy, Ordered, Timely, PhaseTask
  <1>2. \A i \in DOMAIN tasks, k \in 2 .. Len(s) : Ordered(tasks[i], s[k])
    BY DEF Ordered
  <1>3. \A i \in DOMAIN tasks : tasks[i].do \notin {"phase", "enter"}
    BY DEF PhaseTask
  <1>4. Sorted(s) /\ AllTimely(s) /\ Seen(s) /\ ResumedBy(s, Done)
    BY DEF Careful
  <1>5. Sorted(r)
    BY <1>1, <1>2, <1>4, SortedWay
  <1>6. AllTimely(r)
    BY <1>1, <1>4, TimelyWay
  <1>7. Seen(r)
    BY <1>3, <1>4, SeenWay
  <1>8. ResumedBy(r, Done)
    BY <1>1, <1>4, ResumedWay
  <1>. QED  BY <1>5, <1>6, <1>7, <1>8 DEF Careful

LEMMA CarefulFor ==
  ASSUME TreeInv, NEW s, NEW r, NEW n, s[1].do = "for",
         GivesWay(s, <<Walk(s[1].ph, s[1].in, 0, n)>>, r), Careful(s)
  PROVE  Careful(r)
  <1>. DEFINE w == Walk(s[1].ph, s[1].in, 0, n)
              tasks == <<w>>
  <1>1. /\ Len(s) \in Nat \ {0} /\ DOMAIN s = 1 .. Len(s) /\ s[1] \in Task
        /\ DOMAIN tasks = {1} /\ tasks[1] = w
    BY WayOrigin
  <1>2. /\ PhaseTask(s[1]) /\ PhaseTask(w) /\ w.do = "walk" /\ w.ph = s[1].ph /\ w.in = s[1].in
        /\ s[1].in \in Place
    BY <1>1, PhaseTaskIs DEF PhaseTask, Walk
  <1>3. Sorted(s) /\ AllTimely(s) /\ Seen(s) /\ ResumedBy(s, Done)
    BY DEF Careful
  <1>4. \A c \in Component : Reaches(w, c) => Reaches(s[1], c)
    BY <1>2 DEF Reaches, TreeInv, WellPlaced
  <1>5. Timely(w)
    <2>1. Timely(s[1])
      BY <1>1, <1>3 DEF AllTimely
    <2>. QED  BY <2>1, <1>2, <1>4 DEF Timely
  <1>6. \A k \in 2 .. Len(s) : Ordered(w, s[k])
    <2>1. \A k \in 2 .. Len(s) : Ordered(s[1], s[k])
      BY <1>1, <1>3 DEF Sorted
    <2>. QED  BY <2>1, <1>2 DEF Ordered, Apart
  <1>. HIDE DEF w
  <1>7. Sorted(tasks) /\ AllTimely(tasks) /\ ResumedBy(tasks, Done)
    BY <1>1, <1>2, <1>5 DEF Sorted, AllTimely, ResumedBy
  <1>. HIDE DEF tasks
  <1>8. GivesWay(s, tasks, r)
    BY DEF tasks, w
  <1>9. Sorted(r)
    BY <1>1, <1>3, <1>6, <1>7, <1>8, SortedWay
  <1>10. AllTimely(r)
    BY <1>3, <1>7, <1>8, TimelyWay
  <1>11. Seen(r)
    BY <1>1, <1>2, <1>3, <1>8, SeenWay
  <1>12. ResumedBy(r, Done)
    BY <1>1, <1>2, <1>3, <1>7, <1>8, ResumedWay
  <1>. QED  BY <1>9, <1>10, <1>11, <1>12 DEF Careful

LEMMA CarefulWalkOn ==
  ASSUME OrderInv, TreeInv, NEW s, NEW tasks, NEW r, GivesWay(s, tasks, r), Careful(s),
         s[1].do = "walk", s[1].i + 1 \in DOMAIN members[s[1].in],
         LET next == Walk(s[1].ph, s[1].in, s[1].i + 1, s[1].n) IN
         \/ tasks = <<next>>
         \/ tasks = <<DoPhase(s[1].ph, members[s[1].in][s[1].i + 1]), next>>
  PROVE  Careful(r)
  <1>. DEFINE w == s[1]
              ph == w.ph
              p == w.in
              next == Walk(ph, p, w.i + 1, w.n)
              c == members[p][w.i + 1]
              d == DoPhase(ph, c)
  <1>1. /\ Len(s) \in Nat \ {0} /\ DOMAIN s = 1 .. Len(s) /\ w \in Task
    BY WayOrigin
  <1>2. PhaseTask(w) /\ p \in Place /\ w.i \in Nat /\ ph \in Phase
    BY <1>1, PhaseTaskIs DEF PhaseTask
  <1>3. Sorted(s) /\ AllTimely(s) /\ Seen(s) /\ ResumedBy(s, Done)
    BY DEF Careful
  <1>4. /\ next.do = "walk" /\ next.ph = ph /\ next.in = p /\ next.i = w.i + 1
        /\ d.do = "phase" /\ d.ph = ph /\ d.c = c
    BY DEF Walk, DoPhase
  <1>5. w.do = "walk" /\ w.i + 1 \in DOMAIN members[p] /\ home[c] = p
    BY <1>2 DEF TreeInv, WellPlaced
  <1>6. tasks = <<next>> \/ tasks = <<d, next>>
    OBVIOUS
  <1>. HIDE DEF w, ph, p, next, c, d
  <1>7. Timely(w) /\ \A k \in 2 .. Len(s) : Ordered(w, s[k])
    BY <1>1, <1>3 DEF AllTimely, Sorted, w
  <1>8. Timely(next)
    <2>. SUFFICES ASSUME NEW e \in Component, Reaches(next, e)
                  PROVE  Rank[comp[e]] < Height(ph) \/ (e \in own /\ ph # "Disconnect")
      BY <1>4 DEF Timely
    <2>1. Reaches(w, e)
      <3>1. \A j \in DOMAIN members[p] : j \in Nat
        BY <1>2, LenProperties DEF OrderInv, TreeType
      <3>. QED  BY <3>1, <1>2, <1>4, <1>5 DEF Reaches, p
    <2>. QED  BY <2>1, <1>2, <1>7 DEF Timely, ph
  <1>9. Timely(d)
    <2>. SUFFICES ASSUME NEW e \in Component, Reaches(d, e)
                  PROVE  Rank[comp[e]] < Height(ph) \/ (e \in own /\ ph # "Disconnect")
      BY <1>4 DEF Timely
    <2>1. e = members[p][w.i + 1] /\ w.i + 1 > w.i
      BY <1>2, <1>4 DEF Reaches, c
    <2>2. Reaches(w, e)
      BY <2>1, <1>5 DEF Reaches, p
    <2>. QED  BY <2>2, <1>2, <1>7 DEF Timely, ph
  <1>10. Ordered(d, next)
    <2>1. \E j \in DOMAIN members[p] : j <= w.i + 1 /\ members[p][j] = c
      BY <1>2, <1>5 DEF c
    <2>. QED  BY <2>1, <1>4 DEF Ordered, Apart
  <1>11. ASSUME NEW k \in 2 .. Len(s)
         PROVE  Ordered(next, s[k]) /\ Ordered(d, s[k])
    BY <1>2, <1>4, <1>5, <1>7 DEF Ordered, Apart, ph, p
  <1>12. Sorted(tasks)
    BY <1>6, <1>10 DEF Sorted
  <1>13. AllTimely(tasks)
    BY <1>6, <1>8, <1>9 DEF AllTimely
  <1>14. ResumedBy(tasks, Done)
    BY <1>4, <1>6 DEF ResumedBy
  <1>15. \A i \in DOMAIN tasks, k \in 2 .. Len(s) : Ordered(tasks[i], s[k])
    BY <1>6, <1>11
  <1>16. \A i \in DOMAIN tasks : tasks[i].do \in {"phase", "enter"} =>
           \E j \in DOMAIN tasks : j > i /\ tasks[j].do = "walk" /\ tasks[j].in = home[tasks[i].c]
    BY <1>4, <1>5, <1>6
  <1>17. Sorted(r)
    BY <1>3, <1>12, <1>15, SortedWay
  <1>18. AllTimely(r)
    BY <1>3, <1>13, TimelyWay
  <1>19. Seen(r)
    BY <1>3, <1>16, SeenWay
  <1>20. ResumedBy(r, Done)
    BY <1>3, <1>5, <1>14, ResumedWay DEF w
  <1>. QED  BY <1>17, <1>18, <1>19, <1>20 DEF Careful

LEMMA CarefulBehind ==
  ASSUME NEW s, NEW r, NEW previous, s[1].do = "phase", Behind(s[1].ph, s[1].c),
         previous = IF s[1].ph = "Connect" THEN "Configure" ELSE "Publish",
         GivesWay(s, <<DoPhase(previous, s[1].c), Enter(s[1].ph, s[1].c)>>, r), Careful(s)
  PROVE  Careful(r)
  <1>. DEFINE w == s[1]
              ph == w.ph
              c == w.c
              d == DoPhase(previous, c)
              e == Enter(ph, c)
              tasks == <<d, e>>
  <1>1. /\ Len(s) \in Nat \ {0} /\ DOMAIN s = 1 .. Len(s) /\ w \in Task
    BY WayOrigin
  <1>2. PhaseTask(w) /\ c \in Component /\ ph \in Phase /\ w.do = "phase"
    BY <1>1, PhaseTaskIs DEF PhaseTask
  <1>3. Sorted(s) /\ AllTimely(s) /\ Seen(s) /\ ResumedBy(s, Done)
    BY DEF Careful
  <1>4. /\ d.do = "phase" /\ d.ph = previous /\ d.c = c
        /\ e.do = "enter" /\ e.ph = ph /\ e.c = c
        /\ DOMAIN tasks = 1 .. 2 /\ tasks[1] = d /\ tasks[2] = e
    BY DEF DoPhase, Enter
  <1>5. /\ Height(previous) < Height(ph) /\ After[previous] = Before[ph]
        /\ Height(previous) \in Nat /\ Height(ph) \in Nat
        /\ Rank[comp[c]] < Height(previous)
    BY <1>2 DEF Height, Behind, Phase, Rank, Before, After
  <1>6. GivesWay(s, tasks, r)
    OBVIOUS
  <1>7. Timely(w) /\ \A k \in 2 .. Len(s) : Ordered(w, s[k])
    BY <1>1, <1>3 DEF AllTimely, Sorted
  <1>. HIDE DEF w, d, e, tasks
  <1>8. Timely(d) /\ Timely(e) /\ Ordered(d, e)
    <2>1. Timely(d)
      BY <1>4, <1>5 DEF Timely, Reaches
    <2>2. Timely(e)
      BY <1>2, <1>4, <1>7 DEF Timely, Reaches
    <2>3. Ordered(d, e)
      BY <1>4, <1>5 DEF Ordered
    <2>. QED  BY <2>1, <2>2, <2>3
  <1>9. ASSUME NEW k \in 2 .. Len(s)
        PROVE  Ordered(d, s[k]) /\ Ordered(e, s[k])
    <2>. SUFFICES ASSUME PhaseTask(s[k])
                  PROVE  Ordered(d, s[k]) /\ Ordered(e, s[k])
      BY DEF Ordered
    <2>1. s[k].ph \in Phase /\ Height(s[k].ph) \in Nat
      <3>1. s[k] \in Task
        BY <1>1, WayOrigin, TasksInside DEF GivesWay
      <3>. QED  BY <3>1, PhaseTaskIs, HeightsAre
    <2>2. Height(ph) < Height(s[k].ph) \/ (ph = s[k].ph /\ Apart(w, s[k]))
      BY <1>2, <1>7 DEF Ordered
    <2>3. Ordered(d, s[k])
      BY <2>1, <2>2, <1>4, <1>5 DEF Ordered
    <2>4. Ordered(e, s[k])
      BY <2>2, <1>2, <1>4 DEF Ordered, Apart
    <2>. QED  BY <2>3, <2>4
  <1>12. Sorted(tasks)
    BY <1>4, <1>8 DEF Sorted
  <1>13. AllTimely(tasks)
    BY <1>4, <1>8 DEF AllTimely
  <1>14. ResumedBy(tasks, Done)
    BY <1>4, <1>5 DEF ResumedBy
  <1>15. \A i \in DOMAIN tasks, k \in 2 .. Len(s) : Ordered(tasks[i], s[k])
    BY <1>4, <1>9
  <1>16. \E k \in 2 .. Len(s) : s[k].do = "walk" /\ s[k].in = home[c]
    BY <1>1, <1>2, <1>3 DEF Seen, w
  <1>17. Sorted(r)
    BY <1>3, <1>6, <1>12, <1>15, SortedWay
  <1>18. AllTimely(r)
    BY <1>3, <1>6, <1>13, TimelyWay
  <1>19. Seen(r)
    <2>1. \A i \in DOMAIN tasks : tasks[i].c = c
      BY <1>4
    <2>. QED  BY <2>1, <1>3, <1>6, <1>16, SeenWay
  <1>20. ResumedBy(r, Done)
    <2>1. tasks[2].do = "enter" /\ tasks[2].c = s[1].c /\ tasks[2].ph = s[1].ph /\ 2 \in DOMAIN tasks
      BY <1>4 DEF w
    <2>. QED  BY <2>1, <1>3, <1>6, <1>14, ResumedWay
  <1>. QED  BY <1>17, <1>18, <1>19, <1>20 DEF Careful

\* The component's own code runs, and then its children have their turn.
LEMMA CarefulProceeds ==
  ASSUME OrderInv, TreeInv, NEW s \in Seq(FineTask), NEW r, s[1].do \in {"phase", "enter"},
         Advances(s[1].c, s[1].ph),
         GivesWay(s, <<Client, For(s[1].ph, s[1].c)>>, r), Careful(s)
  PROVE  Careful(r)'
  <1>. DEFINE t == s[1]
              ph == t.ph
              c == t.c
              f == For(ph, c)
              tasks == <<Client, f>>
  <1>1. /\ Len(s) \in Nat \ {0} /\ DOMAIN s = 1 .. Len(s) /\ t \in Task
        /\ \A k \in DOMAIN s : s[k] \in FineTask /\ s[k] \in Task
    <2>1. \A k \in DOMAIN s : s[k] \in FineTask
      BY LenProperties, ElementOfSeq
    <2>2. FineTask \subseteq Task
      BY DEF FineTask
    <2>. QED  BY <2>1, <2>2, WayOrigin
  <1>2. PhaseTask(t) /\ c \in Component /\ ph \in Phase
    BY <1>1, PhaseTaskIs DEF PhaseTask
  <1>3. Sorted(s) /\ AllTimely(s) /\ Seen(s) /\ ResumedBy(s, Done)
    BY DEF Careful
  <1>4. /\ f.do = "for" /\ f.ph = ph /\ f.in = c /\ Client.do = "client"
        /\ DOMAIN tasks = 1 .. 2 /\ tasks[1] = Client /\ tasks[2] = f
    BY DEF For, Client
  <1>5. /\ comp[c] = Before[ph] /\ comp'[c] = After[ph]
        /\ \A d \in Component : d # c => comp'[d] = comp[d]
        /\ UNCHANGED <<members, home, late, own>>
    <2>1. Advances(c, ph)
      OBVIOUS
    <2>. HIDE DEF c, ph
    <2>2. \A d \in Component : d # c => comp'[d] = comp[d]
      BY <2>1, AdvancesTree
    <2>. QED  BY <2>1, <2>2 DEF Advances, OrderInv, TreeType
  <1>6. GivesWay(s, tasks, r)
    OBVIOUS
  <1>7. \A k \in 2 .. Len(s) : Ordered(t, s[k])
    BY <1>1, <1>3 DEF Sorted
  <1>8. /\ Height(ph) \in 1 .. 4 /\ Rank[comp[c]] = Height(ph) - 1 /\ Rank[comp'[c]] = Height(ph)
        /\ \A d \in Component : Rank[comp[d]] \in 0 .. 5
    BY <1>2, <1>5, HeightsAre DEF Height, OrderInv, TreeType, Rank
  <1>9. home[c] # c
    <2>1. \E d \in {c} : home[d] \notin {c}
      BY <1>2 DEF TreeInv, Acyclic
    <2>. QED  BY <2>1
  <1>. HIDE DEF t, ph, c, f, tasks
  <1>10. ASSUME NEW k \in 2 .. Len(s), PhaseTask(s[k])
         PROVE  /\ s[k] \in FineTask /\ s[k].ph \in Phase /\ Height(s[k].ph) \in 1 .. 4
                /\ Height(ph) < Height(s[k].ph) \/ (ph = s[k].ph /\ Apart(t, s[k]))
    BY <1>1, <1>2, <1>7, <1>10, PhaseTaskIs, HeightsAre DEF Ordered, ph
  <1>11. ASSUME NEW k \in 2 .. Len(s)
         PROVE  Ordered(f, s[k])
    <2>. SUFFICES ASSUME PhaseTask(s[k]), ~(Height(ph) < Height(s[k].ph))
                  PROVE  ph = s[k].ph /\ Apart(f, s[k])
      BY <1>4 DEF Ordered
    <2>1. ph = s[k].ph /\ Apart(t, s[k]) /\ s[k] \in FineTask
      BY <1>10
    <2>2. s[k].do \in {"for", "walk"} /\ s[k].ph = ph
      BY <2>1 DEF Apart
    <2>3. Ready(ph, s[k].in)
      BY <2>1, <2>2 DEF FineTask
    <2>4. s[k].in # c
      BY <2>3, <1>2, <1>8 DEF Ready, Height
    <2>. QED  BY <2>1, <2>2, <2>4, <1>4 DEF Apart
  <1>12. Sorted(r)
    <2>1. Sorted(tasks)
      BY <1>4 DEF Sorted, Ordered, PhaseTask
    <2>2. \A i \in DOMAIN tasks, k \in 2 .. Len(s) : Ordered(tasks[i], s[k])
      BY <1>4, <1>11 DEF Ordered, PhaseTask
    <2>. QED  BY <2>1, <2>2, <1>3, <1>6, SortedWay
  <1>13. Seen(r)
    BY <1>3, <1>4, <1>6, SeenWay
  <1>14. Timely(f)'
    <2>. SUFFICES ASSUME NEW d \in Component, Reaches(f, d)'
                  PROVE  Rank[comp'[d]] < Height(ph)
      BY <1>4 DEF Timely, Height
    <2>1. home[d] = c /\ d # c
      BY <1>4, <1>5, <1>9 DEF Reaches
    <2>2. Rank[comp[d]] <= Rank[comp[c]]
      BY <2>1, <1>2 DEF OrderInv, ParentsFirst
    <2>. QED  BY <2>1, <2>2, <1>5, <1>8
  <1>15. ASSUME NEW k \in 2 .. Len(s), PhaseTask(s[k])
         PROVE  Timely(s[k])'
    <2>. DEFINE u == s[k]
    <2>. SUFFICES ASSUME NEW d \in Component, Reaches(u, d)'
                  PROVE  Rank[comp'[d]] < Height(u.ph) \/ (d \in own /\ u.ph # "Disconnect")
      BY <1>5 DEF Timely, Height
    <2>1. Reaches(u, d)
      BY <1>5 DEF Reaches
    <2>2. Rank[comp[d]] < Height(u.ph) \/ (d \in own /\ u.ph # "Disconnect")
      BY <2>1, <1>1, <1>3, <1>15 DEF AllTimely, Timely
    <2>3. CASE d # c
      BY <2>2, <2>3, <1>5
    <2>4. CASE d = c /\ Height(ph) < Height(u.ph)
      BY <2>4, <1>8
    <2>5. CASE d = c /\ ~(Height(ph) < Height(u.ph))
      <3>1. Apart(t, u) /\ u.do \in {"for", "walk"} /\ u \in Task /\ u.in \in Place
        BY <2>5, <1>1, <1>10, <1>15, PhaseTaskIs DEF Apart
      <3>2. t.do \in {"phase", "enter"} /\ t.c = c
        BY DEF t, c
      <3>3. home[c] = u.in
        BY <2>1, <2>5, <3>1 DEF Reaches, TreeInv, WellPlaced
      <3>4. u.do = "walk" /\ \E j \in DOMAIN members[u.in] : j <= u.i /\ members[u.in][j] = c
        BY <3>1, <3>2, <3>3 DEF Apart
      <3>5. \E j \in DOMAIN members[u.in] : j > u.i /\ members[u.in][j] = c
        BY <2>1, <2>5, <3>4 DEF Reaches
      <3>6. \A i, j \in DOMAIN members[u.in] : members[u.in][i] = members[u.in][j] => i = j
        BY <3>1 DEF TreeInv, WellPlaced
      <3>7. u.i \in Nat /\ \A j \in DOMAIN members[u.in] : j \in Nat
        BY <3>1, <3>4, PhaseTaskIs, <1>15, LenProperties DEF OrderInv, TreeType
      <3>. QED  BY <3>4, <3>5, <3>6, <3>7
    <2>. QED  BY <2>3, <2>4, <2>5
  <1>16. AllTimely(r)'
    <2>. SUFFICES ASSUME NEW i \in DOMAIN r
                  PROVE  Timely(r[i])'
      BY DEF AllTimely
    <2>1. \A j \in DOMAIN tasks : Timely(tasks[j])'
      BY <1>4, <1>14 DEF Timely, PhaseTask
    <2>2. \A k \in 2 .. Len(s) : Timely(s[k])'
      BY <1>15 DEF Timely
    <2>. QED  BY <2>1, <2>2, <1>6, WayOrigin
  <1>17. ResumedBy(r, Done')
    <2>1. \A x \in Component \X Phase : x \in Done <=> comp[x[1]] = Before[x[2]]
      BY DEF Done
    <2>2. \A d \in Component, qh \in Phase : <<d, qh>> \in Done' <=> comp'[d] = Before[qh]
      BY DEF Done
    <2>3. ASSUME NEW k \in 2 .. Len(s), s[k].do = "enter", <<s[k].c, s[k].ph>> \in Done
          PROVE  <<s[k].c, s[k].ph>> \in Done'
      <3>1. s[k].c \in Component /\ s[k].ph \in Phase /\ PhaseTask(s[k])
        BY <2>3, <1>1, PhaseTaskIs DEF PhaseTask
      <3>2. comp[s[k].c] = Before[s[k].ph]
        BY <2>3, <3>1 DEF Done
      <3>3. s[k].c # c
        <4>. SUFFICES ASSUME s[k].c = c PROVE FALSE
          OBVIOUS
        <4>1. s[k].ph = ph
          BY <3>1, <3>2, <1>2, <1>5, HeightsAre
        <4>2. Apart(t, s[k])
          BY <4>1, <3>1, <1>8, <1>10
        <4>. QED  BY <4>2, <2>3 DEF Apart
      <3>. QED  BY <3>1, <3>2, <3>3, <2>2, <1>5
    <2>4. ASSUME NEW k \in 2 .. Len(s), s[k].do = "enter", s[k].c = c, After[ph] = Before[s[k].ph]
          PROVE  <<s[k].c, s[k].ph>> \in Done'
      <3>1. s[k].c \in Component /\ s[k].ph \in Phase
        BY <2>4, <1>1, PhaseTaskIs DEF PhaseTask
      <3>. QED  BY <3>1, <2>2, <2>4, <1>5
    <2>5. ResumedBy(tasks, Done')
      BY <1>4 DEF ResumedBy
    <2>6. \A k \in 2 .. Len(s) : s[k].do = "enter" /\ <<s[k].c, s[k].ph>> \in Done
            => <<s[k].c, s[k].ph>> \in Done'
      BY <2>3
    <2>7. \A k \in 2 .. Len(s) : s[k].do = "enter" /\ s[k].c = s[1].c /\ After[s[1].ph] = Before[s[k].ph]
            => <<s[k].c, s[k].ph>> \in Done'
      BY <2>4 DEF t, ph, c
    <2>8. PICK E : E = Done'
      OBVIOUS
    <2>9. ResumedBy(r, E)
      BY <2>5, <2>6, <2>7, <2>8, <1>3, <1>6, ResumedWay
    <2>. QED  BY <2>8, <2>9
  <1>18. Sorted(r)' /\ Seen(r)' /\ ResumedBy(r, Done)'
    BY <1>5, <1>12, <1>13, <1>17 DEF Sorted, Seen, Ordered, Apart, ResumedBy, PhaseTask, Height
  <1>. QED  BY <1>16, <1>18 DEF Careful

\* An addition changes nothing for those that are being led through a phase.
LEMMA CarefulAdds ==
  ASSUME OrderInv, TreeInv, NEW s \in Seq(Task), Careful(s),
         NEW c, NEW p, NEW old, Enters(c, p, old), WellPlaced',
         comp'[c] = "Created" \/ (comp'[c] = "Connected" /\ c \in own'),
         own \subseteq own',
         old # None => \A i \in DOMAIN s : s[i].do = "walk" => s[i].in # "services"
  PROVE  Careful(s)'
  <1>1. /\ c \in Component /\ p \in Place /\ home[c] = None /\ comp[c] = "Created"
        /\ old # None => \E d \in Component : Replaces[d] = old
        /\ old # c /\ (old # None => p = "services")
        /\ \A q \in Place : q # p => members'[q] = members[q]
        /\ \A i \in DOMAIN members'[p] : i \notin DOMAIN members[p] => members'[p][i] = c
        /\ \A q \in Place : Stays(q) \/ (q = "services" /\ old # None)
        /\ home'[c] = p
        /\ \A d \in Component : d # c => home'[d] = IF d = old THEN None ELSE home[d]
        /\ \A d \in Component : d # c => comp'[d] = IF d = old THEN "Deleted" ELSE comp[d]
    BY DEF Enters
  <1>2. None \notin Place /\ None \notin Component
    BY ConstantsAssumption DEF Place
  <1>3. old # None => old \in Component /\ home[old] \in {None, "services"}
    BY <1>1, ConstantsAssumption DEF TreeInv, ReplacedAreLeaves
  <1>4. Sorted(s) /\ AllTimely(s) /\ Seen(s) /\ ResumedBy(s, Done)
    BY DEF Careful
  <1>5. Len(s) \in Nat /\ DOMAIN s = 1 .. Len(s) /\ \A i \in DOMAIN s : s[i] \in Task
    BY TasksInside
  <1>6. ASSUME NEW i \in DOMAIN s, s[i].do = "walk"
        PROVE  /\ s[i].in \in Place /\ Stays(s[i].in) /\ (s[i].in # "services" \/ old = None)
               /\ s[i].ph \in Phase
    <2>1. PhaseTask(s[i])
      BY <1>6 DEF PhaseTask
    <2>. QED  BY <2>1, <1>1, <1>5, <1>6, PhaseTaskIs
  <1>7. ASSUME NEW i \in DOMAIN s, s[i].do \in {"phase", "enter"}
        PROVE  /\ s[i].c \in Component /\ s[i].ph \in Phase
               /\ s[i].c # c /\ s[i].c # old /\ home'[s[i].c] = home[s[i].c]
               /\ comp'[s[i].c] = comp[s[i].c]
    <2>1. PICK j \in DOMAIN s : s[j].do = "walk" /\ s[j].in = home[s[i].c]
      BY <1>4, <1>7 DEF Seen
    <2>2. home[s[i].c] \in Place /\ (home[s[i].c] # "services" \/ old = None)
      BY <2>1, <1>6
    <2>3. s[i].c \in Component /\ s[i].ph \in Phase
      BY <1>5, <1>7, PhaseTaskIs DEF PhaseTask
    <2>4. s[i].c # c /\ s[i].c # old
      BY <2>2, <2>3, <1>1, <1>2, <1>3
    <2>. QED  BY <2>3, <2>4, <1>1
  <1>8. Sorted(s)'
    <2>. SUFFICES ASSUME NEW i \in DOMAIN s, NEW j \in DOMAIN s, i < j
                  PROVE  Ordered(s[i], s[j])'
      BY DEF Sorted
    <2>1. Ordered(s[i], s[j])
      BY <1>4 DEF Sorted
    <2>2. Apart(s[i], s[j]) => Apart(s[i], s[j])'
      <3>. SUFFICES ASSUME Apart(s[i], s[j]), s[i].do \in {"phase", "enter"},
                           home'[s[i].c] = s[j].in
                    PROVE  s[j].do = "walk" /\ \E k \in DOMAIN members'[s[j].in] :
                             k <= s[j].i /\ members'[s[j].in][k] = s[i].c
        BY DEF Apart
      <3>1. home'[s[i].c] = home[s[i].c]
        BY <1>7
      <3>2. s[j].do = "walk" /\ \E k \in DOMAIN members[s[j].in] :
              k <= s[j].i /\ members[s[j].in][k] = s[i].c
        BY <3>1 DEF Apart
      <3>3. Stays(s[j].in)
        BY <3>2, <1>6
      <3>. QED  BY <3>2, <3>3 DEF Stays
    <2>. QED  BY <2>1, <2>2 DEF Ordered, PhaseTask, Height
  <1>9. ASSUME NEW i \in DOMAIN s, PhaseTask(s[i])
        PROVE  Timely(s[i])'
    <2>. DEFINE t == s[i]
    <2>. SUFFICES ASSUME NEW d \in Component, Reaches(t, d)'
                  PROVE  Rank[comp'[d]] < Height(t.ph) \/ (d \in own' /\ t.ph # "Disconnect")
      BY DEF Timely, Height
    <2>1. t \in Task /\ t.ph \in Phase /\ Height(t.ph) \in 1 .. 4
      BY <1>5, <1>9, PhaseTaskIs, HeightsAre
    <2>2. CASE d = c
      <3>1. CASE comp'[c] = "Created"
        BY <2>1, <2>2, <3>1 DEF Rank
      <3>2. CASE comp'[c] = "Connected" /\ c \in own'
        BY <2>1, <2>2, <3>2, HeightsAre DEF Rank
      <3>. QED  BY <3>1, <3>2
    <2>3. CASE d # c
      <3>1. Reaches(t, d) /\ d # old
        <4>1. CASE t.do \in {"phase", "enter"}
          BY <4>1, <1>7 DEF Reaches
        <4>2. CASE t.do = "for"
          <5>1. t.in \in Place /\ home'[d] = t.in
            BY <4>2, <2>1, <1>9, PhaseTaskIs DEF Reaches
          <5>. QED  BY <5>1, <2>3, <4>2, <1>1, <1>2 DEF Reaches
        <4>3. CASE t.do = "walk"
          <5>1. PICK j \in DOMAIN members'[t.in] : j > t.i /\ members'[t.in][j] = d
            BY <4>3 DEF Reaches
          <5>2. t.in \in Place /\ Stays(t.in) /\ (t.in # "services" \/ old = None)
            BY <4>3, <1>6
          <5>3. j \in DOMAIN members[t.in]
            BY <5>1, <5>2, <2>3, <1>1
          <5>4. members[t.in][j] = d /\ home[d] = t.in
            BY <5>1, <5>2, <5>3 DEF Stays, TreeInv, WellPlaced
          <5>5. d # old
            BY <5>2, <5>4, <1>2, <1>3
          <5>. QED  BY <4>3, <5>1, <5>3, <5>4, <5>5 DEF Reaches
        <4>. QED  BY <4>1, <4>2, <4>3, <1>9 DEF PhaseTask
      <3>2. Rank[comp[d]] < Height(t.ph) \/ (d \in own /\ t.ph # "Disconnect")
        BY <3>1, <1>4, <1>9 DEF AllTimely, Timely
      <3>3. comp'[d] = comp[d]
        BY <2>3, <3>1, <1>1
      <3>. QED  BY <3>2, <3>3
    <2>. QED  BY <2>2, <2>3
  <1>10. AllTimely(s)'
    <2>1. \A i \in DOMAIN s : Timely(s[i])'
      BY <1>9 DEF Timely
    <2>. QED  BY <2>1 DEF AllTimely
  <1>11. Seen(s)'
    BY <1>4, <1>7 DEF Seen
  <1>12. ResumedBy(s, Done)'
    <2>1. ASSUME NEW i \in DOMAIN s, s[i].do = "enter", <<s[i].c, s[i].ph>> \in Done
          PROVE  <<s[i].c, s[i].ph>> \in Done'
      BY <2>1, <1>7 DEF Done
    <2>. QED  BY <2>1, <1>4 DEF ResumedBy
  <1>. QED  BY <1>8, <1>10, <1>11, <1>12 DEF Careful

-----------------------------------------------------------------------------
(***************************************************************************)
(* The assembly of the simulator, which one actor carries out: until it is *)
(* over, the others do nothing but run client code and abort.              *)
(***************************************************************************)
\* All that was there when Connect began is connected, for good.
AllConnected == \A c \in Present \ late : Rank[comp[c]] >= 3

Over ==
  /\ state \notin {"Building", "Connecting"} /\ AllConnected
  /\ todo \in [Actor -> Seq(Tasks({"Building", "Connecting"}, Phase))]

Early == \A c \in Present : Rank[comp[c]] < 3

\* The components whose turn it would be to be connected will have it.
Exposed(c) ==
  /\ c \in Present \ late /\ Rank[comp[c]] < 3
  /\ home[c] \in Component => Rank[comp[home[c]]] >= 3

Connecting(t, c) == PhaseTask(t) /\ t.ph = "Connect" /\ Will(t, c)

Covered(s) == \A c \in Component : Exposed(c) => \E i \in DOMAIN s : Connecting(s[i], c)

Calm == {t \in Task : Harmless(t)}

Publishing ==
  {t \in Task : \/ Harmless(t) \/ t.do \in {"cycle", "again"}
                \/ PhaseTask(t) /\ t.ph \in {"Publish", "Configure"}}

OfPhases(P) == {t \in Task : Harmless(t) \/ (PhaseTask(t) /\ t.ph \in P)}

Connection == OfPhases(Assembling)

\* The first k tasks are in X.
UpTo(s, k, X) == \A i \in 1 .. k : s[i] \in X

Rests(s) == s \in Seq(Calm)

Publishes(s) == s \in Seq(Publishing) /\ state # "Connecting"

Commences(s) ==
  /\ s \in Seq(Task) /\ Early /\ state # "Connecting"
  /\ \E k \in Nat :
       /\ Len(s) = k + 5 /\ UpTo(s, k, Calm)
       /\ Sets(s[k + 1], "Connecting")
       /\ s[k + 2] = For("Connect", "services") /\ s[k + 3] = For("Connect", "models")
       /\ Sets(s[k + 4], "Standby") /\ s[k + 5] = Just("initialise")

\* k more tasks until the connection ends.
Finishes(s, k) ==
  /\ Len(s) = k + 2 /\ UpTo(s, k, Connection)
  /\ Sets(s[k + 1], "Standby") /\ s[k + 2] = Just("initialise")

Connects(s) ==
  /\ s \in Seq(Task) /\ Careful(s) /\ Covered(s) /\ state # "Building"
  /\ \E k \in Nat : Finishes(s, k)

Assembles(s) == Rests(s) \/ Publishes(s) \/ Commences(s) \/ Connects(s)

Underway ==
  /\ state \in {"Building", "Connecting", "Aborting"}
  /\ state = "Building" => Early
  /\ \A a \in Actor \ {Main} : Rests(todo[a])
  /\ Assembles(todo[Main])

AsmInv == Over \/ Underway

-----------------------------------------------------------------------------
LEMMA CalmBegets == Begets(Calm)
  <1>1. Client \in Calm /\ Calm \subseteq Task
    BY DEF Calm, Client, Harmless, Task
  <1>2. \A t \in Calm : t = Client \/ (t.do \in {"setState", "assign"} /\ t.to = "Aborting")
    BY DEF Calm, Harmless, Sets
  <1>3. Assign("Aborting") \in Calm
    BY DEF Calm, Harmless, Sets, Assign, Task, SimState
  <1>4. \A t \in Calm : t.do \in {"client", "setState", "assign"}
                        /\ (t.do = "setState" => t.to = "Aborting")
    BY <1>2 DEF Client
  <1>. QED  BY <1>1, <1>3, <1>4 DEF Begets

LEMMA CalmIs ==
  /\ Calm \subseteq Task /\ Calm \subseteq Publishing /\ Calm \subseteq Connection
  /\ Client \in Calm /\ SetState("Aborting") \in Calm
  /\ \A t \in Calm : /\ t.do \in {"client", "setState", "assign"}
                     /\ t.do \in {"setState", "assign"} => t.to = "Aborting"
                     /\ ~PhaseTask(t)
  <1>1. Client \in Calm /\ SetState("Aborting") \in Calm
    BY DEF Calm, Harmless, Sets, SetState, Client, Task, SimState
  <1>2. \A t \in Calm : t = Client \/ (t.do \in {"setState", "assign"} /\ t.to = "Aborting")
    BY DEF Calm, Harmless, Sets
  <1>3. \A t \in Calm : /\ t.do \in {"client", "setState", "assign"}
                        /\ t.do \in {"setState", "assign"} => t.to = "Aborting"
    BY <1>2 DEF Client
  <1>. QED  BY <1>1, <1>3 DEF Calm, Publishing, Connection, OfPhases, PhaseTask

LEMMA PublishingBegets == Begets(Publishing)
  <1>. DEFINE X == Publishing
  <1>1. X \subseteq Task /\ Calm \subseteq X /\ Client \in X
    BY CalmIs DEF Publishing
  <1>2. ASSUME NEW t \in X
        PROVE  /\ t.do \in {"client", "setState", "assign", "cycle", "again",
                            "for", "walk", "phase", "enter"}
               /\ t.do \in {"setState", "assign"} => t.to = "Aborting"
               /\ PhaseTask(t) => t.ph \in {"Publish", "Configure"}
    <2>1. CASE Harmless(t)
      <3>1. t \in Calm
        BY <2>1 DEF Publishing, Calm
      <3>. QED  BY <3>1, CalmIs
    <2>2. CASE ~Harmless(t)
      BY <2>2 DEF Publishing, PhaseTask
    <2>. QED  BY <2>1, <2>2
  <1>3. Assign("Aborting") \in X
    BY <1>1 DEF Calm, Harmless, Sets, Assign, Task, SimState
  <1>4. Just("cycle") \in X /\ \A n \in Nat : Again(n) \in X
    BY DEF Publishing, Just, Again, Task
  <1>5. ASSUME NEW ph \in {"Publish", "Configure"}
        PROVE  /\ \A p \in Place : For(ph, p) \in X /\ \A i, n \in Nat : Walk(ph, p, i, n) \in X
               /\ \A c \in Component : DoPhase(ph, c) \in X /\ Enter(ph, c) \in X
    <2>1. ph \in Phase
      BY DEF Phase
    <2>2. \A p \in Place : For(ph, p) \in X
      BY <2>1 DEF Publishing, For, Task, PhaseTask
    <2>3. \A p \in Place, i, n \in Nat : Walk(ph, p, i, n) \in X
      BY <2>1 DEF Publishing, Walk, Task, PhaseTask
    <2>4. \A c \in Component : DoPhase(ph, c) \in X /\ Enter(ph, c) \in X
      BY <2>1 DEF Publishing, DoPhase, Enter, Task, PhaseTask
    <2>. QED  BY <2>2, <2>3, <2>4
  <1>6. ASSUME NEW t \in X
        PROVE  /\ t.do \in {"for", "walk"} => t.ph \in {"Publish", "Configure"} /\ t.in \in Place
               /\ t.do \in {"phase", "enter"} =>
                    t.ph \in {"Publish", "Configure"} /\ t.c \in Component /\ t.c \in Place
    BY <1>1, <1>2, PhaseTaskIs DEF PhaseTask, Place
  <1>7. "services" \in Place
    BY DEF Place
  <1>. HIDE DEF X
  <1>. QED  BY <1>1, <1>2, <1>3, <1>4, <1>5, <1>6, <1>7 DEF Begets, X

LEMMA PhasesBeget ==
  ASSUME NEW P \in SUBSET Phase, "Connect" \in P => "Configure" \in P,
         "Configure" \in P => "Publish" \in P
  PROVE  Begets(OfPhases(P))
  <1>. DEFINE X == OfPhases(P)
  <1>1. X \subseteq Task /\ Calm \subseteq X /\ Client \in X
    BY CalmIs DEF OfPhases, Calm
  <1>2. ASSUME NEW t \in X
        PROVE  /\ t.do \in {"client", "setState", "assign", "for", "walk", "phase", "enter"}
               /\ t.do \in {"setState", "assign"} => t.to = "Aborting"
               /\ PhaseTask(t) => t.ph \in P
    <2>1. CASE Harmless(t)
      <3>1. t \in Calm
        BY <2>1 DEF OfPhases, Calm
      <3>. QED  BY <3>1, CalmIs
    <2>2. CASE ~Harmless(t)
      BY <2>2 DEF OfPhases, PhaseTask
    <2>. QED  BY <2>1, <2>2
  <1>3. Assign("Aborting") \in X
    BY <1>1 DEF Calm, Harmless, Sets, Assign, Task, SimState
  <1>4. ASSUME NEW ph \in P
        PROVE  /\ \A p \in Place : For(ph, p) \in X /\ \A i, n \in Nat : Walk(ph, p, i, n) \in X
               /\ \A c \in Component : DoPhase(ph, c) \in X /\ Enter(ph, c) \in X
    <2>1. ph \in Phase
      OBVIOUS
    <2>2. \A p \in Place : For(ph, p) \in X
      BY <2>1 DEF OfPhases, For, Task, PhaseTask
    <2>3. \A p \in Place, i, n \in Nat : Walk(ph, p, i, n) \in X
      BY <2>1 DEF OfPhases, Walk, Task, PhaseTask
    <2>4. \A c \in Component : DoPhase(ph, c) \in X /\ Enter(ph, c) \in X
      BY <2>1 DEF OfPhases, DoPhase, Enter, Task, PhaseTask
    <2>. QED  BY <2>2, <2>3, <2>4
  <1>5. ASSUME NEW t \in X
        PROVE  /\ t.do \in {"for", "walk"} => t.ph \in P /\ t.in \in Place
               /\ t.do \in {"phase", "enter"} =>
                    t.ph \in P /\ t.c \in Component /\ t.c \in Place
    BY <1>1, <1>2, PhaseTaskIs DEF PhaseTask, Place
  <1>. HIDE DEF X
  <1>. QED  BY <1>1, <1>2, <1>3, <1>4, <1>5 DEF Begets, X

\* A call that puts something upon what is there gives way, and comes back.
LEMMA UponIsWay ==
  ASSUME NEW s, NEW r, NEW t, s # <<>>, Upon(s, <<t>>, r)
  PROVE  GivesWay(s, <<t, s[1]>>, r)
  <1>1. /\ s \in Seq(Task) /\ r \in Seq(Task) /\ t \in Task /\ Len(s) \in Nat \ {0}
        /\ s[1] \in Task /\ Len(r) = Len(s) + 1
        /\ r[1] = t /\ \A i \in 1 .. Len(s) : r[i + 1] = s[i]
    <2>1. /\ s \in Seq(Task) /\ r \in Seq(Task) /\ <<t>> \in Seq(Task) /\ Len(r) = Len(<<t>>) + Len(s)
          /\ \A i \in 1 .. Len(<<t>>) : r[i] = <<t>>[i]
          /\ \A i \in 1 .. Len(s) : r[i + Len(<<t>>)] = s[i]
      BY DEF Upon
    <2>2. Len(<<t>>) = 1 /\ <<t>>[1] = t
      OBVIOUS
    <2>3. Len(s) \in Nat \ {0} /\ s[1] \in Task
      BY <2>1, LenProperties, EmptySeq, ElementOfSeq
    <2>4. t \in Task
      BY <2>1, <2>2, ElementOfSeq
    <2>. QED  BY <2>1, <2>2, <2>3, <2>4
  <1>. DEFINE tasks == <<t, s[1]>>
  <1>2. tasks \in Seq(Task) /\ Len(tasks) = 2 /\ tasks[1] = t /\ tasks[2] = s[1]
    BY <1>1
  <1>. HIDE DEF tasks
  <1>3. r[2] = s[1]
    BY <1>1
  <1>. QED  BY <1>1, <1>2, <1>3 DEF GivesWay, tasks

\* What comes after the first k tasks of s comes after the first l of r.
SameEnd(s, k, r, l) ==
  /\ Len(r) = l + (Len(s) - k)
  /\ \A j \in 1 .. Len(s) - k : r[l + j] = s[k + j]

\* Part of a stack that is of a kind, and stays so.
LEMMA FirstPartWay ==
  ASSUME NEW s, NEW tasks, NEW r, GivesWay(s, tasks, r), NEW X,
         NEW k \in Nat \ {0}, k <= Len(s), UpTo(s, k, X),
         \A i \in DOMAIN tasks : tasks[i] \in X
  PROVE  \E l \in Nat : /\ l = k - 1 + Len(tasks) /\ UpTo(r, l, X) /\ SameEnd(s, k, r, l)
  <1>1. /\ Len(s) \in Nat \ {0} /\ Len(tasks) \in Nat /\ Len(r) = Len(tasks) + Len(s) - 1
        /\ DOMAIN r = 1 .. Len(r) /\ DOMAIN tasks = 1 .. Len(tasks)
        /\ \A j \in 2 .. Len(s) : r[j + (Len(tasks) - 1)] = s[j]
        /\ \A i \in 1 .. Len(tasks) : r[i] = tasks[i]
    BY WayOrigin
  <1>. DEFINE l == k - 1 + Len(tasks)
  <1>2. l \in Nat /\ Len(r) = l + (Len(s) - k)
    BY <1>1
  <1>3. ASSUME NEW i \in 1 .. l
        PROVE  r[i] \in X
    <2>1. CASE i <= Len(tasks)
      BY <2>1, <1>1
    <2>2. CASE ~(i <= Len(tasks))
      <3>. DEFINE j == i - (Len(tasks) - 1)
      <3>1. j \in 2 .. Len(s) /\ j \in 1 .. k /\ i = j + (Len(tasks) - 1)
        BY <2>2, <1>1
      <3>. HIDE DEF j
      <3>. QED  BY <3>1, <1>1 DEF UpTo
    <2>. QED  BY <2>1, <2>2
  <1>4. ASSUME NEW j \in 1 .. Len(s) - k
        PROVE  r[l + j] = s[k + j]
    <2>1. k + j \in 2 .. Len(s) /\ (k + j) + (Len(tasks) - 1) = l + j
      BY <1>1
    <2>. HIDE DEF l
    <2>. QED  BY <2>1, <1>1
  <1>. HIDE DEF l
  <1>. WITNESS l \in Nat
  <1>. QED  BY <1>2, <1>3, <1>4 DEF l, UpTo, SameEnd

LEMMA SameEndOfTwo ==
  ASSUME NEW s, NEW k \in Nat, NEW r, NEW l \in Nat, SameEnd(s, k, r, l), Len(s) = k + 2
  PROVE  Len(r) = l + 2 /\ r[l + 1] = s[k + 1] /\ r[l + 2] = s[k + 2]
  <1>1. Len(r) = l + 2 /\ (\A j \in 1 .. 2 : r[l + j] = s[k + j]) /\ {1, 2} \subseteq 1 .. 2
    BY DEF SameEnd
  <1>. QED  BY <1>1, Zenon

LEMMA SameEndOfFive ==
  ASSUME NEW s, NEW k \in Nat, NEW r, NEW l \in Nat, SameEnd(s, k, r, l), Len(s) = k + 5
  PROVE  /\ Len(r) = l + 5
         /\ r[l + 1] = s[k + 1] /\ r[l + 2] = s[k + 2] /\ r[l + 3] = s[k + 3]
         /\ r[l + 4] = s[k + 4] /\ r[l + 5] = s[k + 5]
  <1>1. Len(r) = l + 5 /\ (\A j \in 1 .. 5 : r[l + j] = s[k + j])
        /\ {1, 2, 3, 4, 5} \subseteq 1 .. 5
    BY DEF SameEnd
  <1>. QED  BY <1>1, Zenon

\* What is over is over.
LEMMA OverStays ==
  ASSUME OrderInv, InitType, TreeInv, Onward, Over, [Next]_vars
  PROVE  Over'
  <1>. DEFINE X == Tasks({"Building", "Connecting"}, Phase)
  <1>1. CASE UNCHANGED vars
    BY <1>1 DEF vars, Over, AllConnected, Present, Tasks
  <1>2. ASSUME NEW a \in Actor, Tells(a)
        PROVE  Over'
    <2>1. PICK call, st, tasks : Accepted(a, call, tasks) /\ CallIs(a, st, tasks)
      BY <1>2, TellsIs
    <2>2. ~Connect(a)
      BY DEF Over, Connect
    <2>3. tasks \in Seq(X)
      <3>1. /\ tasks \in Seq(Task)
            /\ \A i \in DOMAIN tasks : ~Sets(tasks[i], "Building") /\ ~Sets(tasks[i], "Connecting")
        BY <2>1, <2>2, CallIsTasks
      <3>2. \A t \in Task : ~Sets(t, "Building") /\ ~Sets(t, "Connecting") => t \in X
        BY DEF Tasks, Task, PhaseTask
      <3>. HIDE DEF X
      <3>. QED  BY <3>1, <3>2, LenProperties, ElementOfSeq, SeqDef
    <2>4. todo' \in [Actor -> Seq(X)]
      BY <2>1, <2>3, TellsIn DEF Over
    <2>5. UNCHANGED tree /\ state' = state
      BY <2>1 DEF Accepted, tree
    <2>. QED  BY <2>4, <2>5 DEF Over, AllConnected, Present, tree, Tasks
  <1>3. ASSUME NEW a \in Actor, Add(a) \/ AddConnected(a)
        PROVE  Over'
    <2>1. PICK c, p, old : Adds(a, c, p, old)
      BY <1>3, AdditionAdds
    <2>2. late' = late \union {c} /\ UNCHANGED <<state, todo>>
      BY <2>1 DEF Over, Adds
    <2>3. AllConnected'
      <3>. SUFFICES ASSUME NEW d \in Component, home'[d] # None, d \notin late'
                    PROVE  Rank[comp'[d]] >= 3
        BY DEF AllConnected, Present
      <3>1. d # c /\ d # old /\ home'[d] = home[d] /\ comp'[d] = comp[d]
        BY <2>1, <2>2 DEF Adds, Enters
      <3>. QED  BY <3>1, <2>2 DEF Over, AllConnected, Present
    <2>. QED  BY <2>2, <2>3 DEF Over, Tasks
  <1>4. ASSUME NEW a \in Actor, AddInitEntryPoint(a)
        PROVE  Over'
    BY <1>4 DEF AddInitEntryPoint, tree, Over, AllConnected, Present, Tasks
  <1>5. ASSUME NEW a \in Actor, Work(a)
        PROVE  Over'
    <2>1. todo' \in [Actor -> Seq(X)]
      <3>1. Begets(X)
        BY TasksBeget
      <3>. QED  BY <3>1, <1>5, WorkAllIn DEF Over
    <2>2. state' \notin {"Building", "Connecting"}
      <3>1. CASE state' = state
        BY <3>1 DEF Over
      <3>2. CASE AssignState(a) /\ state' = Head(todo[a]).to
        <4>1. Head(todo[a]) \in X /\ Head(todo[a]).do = "assign"
          BY <3>2, NextTask DEF Over, AssignState
        <4>. QED  BY <4>1, <3>2 DEF Tasks, Sets
      <3>. QED  BY <3>1, <3>2, <1>5, WorkOnState
    <2>3. AllConnected'
      <3>1. CASE UNCHANGED tree
        BY <3>1 DEF tree, Over, AllConnected, Present
      <3>2. ASSUME NEW c, NEW ph, Advances(c, ph)
            PROVE  AllConnected'
        <4>1. /\ comp'[c] = After[ph] /\ comp[c] = Before[ph] /\ ph \in Phase
              /\ \A d \in Component : d # c => comp'[d] = comp[d]
              /\ UNCHANGED <<home, late>>
          BY <3>2, AdvancesTree DEF Advances, OrderInv, TreeType
        <4>2. Rank[comp'[c]] > Rank[comp[c]] /\ Rank[comp'[c]] \in Nat /\ Rank[comp[c]] \in Nat
          BY <4>1 DEF Phase, Before, After, Rank
        <4>. QED  BY <4>1, <4>2 DEF Over, AllConnected, Present
      <3>. QED  BY <3>1, <3>2, <1>5, WorkOnTree
    <2>. QED  BY <2>1, <2>2, <2>3 DEF Over, Tasks
  <1>. QED  BY <1>1, <1>2, <1>3, <1>4, <1>5, StepIs

-----------------------------------------------------------------------------
\* The steps of the assembling actor, and of those that rest.
LEMMA WorkHasTask ==
  ASSUME NEW a \in Actor, Work(a)
  PROVE  todo[a] # <<>>
  BY DEF Work, ClientReturns, ClientThrows, BeginSetState, AssignState, PublishCycle,
         PublishCompleted, BeginFor, WalkOn, WalkEnds, BeginPhase, EnterPhase,
         InitialiseAfterConnect, BeginInit, ExecuteInit, InitEnds, ClearInit, At

LEMMA CalmWorks ==
  ASSUME OrderInv, InitType, NEW a \in Actor, Work(a), Head(todo[a]) \in Calm
  PROVE  /\ UNCHANGED tree /\ state' \in {state, "Aborting"}
         /\ \/ todo'[a] = <<>>
            \/ \E tasks \in Seq(Calm) : GivesWay(todo[a], tasks, todo'[a])
  <1>1. UNCHANGED tree
    BY CalmIs, WorkOnTree DEF At
  <1>2. state' \in {state, "Aborting"}
    BY CalmIs, WorkOnState DEF AssignState, At
  <1>3. CASE Throws(a)
    BY <1>1, <1>2, <1>3, StacksAreTasks DEF Throws
  <1>4. ASSUME NEW tasks \in Seq(Calm), Becomes(a, tasks)
        PROVE  GivesWay(todo[a], tasks, todo'[a])
    <2>1. tasks \in Seq(Task)
      BY CalmIs, SeqMonotonic
    <2>. QED  BY <2>1, <1>4, WorkHasTask, BecomesGivesWay
  <1>. QED  BY <1>1, <1>2, <1>3, <1>4, CalmBegets, WorkBecomes

LEMMA RestsOn ==
  ASSUME OrderInv, InitType, NEW a \in Actor, Work(a), Rests(todo[a])
  PROVE  /\ Rests(todo'[a])
         /\ UNCHANGED tree /\ state' \in {state, "Aborting"}
  <1>1. Rests(todo'[a])
    BY CalmBegets, WorkIn DEF Rests
  <1>2. Head(todo[a]) \in Calm
    BY WorkHasTask, HeadTailProperties DEF Rests
  <1>. QED  BY <1>1, <1>2, CalmWorks

LEMMA PublishesOn ==
  ASSUME OrderInv, InitType, TreeInv, NEW a \in Actor, Work(a), Publishes(todo[a])
  PROVE  /\ Publishes(todo[a])'
         /\ state' \in {state, "Aborting"}
         /\ Early => Early'
  <1>1. todo'[a] \in Seq(Publishing)
    BY PublishingBegets, WorkIn DEF Publishes
  <1>2. todo[a] # <<>>
    BY WorkHasTask
  <1>. DEFINE t == Head(todo[a])
  <1>3. t \in Publishing
    BY <1>2, HeadTailProperties DEF Publishes
  <1>4. /\ t.do \in {"phase", "enter"} => t.ph \in {"Publish", "Configure"}
        /\ t.do = "assign" => t.to = "Aborting"
    BY <1>3, CalmIs DEF Publishing, Calm, PhaseTask
  <1>5. state' \in {state, "Aborting"}
    BY <1>4, WorkOnState DEF AssignState, At
  <1>6. CASE UNCHANGED tree
    BY <1>1, <1>5, <1>6 DEF Publishes, Publishing, Early, Present, tree
  <1>7. CASE Advances(t.c, t.ph) /\ (At(a, "phase") \/ At(a, "enter"))
    <2>. DEFINE c == t.c
                ph == t.ph
    <2>1. Advances(c, ph) /\ ph \in {"Publish", "Configure"}
      BY <1>4, <1>7 DEF At
    <2>. HIDE DEF c, ph
    <2>2. /\ comp'[c] = After[ph] /\ home' = home
          /\ \A d \in Component : d # c => comp'[d] = comp[d]
      BY <2>1, AdvancesTree DEF Advances, OrderInv, TreeType
    <2>3. Rank[comp'[c]] < 3
      BY <2>1, <2>2 DEF After, Rank
    <2>. QED  BY <1>1, <1>5, <2>2, <2>3 DEF Publishes, Publishing, Early, Present
  <1>. QED  BY <1>6, <1>7, WorkOnTree

\* The last of the tasks that come first.
LEMMA CommencesCalmly ==
  ASSUME NEW s, NEW tasks \in Seq(Calm), NEW r, GivesWay(s, tasks, r), Commences(s),
         UNCHANGED <<comp, home>>, state' # "Connecting", s[1] \in Calm
  PROVE  Commences(r)'
  <1>1. /\ s \in Seq(Task) /\ Early /\ r \in Seq(Task)
    BY DEF Commences, GivesWay
  <1>2. PICK k \in Nat :
       /\ Len(s) = k + 5 /\ UpTo(s, k, Calm)
       /\ Sets(s[k + 1], "Connecting")
       /\ s[k + 2] = For("Connect", "services") /\ s[k + 3] = For("Connect", "models")
       /\ Sets(s[k + 4], "Standby") /\ s[k + 5] = Just("initialise")
    BY DEF Commences
  <1>3. k # 0
    BY <1>2, CalmIs DEF Sets
  <1>4. k \in Nat \ {0} /\ k <= Len(s) /\ Len(s) - k = 5
    BY <1>2, <1>3
  <1>5. \A i \in DOMAIN tasks : tasks[i] \in Calm
    BY LenProperties, ElementOfSeq
  <1>6. PICK l \in Nat : UpTo(r, l, Calm) /\ SameEnd(s, k, r, l)
    <2>1. UpTo(s, k, Calm)
      BY <1>2
    <2>. QED  BY <2>1, <1>4, <1>5, FirstPartWay
  <1>7. /\ Len(r) = l + 5
        /\ r[l + 1] = s[k + 1] /\ r[l + 2] = s[k + 2] /\ r[l + 3] = s[k + 3]
        /\ r[l + 4] = s[k + 4] /\ r[l + 5] = s[k + 5]
    BY <1>2, <1>6, SameEndOfFive, SMTT(40)
  <1>8. Early'
    BY <1>1 DEF Early, Present
  <1>9. \E m \in Nat :
       /\ Len(r) = m + 5 /\ UpTo(r, m, Calm)
       /\ Sets(r[m + 1], "Connecting")
       /\ r[m + 2] = For("Connect", "services") /\ r[m + 3] = For("Connect", "models")
       /\ Sets(r[m + 4], "Standby") /\ r[m + 5] = Just("initialise")
    BY <1>2, <1>6, <1>7
  <1>. QED  BY <1>1, <1>8, <1>9 DEF Commences, Calm

\* Leave events, and the state that is next: clients, then an assignment.
LEMMA SetStateWay ==
  ASSUME OrderInv, NEW a \in Actor, Work(a), At(a, "setState"), Head(todo[a]).to # state
  PROVE  \E tasks \in Seq(Task), u \in Nat :
           /\ GivesWay(todo[a], tasks, todo'[a])
           /\ Len(tasks) = u + 1 /\ (\A i \in 1 .. u : tasks[i] = Client)
           /\ tasks[u + 1] = Assign(Head(todo[a]).to)
           /\ UNCHANGED <<state, tree>>
  <1>1. BeginSetState(a) /\ todo[a] # <<>>
    BY DEF Work, ClientReturns, ClientThrows, BeginSetState, AssignState, PublishCycle,
           PublishCompleted, BeginFor, WalkOn, WalkEnds, BeginPhase, EnterPhase,
           InitialiseAfterConnect, BeginInit, ExecuteInit, InitEnds, ClearInit, At
  <1>. DEFINE to == Head(todo[a]).to
              tasks == Emit(<<"Leave", state>>) \o <<Assign(to)>>
  <1>2. Becomes(a, tasks) /\ UNCHANGED <<state, tree>>
    BY <1>1 DEF BeginSetState
  <1>3. to \in SimState
    <2>1. Head(todo[a]) \in Task /\ Head(todo[a]).do = "setState"
      BY NextTask, StacksAreTasks
    <2>. QED  BY <2>1 DEF Task
  <1>4. tasks \in Seq(Task) /\ \E u \in Nat : ClientsThen(tasks, u, 1) /\ tasks[u + 1] = Assign(to)
    BY <1>3, AssigningIs
  <1>5. GivesWay(todo[a], tasks, todo'[a])
    BY <1>1, <1>2, <1>4, BecomesGivesWay
  <1>. QED  BY <1>2, <1>4, <1>5 DEF ClientsThen

LEMMA AssignWay ==
  ASSUME OrderInv, NEW a \in Actor, Work(a), At(a, "assign")
  PROVE  \E tasks \in Seq(Task) :
           /\ GivesWay(todo[a], tasks, todo'[a])
           /\ \A i \in DOMAIN tasks : tasks[i] = Client
           /\ state' = Head(todo[a]).to /\ UNCHANGED tree
  <1>1. AssignState(a) /\ todo[a] # <<>>
    BY DEF Work, ClientReturns, ClientThrows, BeginSetState, AssignState, PublishCycle,
           PublishCompleted, BeginFor, WalkOn, WalkEnds, BeginPhase, EnterPhase,
           InitialiseAfterConnect, BeginInit, ExecuteInit, InitEnds, ClearInit, At
  <1>. DEFINE tasks == Emit(<<"Enter", state'>>)
  <1>2. Becomes(a, tasks) /\ UNCHANGED tree /\ state' = Head(todo[a]).to
    BY <1>1 DEF AssignState
  <1>3. tasks \in Seq(Task) /\ \A i \in DOMAIN tasks : tasks[i] = Client
    <2>1. tasks \in Seq(Task)
      BY EmitIs
    <2>. QED  BY <2>1 DEF Emit
  <1>4. GivesWay(todo[a], tasks, todo'[a])
    BY <1>1, <1>2, <1>3, BecomesGivesWay
  <1>. QED  BY <1>2, <1>3, <1>4

LEMMA SameCovered ==
  ASSUME UNCHANGED tree, NEW s, Covered(s)
  PROVE  Covered(s)'
  BY DEF tree, Covered, Exposed, Connecting, Will, Present

\* Connect, once the state is assigned.
LEMMA FreshConnection ==
  ASSUME OrderInv, TreeInv, Early, NEW r \in Seq(Task), NEW l \in Nat,
         Len(r) = l + 4, UpTo(r, l, Calm),
         r[l + 1] = For("Connect", "services"), r[l + 2] = For("Connect", "models"),
         Sets(r[l + 3], "Standby"), r[l + 4] = Just("initialise")
  PROVE  Careful(r) /\ Covered(r) /\ UpTo(r, l + 2, Connection)
  <1>. DEFINE f == For("Connect", "services")
              g == For("Connect", "models")
  <1>1. /\ DOMAIN r = 1 .. l + 4 /\ l + 1 \in DOMAIN r /\ l + 2 \in DOMAIN r
        /\ \A i \in DOMAIN r : i \in 1 .. l \/ i \in {l + 1, l + 2, l + 3, l + 4}
        /\ \A i \in 1 .. l + 2 : i \in 1 .. l \/ i \in {l + 1, l + 2}
        /\ \A i \in 1 .. l : i < l + 1
    BY LenProperties
  <1>2. /\ f.do = "for" /\ f.ph = "Connect" /\ f.in = "services" /\ PhaseTask(f) /\ f \in Task
        /\ g.do = "for" /\ g.ph = "Connect" /\ g.in = "models" /\ PhaseTask(g) /\ g \in Task
    BY DEF For, PhaseTask, Task, Phase, Place
  <1>3. r[l + 1] = f /\ r[l + 2] = g
    OBVIOUS
  <1>4. ~PhaseTask(r[l + 3]) /\ ~PhaseTask(r[l + 4]) /\ \A i \in 1 .. l : ~PhaseTask(r[i])
    BY CalmIs DEF Sets, PhaseTask, Just, UpTo
  <1>. HIDE DEF f, g
  <1>5. \A i \in DOMAIN r : PhaseTask(r[i]) => i = l + 1 \/ i = l + 2
    BY <1>1, <1>4
  <1>6. ASSUME NEW t \in {f, g}
        PROVE  Timely(t)
    <2>. SUFFICES ASSUME NEW c \in Component, Reaches(t, c)
                  PROVE  Rank[comp[c]] < Height(t.ph)
      BY DEF Timely
    <2>1. home[c] = t.in /\ t.in # None
      BY <1>2, ConstantsAssumption DEF Reaches, Place
    <2>2. Rank[comp[c]] < 3
      BY <2>1 DEF Early, Present
    <2>. QED  BY <2>2, <1>2, HeightsAre
  <1>7. Ordered(f, g)
    BY <1>2 DEF Ordered, Apart
  <1>8. Sorted(r)
    <2>. SUFFICES ASSUME NEW i \in DOMAIN r, NEW j \in DOMAIN r, i < j,
                         PhaseTask(r[i]), PhaseTask(r[j])
                  PROVE  Ordered(r[i], r[j])
      BY DEF Sorted, Ordered
    <2>1. i = l + 1 /\ j = l + 2
      BY <1>5
    <2>. QED  BY <2>1, <1>3, <1>7
  <1>9. AllTimely(r)
    BY <1>3, <1>5, <1>6 DEF AllTimely, Timely
  <1>10. Seen(r) /\ ResumedBy(r, Done)
    BY <1>2, <1>3, <1>5 DEF Seen, ResumedBy, PhaseTask
  <1>11. Covered(r)
    <2>. SUFFICES ASSUME NEW c \in Component, Exposed(c)
                  PROVE  \E i \in DOMAIN r : Connecting(r[i], c)
      BY DEF Covered
    <2>1. home[c] \in Place \union {None} /\ home[c] # None
      BY DEF OrderInv, TreeType, Exposed, Present
    <2>2. home[c] \notin Component
      <3>. SUFFICES ASSUME home[c] \in Component PROVE FALSE
        OBVIOUS
      <3>1. home[c] \in Present
        BY DEF TreeInv, HomesArePresent, Present
      <3>2. Rank[comp[home[c]]] < 3 /\ Rank[comp[home[c]]] >= 3 /\ Rank[comp[home[c]]] \in 0 .. 5
        BY <3>1 DEF Early, Exposed, OrderInv, TreeType, Rank
      <3>. QED  BY <3>2
    <2>3. home[c] = "services" \/ home[c] = "models"
      BY <2>1, <2>2 DEF Place
    <2>4. Connecting(f, c) \/ Connecting(g, c)
      BY <2>3, <1>2 DEF Connecting, Will
    <2>. QED  BY <2>4, <1>1, <1>3
  <1>12. UpTo(r, l + 2, Connection)
    <2>1. f \in Connection /\ g \in Connection
      BY <1>2 DEF Connection, OfPhases, Assembling
    <2>2. \A i \in 1 .. l : r[i] \in Connection
      BY CalmIs DEF UpTo
    <2>. QED  BY <2>1, <2>2, <1>1, <1>3 DEF UpTo
  <1>. QED  BY <1>8, <1>9, <1>10, <1>11, <1>12 DEF Careful

LEMMA CommencesOn ==
  ASSUME OrderInv, InitType, TreeInv, NEW a \in Actor, Work(a), Commences(todo[a])
  PROVE  /\ Assembles(todo[a])'
         /\ UNCHANGED tree /\ state' \in {state, "Connecting", "Aborting"}
  <1>1. PICK s, r : s = todo[a] /\ r = todo'[a]
    OBVIOUS
  <1>2. Commences(s) /\ s \in Seq(Task) /\ Early /\ state # "Connecting"
    BY <1>1 DEF Commences
  <1>3. PICK k \in Nat :
       /\ Len(s) = k + 5 /\ UpTo(s, k, Calm)
       /\ Sets(s[k + 1], "Connecting")
       /\ s[k + 2] = For("Connect", "services") /\ s[k + 3] = For("Connect", "models")
       /\ Sets(s[k + 4], "Standby") /\ s[k + 5] = Just("initialise")
    BY <1>2 DEF Commences
  <1>4. Head(s) = s[1] /\ s # <<>> /\ s[1] \in Task
    BY <1>1, <1>2, WorkHasTask, HeadTailProperties, ElementOfSeq
  <1>5. CASE k # 0
    <2>1. s[1] \in Calm
      BY <1>3, <1>5 DEF UpTo
    <2>2. UNCHANGED tree /\ state' \in {state, "Aborting"}
      BY <2>1, <1>1, <1>4, CalmWorks
    <2>3. CASE r = <<>>
      BY <2>2, <2>3, <1>1, EmptySeq DEF Assembles, Rests, Calm
    <2>4. ASSUME NEW tasks \in Seq(Calm), GivesWay(s, tasks, r)
          PROVE  Commences(r)'
      BY <2>1, <2>2, <2>4, <1>2, CommencesCalmly DEF tree
    <2>5. Commences(todo[a])' \/ r = <<>>
      <3>1. r = <<>> \/ \E tasks \in Seq(Calm) : GivesWay(s, tasks, r)
        BY <2>1, <1>1, <1>4, CalmWorks
      <3>. QED  BY <3>1, <2>4, <1>1
    <2>. QED  BY <2>2, <2>3, <2>5 DEF Assembles
  <1>6. CASE k = 0 /\ s[1].do = "setState"
    <2>1. Head(todo[a]).to = "Connecting" /\ At(a, "setState")
      BY <1>1, <1>3, <1>4, <1>6 DEF Sets, At
    <2>2. PICK tasks \in Seq(Task), u \in Nat :
            /\ GivesWay(s, tasks, r)
            /\ Len(tasks) = u + 1 /\ (\A i \in 1 .. u : tasks[i] = Client)
            /\ tasks[u + 1] = Assign("Connecting")
            /\ UNCHANGED <<state, tree>>
      BY <2>1, <1>1, <1>2, SetStateWay
    <2>3. r[u + 1] = Assign("Connecting") /\ UpTo(r, u, Calm) /\ r \in Seq(Task)
      BY <2>2, CalmIs DEF GivesWay, UpTo
    <2>4. Len(r) = u + 5 /\ r[u + 2] = s[2] /\ r[u + 3] = s[3] /\ r[u + 4] = s[4] /\ r[u + 5] = s[5]
      <3>1. Len(s) = 5 /\ Len(r) = u + 5
        BY <1>3, <1>6, <2>2 DEF GivesWay
      <3>2. \A i \in 2 .. 5 : r[i + u] = s[i]
        BY <3>1, <2>2 DEF GivesWay
      <3>3. 2 + u = u + 2 /\ 3 + u = u + 3 /\ 4 + u = u + 4 /\ 5 + u = u + 5
            /\ {2, 3, 4, 5} \subseteq 2 .. 5
        OBVIOUS
      <3>4. r[2 + u] = s[2] /\ r[3 + u] = s[3] /\ r[4 + u] = s[4] /\ r[5 + u] = s[5]
        BY <3>2, <3>3, Zenon
      <3>. QED  BY <3>1, <3>3, <3>4
    <2>5. Sets(r[u + 1], "Connecting")
      BY <2>3 DEF Sets, Assign
    <2>6. Early' /\ state' # "Connecting"
      BY <2>2, <1>2 DEF Early, tree, Present
    <2>7. Commences(r)'
      BY <2>3, <2>4, <2>5, <2>6, <1>3, <1>6 DEF Commences
    <2>. QED  BY <2>2, <2>7, <1>1 DEF Assembles
  <1>7. CASE k = 0 /\ s[1].do = "assign"
    <2>1. Head(todo[a]).to = "Connecting" /\ At(a, "assign")
      BY <1>1, <1>3, <1>4, <1>7 DEF Sets, At
    <2>2. PICK tasks \in Seq(Task) :
            /\ GivesWay(s, tasks, r)
            /\ \A i \in DOMAIN tasks : tasks[i] = Client
            /\ state' = "Connecting" /\ UNCHANGED tree
      BY <2>1, <1>1, AssignWay
    <2>3. PICK l \in Nat : l = Len(tasks)
      BY LenProperties
    <2>4. UpTo(r, l, Calm) /\ r \in Seq(Task)
      <3>1. DOMAIN tasks = 1 .. l /\ \A i \in 1 .. l : r[i] = tasks[i]
        BY <2>2, <2>3, WayOrigin
      <3>2. r \in Seq(Task)
        BY <2>2 DEF GivesWay
      <3>. QED  BY <3>1, <3>2, <2>2, CalmIs DEF UpTo
    <2>5. Len(r) = l + 4 /\ r[l + 1] = s[2] /\ r[l + 2] = s[3] /\ r[l + 3] = s[4] /\ r[l + 4] = s[5]
      <3>1. Len(s) = 5 /\ Len(r) = l + 4
        BY <1>3, <1>7, <2>2, <2>3 DEF GivesWay
      <3>2. \A i \in 2 .. 5 : r[i + (l - 1)] = s[i]
        BY <3>1, <2>2, <2>3 DEF GivesWay
      <3>3. 2 + (l - 1) = l + 1 /\ 3 + (l - 1) = l + 2 /\ 4 + (l - 1) = l + 3 /\ 5 + (l - 1) = l + 4
            /\ {2, 3, 4, 5} \subseteq 2 .. 5
        OBVIOUS
      <3>4. r[2 + (l - 1)] = s[2] /\ r[3 + (l - 1)] = s[3] /\ r[4 + (l - 1)] = s[4] /\ r[5 + (l - 1)] = s[5]
        BY <3>2, <3>3, Zenon
      <3>. QED  BY <3>1, <3>3, <3>4
    <2>6. /\ r[l + 1] = For("Connect", "services") /\ r[l + 2] = For("Connect", "models")
          /\ Sets(r[l + 3], "Standby") /\ r[l + 4] = Just("initialise")
      BY <2>5, <1>3, <1>7
    <2>7. Careful(r) /\ Covered(r) /\ UpTo(r, l + 2, Connection)
      BY <2>4, <2>5, <2>6, <1>2, FreshConnection
    <2>8. Careful(r)' /\ Covered(r)'
      BY <2>2, <2>7, SameCareful, SameCovered
    <2>9. \E m \in Nat : Finishes(r, m)
      <3>. WITNESS l + 2 \in Nat
      <3>. QED  BY <2>5, <2>6, <2>7 DEF Finishes
    <2>10. Connects(r)'
      BY <2>2, <2>4, <2>8, <2>9 DEF Connects, Finishes, Connection, OfPhases
    <2>. QED  BY <2>2, <2>10, <1>1 DEF Assembles
  <1>. QED  BY <1>3, <1>5, <1>6, <1>7 DEF Sets

LEMMA WorkIsOf ==
  ASSUME NEW a \in Actor, Work(a)
  PROVE  LET t == Head(todo[a]) IN
         /\ t.do = "for" => BeginFor(a)
         /\ t.do = "walk" => WalkOn(a) \/ WalkEnds(a)
         /\ t.do = "phase" => BeginPhase(a)
         /\ t.do = "enter" => EnterPhase(a)
  BY DEF Work, ClientReturns, ClientThrows, BeginSetState, AssignState, PublishCycle,
         PublishCompleted, BeginFor, WalkOn, WalkEnds, BeginPhase, EnterPhase,
         InitialiseAfterConnect, BeginInit, ExecuteInit, InitEnds, ClearInit, At

LEMMA CoveredWay ==
  ASSUME NEW s, NEW tasks, NEW r, GivesWay(s, tasks, r), Covered(s),
         \A c \in Component : Connecting(s[1], c) =>
           \E i \in DOMAIN tasks : Connecting(tasks[i], c)
  PROVE  Covered(r)
  <1>. SUFFICES ASSUME NEW c \in Component, Exposed(c)
                PROVE  \E i \in DOMAIN r : Connecting(r[i], c)
    BY DEF Covered
  <1>1. PICK i \in DOMAIN s : Connecting(s[i], c)
    BY DEF Covered
  <1>2. /\ Len(s) \in Nat /\ DOMAIN s = 1 .. Len(s) /\ DOMAIN tasks = 1 .. Len(tasks)
        /\ \A j \in 1 .. Len(tasks) : j \in DOMAIN r /\ r[j] = tasks[j]
        /\ \A k \in 2 .. Len(s) : k + (Len(tasks) - 1) \in DOMAIN r /\ r[k + (Len(tasks) - 1)] = s[k]
    BY WayOrigin
  <1>3. CASE i = 1
    BY <1>1, <1>2, <1>3
  <1>4. CASE i # 1
    BY <1>1, <1>2, <1>4
  <1>. QED  BY <1>3, <1>4

LEMMA CoveredProceeds ==
  ASSUME OrderInv, TreeInv, NEW s, NEW r, s[1].do \in {"phase", "enter"},
         s[1].ph \in Assembling, Advances(s[1].c, s[1].ph),
         GivesWay(s, <<Client, For(s[1].ph, s[1].c)>>, r), Covered(s)
  PROVE  Covered(r)'
  <1>. DEFINE c == s[1].c
              ph == s[1].ph
              f == For(ph, c)
              tasks == <<Client, f>>
  <1>1. /\ Len(s) \in Nat /\ DOMAIN s = 1 .. Len(s)
        /\ \A j \in 1 .. Len(tasks) : j \in DOMAIN r /\ r[j] = tasks[j]
        /\ \A k \in 2 .. Len(s) : k + (Len(tasks) - 1) \in DOMAIN r /\ r[k + (Len(tasks) - 1)] = s[k]
    <2>1. GivesWay(s, tasks, r)
      OBVIOUS
    <2>. HIDE DEF tasks
    <2>. QED  BY <2>1, WayOrigin
  <1>2. Len(tasks) = 2 /\ tasks[2] = f /\ f.do = "for" /\ f.ph = ph /\ f.in = c
    BY DEF For
  <1>3. /\ c \in Component /\ comp[c] = Before[ph] /\ comp'[c] = After[ph] /\ ph \in Phase
        /\ \A d \in Component : d # c => comp'[d] = comp[d]
        /\ UNCHANGED <<members, home, late, own>>
    <2>1. Advances(c, ph)
      OBVIOUS
    <2>. HIDE DEF c, ph
    <2>2. \A d \in Component : d # c => comp'[d] = comp[d]
      BY <2>1, AdvancesTree
    <2>. QED  BY <2>1, <2>2 DEF Advances, OrderInv, TreeType
  <1>4. ph \in Assembling /\ ph = s[1].ph /\ c = s[1].c /\ s[1].do \in {"phase", "enter"}
    OBVIOUS
  <1>5. 2 \in DOMAIN r /\ r[2] = f
    BY <1>1, <1>2
  <1>. HIDE DEF c, ph, f, tasks
  <1>6. /\ Rank[comp[c]] < Rank[comp'[c]] /\ Rank[comp'[c]] \in Nat /\ Rank[comp[c]] \in Nat
        /\ Rank[comp'[c]] >= 3 <=> ph = "Connect"
    BY <1>3, <1>4 DEF Assembling, Before, After, Rank
  <1>. SUFFICES ASSUME NEW d \in Component, Exposed(d)'
                PROVE  \E i \in DOMAIN r : Connecting(r[i], d)'
    BY DEF Covered
  <1>7. /\ d \in Present \ late /\ Rank[comp'[d]] < 3
        /\ home[d] \in Component => Rank[comp'[home[d]]] >= 3
    BY <1>3 DEF Exposed, Present
  <1>8. CASE home[d] = c
    <2>1. ph = "Connect"
      BY <1>3, <1>6, <1>7, <1>8
    <2>2. Connecting(f, d)'
      BY <2>1, <1>2, <1>3, <1>8 DEF Connecting, PhaseTask, Will
    <2>. QED  BY <2>2, <1>5 DEF Connecting
  <1>9. CASE home[d] # c
    <2>1. Exposed(d)
      BY <1>3, <1>6, <1>7, <1>9 DEF Exposed
    <2>2. PICK i \in DOMAIN s : Connecting(s[i], d)
      BY <2>1 DEF Covered
    <2>3. i # 1
      BY <2>2, <1>3, <1>4, <1>6, <1>7 DEF Connecting, Will
    <2>4. Connecting(s[i], d)'
      BY <2>2, <1>3 DEF Connecting, Will, PhaseTask
    <2>5. PICK j \in DOMAIN r : r[j] = s[i]
      BY <2>3, <1>1
    <2>. QED  BY <2>4, <2>5 DEF Connecting
  <1>. QED  BY <1>8, <1>9

\* Nothing left to be connected.
LEMMA CoveredMeans ==
  ASSUME OrderInv, TreeInv, NEW s, Covered(s), \A i \in DOMAIN s : ~PhaseTask(s[i])
  PROVE  AllConnected
  <1>. DEFINE S == {c \in Present \ late : Rank[comp[c]] < 3}
  <1>1. \A c \in Component : ~Exposed(c)
    BY DEF Covered, Connecting
  <1>2. \A c \in Component : Rank[comp[c]] \in 0 .. 5
    BY DEF OrderInv, TreeType, Rank
  <1>. SUFFICES ASSUME S # {}
                PROVE  FALSE
    BY <1>2 DEF AllConnected, Present
  <1>3. PICK c \in S : home[c] \notin S
    BY DEF TreeInv, Acyclic, Present
  <1>4. c \in Component /\ c \in Present \ late /\ Rank[comp[c]] < 3
    BY DEF Present
  <1>5. home[c] \in Component /\ ~(Rank[comp[home[c]]] >= 3)
    BY <1>1, <1>4 DEF Exposed
  <1>6. home[c] \in Present /\ home[c] \notin late
    BY <1>4, <1>5 DEF TreeInv, HomesArePresent, LateInLate, Present
  <1>. QED  BY <1>2, <1>3, <1>5, <1>6

LEMMA FinishesWay ==
  ASSUME NEW s, NEW tasks, NEW r, GivesWay(s, tasks, r), NEW k \in Nat \ {0}, Finishes(s, k),
         \A i \in DOMAIN tasks : tasks[i] \in Connection
  PROVE  \E l \in Nat : Finishes(r, l)
  <1>1. Len(s) = k + 2 /\ UpTo(s, k, Connection) /\ k <= Len(s)
    BY DEF Finishes
  <1>2. PICK l \in Nat : UpTo(r, l, Connection) /\ SameEnd(s, k, r, l)
    BY <1>1, FirstPartWay
  <1>3. Len(r) = l + 2 /\ r[l + 1] = s[k + 1] /\ r[l + 2] = s[k + 2]
    BY <1>1, <1>2, SameEndOfTwo
  <1>. QED  BY <1>2, <1>3 DEF Finishes

\* The tasks of a phase, whichever it is.
LEMMA PhaseWorks ==
  ASSUME OrderInv, InitType, TreeInv, NEW a \in Actor, Work(a), PhaseTask(Head(todo[a])),
         NEW s, s = todo[a], NEW r, r = todo'[a], NEW t, t = s[1]
  PROVE  /\ UNCHANGED <<state, late, members, home>>
         /\ s # <<>> /\ Head(s) = t /\ t \in Task
         /\ \/ r = <<>> /\ UNCHANGED tree
            \/ /\ t.do = "for" /\ UNCHANGED tree
               /\ GivesWay(s, <<Walk(t.ph, t.in, 0, Len(members[t.in]))>>, r)
            \/ /\ t.do = "walk" /\ t.i >= t.n /\ UNCHANGED tree
               /\ GivesWay(s, <<>>, r)
            \/ /\ t.do = "walk" /\ t.i + 1 \in DOMAIN members[t.in] /\ UNCHANGED tree
               /\ LET next == Walk(t.ph, t.in, t.i + 1, t.n)
                      c == members[t.in][t.i + 1] IN
                  \/ GivesWay(s, <<DoPhase(t.ph, c), next>>, r)
                  \/ t.ph = "Publish" /\ GivesWay(s, <<next>>, r)
            \/ /\ t.do = "phase" /\ Behind(t.ph, t.c) /\ UNCHANGED tree
               /\ LET previous == IF t.ph = "Connect" THEN "Configure" ELSE "Publish" IN
                  GivesWay(s, <<DoPhase(previous, t.c), Enter(t.ph, t.c)>>, r)
            \/ /\ t.do \in {"phase", "enter"} /\ Advances(t.c, t.ph)
               /\ GivesWay(s, <<Client, For(t.ph, t.c)>>, r)
  <1>1. todo[a] # <<>> /\ Head(todo[a]) = t /\ t \in Task
    <2>1. todo[a] # <<>> /\ todo[a] \in Seq(Task)
      BY WorkHasTask, StacksAreTasks
    <2>. QED  BY <2>1, HeadTailProperties, ElementOfSeq
  <1>2. /\ t.ph \in Phase
        /\ t.do \in {"phase", "enter"} => t.c \in Component
        /\ t.do \in {"for", "walk"} => t.in \in Place
        /\ t.do = "walk" => t.i \in Nat /\ t.n \in Nat
    BY <1>1, PhaseTaskIs
  <1>3. \A tasks \in Seq(Task) : Becomes(a, tasks) => GivesWay(s, tasks, r)
    BY <1>1, BecomesGivesWay
  <1>4. \A p \in Place : /\ members[p] \in Seq(Component) /\ Len(members[p]) \in Nat
                         /\ DOMAIN members[p] = 1 .. Len(members[p])
                         /\ \A i \in DOMAIN members[p] : members[p][i] \in Component
    BY LenProperties, ElementOfSeq DEF OrderInv, TreeType
  <1>5. CASE t.do = "for"
    <2>1. BeginFor(a)
      BY <1>1, <1>5, WorkIsOf
    <2>. DEFINE w == Walk(t.ph, t.in, 0, Len(members[t.in]))
    <2>2. Becomes(a, <<w>>) /\ UNCHANGED <<state, tree>>
      BY <2>1, <1>1 DEF BeginFor
    <2>3. w \in Task
      BY <1>2, <1>4, <1>5 DEF Walk, Task
    <2>. HIDE DEF w
    <2>4. <<w>> \in Seq(Task)
      BY <2>3
    <2>5. GivesWay(s, <<w>>, r)
      BY <2>2, <2>4, <1>3
    <2>. QED  BY <1>1, <1>5, <2>2, <2>5 DEF w, tree
  <1>6. CASE t.do = "walk"
    <2>1. CASE WalkEnds(a)
      <3>1. Becomes(a, <<>>) /\ t.i >= t.n /\ UNCHANGED <<state, tree>>
        BY <2>1, <1>1 DEF WalkEnds
      <3>2. GivesWay(s, <<>>, r)
        BY <3>1, <1>3, EmptySeq
      <3>. QED  BY <1>1, <1>6, <3>1, <3>2 DEF tree
    <2>2. CASE WalkOn(a)
      <3>. DEFINE next == Walk(t.ph, t.in, t.i + 1, t.n)
                  c == members[t.in][t.i + 1]
                  d == DoPhase(t.ph, c)
      <3>1. /\ t.i < Len(members[t.in]) /\ UNCHANGED <<state, tree>>
            /\ Becomes(a, <<d, next>>) \/ (t.ph = "Publish" /\ Becomes(a, <<next>>))
        BY <2>2, <1>1 DEF WalkOn
      <3>2. t.i + 1 \in DOMAIN members[t.in]
        BY <3>1, <1>2, <1>4, <1>6
      <3>3. next \in Task /\ d \in Task
        BY <3>2, <1>2, <1>4, <1>6 DEF Walk, DoPhase, Task
      <3>. HIDE DEF next, d
      <3>4. <<next>> \in Seq(Task) /\ <<d, next>> \in Seq(Task)
        BY <3>3
      <3>5. GivesWay(s, <<d, next>>, r) \/ (t.ph = "Publish" /\ GivesWay(s, <<next>>, r))
        BY <3>1, <3>4, <1>3
      <3>. QED  BY <1>1, <1>6, <3>1, <3>2, <3>5 DEF next, d, tree
    <2>. QED  BY <2>1, <2>2, <1>1, <1>6, WorkIsOf
  <1>7. CASE t.do \in {"phase", "enter"}
    <2>1. CASE ProceedWith(a, t.ph, t.c)
      <3>. DEFINE f == For(t.ph, t.c)
      <3>1. CASE comp[t.c] = Before[t.ph]
        <4>1. /\ Becomes(a, <<Client, f>>) /\ UNCHANGED state
              /\ comp' = [comp EXCEPT ![t.c] = After[t.ph]]
              /\ UNCHANGED <<members, home, late, own>>
          BY <2>1, <3>1 DEF ProceedWith
        <4>2. Advances(t.c, t.ph)
          BY <4>1, <3>1, <1>2, <1>7 DEF Advances
        <4>3. f \in Task /\ Client \in Task
          BY <1>2, <1>7 DEF For, Client, Task, Place
        <4>. HIDE DEF f
        <4>4. <<Client, f>> \in Seq(Task)
          BY <4>3
        <4>5. GivesWay(s, <<Client, f>>, r)
          BY <4>1, <4>4, <1>3
        <4>. QED  BY <1>1, <1>7, <4>1, <4>2, <4>5 DEF f
      <3>2. CASE comp[t.c] # Before[t.ph]
        <4>1. Throws(a) /\ UNCHANGED <<state, tree>>
          BY <2>1, <3>2 DEF ProceedWith, tree
        <4>2. r = <<>>
          BY <4>1, StacksAreTasks DEF Throws
        <4>. QED  BY <1>1, <4>1, <4>2 DEF tree
      <3>. QED  BY <3>1, <3>2
    <2>2. CASE BeginPhase(a) /\ Behind(t.ph, t.c)
      <3>. DEFINE previous == IF t.ph = "Connect" THEN "Configure" ELSE "Publish"
                  d == DoPhase(previous, t.c)
                  e == Enter(t.ph, t.c)
      <3>1. Becomes(a, <<d, e>>) /\ UNCHANGED <<state, tree>> /\ t.do = "phase"
        BY <2>2, <1>1 DEF BeginPhase, At
      <3>2. d \in Task /\ e \in Task
        BY <1>2, <1>7 DEF DoPhase, Enter, Task, Phase
      <3>. HIDE DEF d, e
      <3>3. <<d, e>> \in Seq(Task)
        BY <3>2
      <3>4. GivesWay(s, <<d, e>>, r)
        BY <3>1, <3>3, <1>3
      <3>. QED  BY <1>1, <2>2, <3>1, <3>4 DEF d, e, tree
    <2>3. CASE BeginPhase(a) /\ ~Behind(t.ph, t.c)
      BY <2>1, <2>3, <1>1 DEF BeginPhase
    <2>4. CASE EnterPhase(a)
      BY <2>1, <2>4, <1>1 DEF EnterPhase
    <2>. QED  BY <2>2, <2>3, <2>4, <1>1, <1>7, WorkIsOf
  <1>. QED  BY <1>5, <1>6, <1>7, <1>1 DEF PhaseTask

LEMMA CarefulWorks ==
  ASSUME OrderInv, InitType, TreeInv, NEW a \in Actor, Work(a), PhaseTask(Head(todo[a])),
         NEW s, s = todo[a], NEW r, r = todo'[a], Careful(s)
  PROVE  Careful(r)'
  <1>1. PICK t : t = s[1]
    OBVIOUS
  <1>2. CASE r = <<>>
    BY <1>2 DEF Careful, Sorted, AllTimely, Seen, ResumedBy
  <1>3. CASE t.do = "for" /\ UNCHANGED tree /\ GivesWay(s, <<Walk(t.ph, t.in, 0, Len(members[t.in]))>>, r)
    <2>1. Careful(r)
      BY <1>1, <1>3, CarefulFor
    <2>. QED  BY <2>1, <1>3, SameCareful
  <1>4. CASE t.do = "walk" /\ UNCHANGED tree /\ GivesWay(s, <<>>, r)
    <2>1. PICK tasks : tasks = <<>>
      OBVIOUS
    <2>2. Careful(r)
      BY <2>1, <1>1, <1>4, CarefulPlain
    <2>. QED  BY <2>2, <1>4, SameCareful
  <1>5. CASE /\ t.do = "walk" /\ t.i + 1 \in DOMAIN members[t.in] /\ UNCHANGED tree
             /\ LET next == Walk(t.ph, t.in, t.i + 1, t.n)
                    c == members[t.in][t.i + 1] IN
                \/ GivesWay(s, <<DoPhase(t.ph, c), next>>, r)
                \/ t.ph = "Publish" /\ GivesWay(s, <<next>>, r)
    <2>. DEFINE next == Walk(t.ph, t.in, t.i + 1, t.n)
                d == DoPhase(t.ph, members[t.in][t.i + 1])
    <2>1. PICK tasks : (tasks = <<next>> \/ tasks = <<d, next>>) /\ GivesWay(s, tasks, r)
      BY <1>5
    <2>2. Careful(r)
      BY <2>1, <1>1, <1>5, CarefulWalkOn
    <2>. QED  BY <2>2, <1>5, SameCareful
  <1>6. CASE /\ t.do = "phase" /\ Behind(t.ph, t.c) /\ UNCHANGED tree
             /\ LET previous == IF t.ph = "Connect" THEN "Configure" ELSE "Publish" IN
                GivesWay(s, <<DoPhase(previous, t.c), Enter(t.ph, t.c)>>, r)
    <2>1. PICK previous : previous = IF t.ph = "Connect" THEN "Configure" ELSE "Publish"
      OBVIOUS
    <2>2. GivesWay(s, <<DoPhase(previous, t.c), Enter(t.ph, t.c)>>, r)
      BY <2>1, <1>6
    <2>3. Careful(r)
      BY <2>1, <2>2, <1>1, <1>6, CarefulBehind
    <2>. QED  BY <2>3, <1>6, SameCareful
  <1>7. CASE /\ t.do \in {"phase", "enter"} /\ Advances(t.c, t.ph)
             /\ GivesWay(s, <<Client, For(t.ph, t.c)>>, r)
    <2>1. s \in Seq(FineTask)
      BY DEF OrderInv
    <2>. QED  BY <2>1, <1>1, <1>7, CarefulProceeds
  <1>. QED  BY <1>1, <1>2, <1>3, <1>4, <1>5, <1>6, <1>7, PhaseWorks

LEMMA CoveredWorks ==
  ASSUME OrderInv, InitType, TreeInv, NEW a \in Actor, Work(a), PhaseTask(Head(todo[a])),
         Head(todo[a]).ph \in Assembling,
         NEW s, s = todo[a], NEW r, r = todo'[a], Covered(s)
  PROVE  r = <<>> \/ Covered(r)'
  <1>1. PICK t : t = s[1]
    OBVIOUS
  <1>2. t \in Task /\ PhaseTask(t) /\ t.ph \in Assembling
    BY <1>1, PhaseWorks
  <1>3. CASE t.do = "for" /\ UNCHANGED tree /\ GivesWay(s, <<Walk(t.ph, t.in, 0, Len(members[t.in]))>>, r)
    <2>1. PICK w : w = Walk(t.ph, t.in, 0, Len(members[t.in]))
      OBVIOUS
    <2>2. PICK tasks : tasks = <<w>>
      OBVIOUS
    <2>3. ASSUME NEW c \in Component, Connecting(t, c)
          PROVE  Connecting(w, c)
      <3>1. home[c] = t.in /\ t.ph = "Connect" /\ t.in \in Place
        BY <2>3, <1>2, <1>3, PhaseTaskIs DEF Connecting, Will
      <3>2. PICK j \in DOMAIN members[t.in] : members[t.in][j] = c
        BY <3>1 DEF TreeInv, WellPlaced
      <3>3. j > 0 /\ j <= Len(members[t.in])
        BY <3>1, <3>2, LenProperties DEF OrderInv, TreeType
      <3>4. w.do = "walk" /\ w.ph = t.ph /\ w.in = t.in /\ w.i = 0 /\ w.n = Len(members[t.in])
        BY <2>1 DEF Walk
      <3>. QED  BY <3>1, <3>2, <3>3, <3>4 DEF Connecting, Will, PhaseTask
    <2>4. Covered(r)
      BY <2>1, <2>2, <2>3, <1>1, <1>3, CoveredWay
    <2>. QED  BY <2>4, <1>3, SameCovered
  <1>4. CASE t.do = "walk" /\ t.i >= t.n /\ UNCHANGED tree /\ GivesWay(s, <<>>, r)
    <2>1. PICK tasks : tasks = <<>>
      OBVIOUS
    <2>2. \A c \in Component : ~Connecting(t, c)
      <3>. SUFFICES ASSUME NEW c \in Component, Connecting(t, c)
                    PROVE  FALSE
        OBVIOUS
      <3>1. t.in \in Place /\ t.i \in Nat /\ t.n \in Nat
        BY <1>2, <1>4, PhaseTaskIs
      <3>2. PICK j \in DOMAIN members[t.in] : j > t.i /\ j <= t.n
        BY <1>4 DEF Connecting, Will
      <3>3. j \in Nat
        BY <3>1, LenProperties DEF OrderInv, TreeType
      <3>. QED  BY <3>1, <3>2, <3>3, <1>4
    <2>3. Covered(r)
      BY <2>1, <2>2, <1>1, <1>4, CoveredWay
    <2>. QED  BY <2>3, <1>4, SameCovered
  <1>5. CASE /\ t.do = "walk" /\ t.i + 1 \in DOMAIN members[t.in] /\ UNCHANGED tree
             /\ LET next == Walk(t.ph, t.in, t.i + 1, t.n)
                    c == members[t.in][t.i + 1] IN
                \/ GivesWay(s, <<DoPhase(t.ph, c), next>>, r)
                \/ t.ph = "Publish" /\ GivesWay(s, <<next>>, r)
    <2>1. PICK next, d : next = Walk(t.ph, t.in, t.i + 1, t.n)
                         /\ d = DoPhase(t.ph, members[t.in][t.i + 1])
      OBVIOUS
    <2>2. /\ next.do = "walk" /\ next.ph = t.ph /\ next.in = t.in /\ next.i = t.i + 1 /\ next.n = t.n
          /\ d.do = "phase" /\ d.ph = t.ph /\ d.c = members[t.in][t.i + 1]
      BY <2>1 DEF Walk, DoPhase
    <2>3. ASSUME NEW c \in Component, Connecting(t, c)
          PROVE  t.ph = "Connect" /\ (Connecting(d, c) \/ Connecting(next, c))
      <3>1. t.in \in Place /\ t.i \in Nat /\ t.n \in Nat
        BY <1>2, <1>5, PhaseTaskIs
      <3>2. PICK j \in DOMAIN members[t.in] : j > t.i /\ j <= t.n /\ members[t.in][j] = c
        BY <2>3, <1>5 DEF Connecting, Will
      <3>3. j \in Nat
        BY <3>1, LenProperties DEF OrderInv, TreeType
      <3>4. t.ph = "Connect"
        BY <2>3 DEF Connecting
      <3>5. CASE j = t.i + 1
        BY <3>2, <3>4, <3>5, <2>2 DEF Connecting, Will, PhaseTask
      <3>6. CASE j # t.i + 1
        <4>. j > t.i + 1
          BY <3>1, <3>2, <3>3, <3>6
        <4>. QED  BY <3>2, <3>4, <2>2 DEF Connecting, Will, PhaseTask
      <3>. QED  BY <3>4, <3>5, <3>6
    <2>4. PICK tasks : (tasks = <<d, next>> \/ (tasks = <<next>> /\ t.ph = "Publish"))
                       /\ GivesWay(s, tasks, r)
      BY <1>5, <2>1
    <2>5. \A c \in Component : Connecting(t, c) => \E i \in DOMAIN tasks : Connecting(tasks[i], c)
      <3>. SUFFICES ASSUME NEW c \in Component, Connecting(t, c)
                    PROVE  \E i \in DOMAIN tasks : Connecting(tasks[i], c)
        OBVIOUS
      <3>1. tasks = <<d, next>>
        BY <2>3, <2>4
      <3>2. 1 \in DOMAIN tasks /\ 2 \in DOMAIN tasks /\ tasks[1] = d /\ tasks[2] = next
        BY <3>1
      <3>. QED  BY <3>2, <2>3
    <2>6. Covered(r)
      BY <2>4, <2>5, <1>1, CoveredWay
    <2>. QED  BY <2>6, <1>5, SameCovered
  <1>6. CASE /\ t.do = "phase" /\ Behind(t.ph, t.c) /\ UNCHANGED tree
             /\ LET previous == IF t.ph = "Connect" THEN "Configure" ELSE "Publish" IN
                GivesWay(s, <<DoPhase(previous, t.c), Enter(t.ph, t.c)>>, r)
    <2>1. PICK d, e : d = DoPhase(IF t.ph = "Connect" THEN "Configure" ELSE "Publish", t.c)
                      /\ e = Enter(t.ph, t.c)
      OBVIOUS
    <2>2. PICK tasks : tasks = <<d, e>>
      OBVIOUS
    <2>3. GivesWay(s, tasks, r)
      BY <2>1, <2>2, <1>6
    <2>4. e.do = "enter" /\ e.ph = t.ph /\ e.c = t.c /\ 2 \in DOMAIN tasks /\ tasks[2] = e
      BY <2>1, <2>2 DEF Enter
    <2>5. \A c \in Component : Connecting(t, c) => Connecting(e, c)
      BY <2>4, <1>6 DEF Connecting, Will, PhaseTask
    <2>6. Covered(r)
      BY <2>3, <2>4, <2>5, <1>1, CoveredWay
    <2>. QED  BY <2>6, <1>6, SameCovered
  <1>7. CASE /\ t.do \in {"phase", "enter"} /\ Advances(t.c, t.ph)
             /\ GivesWay(s, <<Client, For(t.ph, t.c)>>, r)
    BY <1>1, <1>2, <1>7, CoveredProceeds
  <1>. QED  BY <1>1, <1>3, <1>4, <1>5, <1>6, <1>7, PhaseWorks

LEMMA ConnectsOn ==
  ASSUME OrderInv, InitType, TreeInv, NEW a \in Actor, Work(a), Connects(todo[a]),
         state \in {"Connecting", "Aborting"}
  PROVE  \/ Assembles(todo[a])' /\ state' \in {state, "Aborting"}
         \/ /\ state' = "Standby" /\ AllConnected'
            /\ todo'[a] \in Seq(Calm \union {Just("initialise")})
  <1>1. PICK s, r : s = todo[a] /\ r = todo'[a]
    OBVIOUS
  <1>2. s \in Seq(Task) /\ Careful(s) /\ Covered(s)
    BY <1>1 DEF Connects
  <1>3. PICK k \in Nat : Finishes(s, k)
    BY <1>1 DEF Connects
  <1>4. Head(s) = s[1] /\ s # <<>> /\ s[1] \in Task
    BY <1>1, <1>2, WorkHasTask, HeadTailProperties, ElementOfSeq
  <1>5. CASE k # 0
    <2>1. s[1] \in Connection /\ k \in Nat \ {0}
      BY <1>3, <1>5 DEF Finishes, UpTo
    <2>2. Begets(Connection)
      BY PhasesBeget DEF Connection, Assembling, Phase
    <2>3. r = <<>> \/ \E tasks \in Seq(Connection) : GivesWay(s, tasks, r)
      <3>1. Throws(a) => r = <<>>
        BY <1>1, StacksAreTasks DEF Throws
      <3>2. \A tasks \in Seq(Connection) : Becomes(a, tasks) => GivesWay(s, tasks, r)
        <4>. Seq(Connection) \subseteq Seq(Task)
          BY SeqMonotonic DEF Connection, OfPhases
        <4>. QED  BY <1>1, <1>4, BecomesGivesWay
      <3>3. Head(todo[a]) \in Connection
        BY <2>1, <1>1, <1>4
      <3>4. Throws(a) \/ \E tasks \in Seq(Connection) : Becomes(a, tasks)
        BY <3>3, <2>2, WorkBecomes
      <3>. QED  BY <3>1, <3>2, <3>4
    <2>4. \/ s[1] \in Calm
          \/ PhaseTask(s[1]) /\ s[1].ph \in Assembling
      BY <2>1 DEF Connection, OfPhases, Calm
    <2>5. state' \in {state, "Aborting"}
      BY <2>4, <1>1, <1>4, CalmWorks, PhaseWorks
    <2>6. CASE r = <<>>
      BY <2>5, <2>6, <1>1, EmptySeq DEF Assembles, Rests, Calm
    <2>7. ASSUME NEW tasks \in Seq(Connection), GivesWay(s, tasks, r), r # <<>>
          PROVE  Connects(r)'
      <3>1. \A i \in DOMAIN tasks : tasks[i] \in Connection
        BY LenProperties, ElementOfSeq
      <3>2. \E l \in Nat : Finishes(r, l)
        BY <2>1, <2>7, <3>1, <1>3, FinishesWay
      <3>3. Careful(r)' /\ Covered(r)'
        <4>1. CASE s[1] \in Calm
          <5>1. UNCHANGED tree /\ \E calm \in Seq(Calm) : GivesWay(s, calm, r)
            BY <2>7, <4>1, <1>1, <1>4, CalmWorks
          <5>2. PICK calm \in Seq(Calm) : GivesWay(s, calm, r)
            BY <5>1
          <5>3. \A i \in DOMAIN calm : ~PhaseTask(calm[i])
            BY CalmIs, LenProperties, ElementOfSeq
          <5>4. s[1].do \notin {"phase", "enter"} /\ ~PhaseTask(s[1])
            BY <4>1, CalmIs DEF PhaseTask
          <5>5. Careful(r)
            BY <5>2, <5>3, <5>4, <1>2, CarefulPlain
          <5>6. Covered(r)
            <6>. \A c : ~Connecting(s[1], c)
              BY <5>4 DEF Connecting
            <6>. QED  BY <5>2, <1>2, CoveredWay
          <5>. QED  BY <5>1, <5>5, <5>6, SameCareful, SameCovered
        <4>2. CASE PhaseTask(s[1]) /\ s[1].ph \in Assembling
          BY <2>7, <4>2, <1>1, <1>2, <1>4, CarefulWorks, CoveredWorks
        <4>. QED  BY <4>1, <4>2, <2>4
      <3>4. r \in Seq(Task) /\ state' # "Building"
        BY <2>5, <2>7 DEF GivesWay
      <3>. QED  BY <3>2, <3>3, <3>4 DEF Connects, Finishes, Connection, OfPhases
    <2>. QED  BY <2>3, <2>5, <2>6, <2>7, <1>1 DEF Assembles
  <1>6. CASE k = 0
    <2>1. Len(s) = 2 /\ Sets(s[1], "Standby") /\ s[2] = Just("initialise")
      BY <1>3, <1>6 DEF Finishes
    <2>2. ~PhaseTask(s[1]) /\ ~PhaseTask(s[2])
      BY <2>1 DEF Sets, PhaseTask, Just
    <2>3. CASE s[1].do = "setState"
      <3>1. Head(todo[a]).to = "Standby" /\ At(a, "setState")
        BY <1>1, <1>4, <2>1, <2>3 DEF Sets, At
      <3>2. PICK tasks \in Seq(Task), u \in Nat :
              /\ GivesWay(s, tasks, r)
              /\ Len(tasks) = u + 1 /\ (\A i \in 1 .. u : tasks[i] = Client)
              /\ tasks[u + 1] = Assign("Standby")
              /\ UNCHANGED <<state, tree>>
        BY <3>1, <1>1, SetStateWay
      <3>3. \A i \in DOMAIN tasks : ~PhaseTask(tasks[i])
        <4>1. \A i \in DOMAIN tasks : i \in 1 .. u \/ i = u + 1
          BY <3>2, LenProperties
        <4>. QED  BY <4>1, <3>2 DEF PhaseTask, Client, Assign
      <3>4. Careful(r) /\ Covered(r)
        <4>1. Careful(r)
          BY <2>2, <3>2, <3>3, <1>2, CarefulPlain DEF PhaseTask
        <4>2. \A c : ~Connecting(s[1], c)
          BY <2>2 DEF Connecting
        <4>. QED  BY <4>1, <4>2, <3>2, <1>2, CoveredWay
      <3>5. Finishes(r, u)
        <4>1. Len(r) = u + 2 /\ r[2 + ((u + 1) - 1)] = s[2]
          BY <3>2, <2>1 DEF GivesWay
        <4>2. 2 + ((u + 1) - 1) = u + 2
          OBVIOUS
        <4>3. r[u + 1] = Assign("Standby") /\ UpTo(r, u, Connection)
          <5>. Client \in Connection
            BY CalmIs
          <5>. QED  BY <3>2 DEF GivesWay, UpTo
        <4>. QED  BY <4>1, <4>2, <4>3, <2>1 DEF Finishes, Sets, Assign
      <3>6. Careful(r)' /\ Covered(r)' /\ r \in Seq(Task) /\ state' = state
        BY <3>2, <3>4, SameCareful, SameCovered DEF GivesWay
      <3>7. Connects(r)'
        BY <3>5, <3>6 DEF Connects, Finishes, Connection, OfPhases
      <3>. QED  BY <3>6, <3>7, <1>1 DEF Assembles
    <2>4. CASE s[1].do = "assign"
      <3>1. Head(todo[a]).to = "Standby" /\ At(a, "assign")
        BY <1>1, <1>4, <2>1, <2>4 DEF Sets, At
      <3>2. PICK tasks \in Seq(Task) :
              /\ GivesWay(s, tasks, r)
              /\ \A i \in DOMAIN tasks : tasks[i] = Client
              /\ state' = "Standby" /\ UNCHANGED tree
        BY <3>1, <1>1, AssignWay
      <3>3. AllConnected
        <4>1. \A i \in DOMAIN s : ~PhaseTask(s[i])
          <5>. DOMAIN s = 1 .. 2
            BY <2>1, <1>2, LenProperties
          <5>. QED  BY <2>2
        <4>. QED  BY <4>1, <1>2, CoveredMeans
      <3>4. AllConnected'
        BY <3>2, <3>3 DEF AllConnected, tree, Present
      <3>5. r \in Seq(Calm \union {Just("initialise")})
        <4>. DEFINE X == Calm \union {Just("initialise")}
        <4>1. r \in Seq(Task)
          BY <3>2 DEF GivesWay
        <4>2. ASSUME NEW i \in DOMAIN r
              PROVE  r[i] \in X
          <5>1. CASE i \in 1 .. Len(tasks) /\ r[i] = tasks[i]
            <6>. i \in DOMAIN tasks
              BY <5>1, <3>2, WayOrigin
            <6>. QED  BY <5>1, <3>2, CalmIs
          <5>2. CASE \E j \in 2 .. Len(s) : r[i] = s[j]
            BY <5>2, <2>1
          <5>. QED  BY <5>1, <5>2, <3>2, WayOrigin
        <4>. HIDE DEF X
        <4>. QED  BY <4>1, <4>2, LenProperties, SeqDef DEF X
      <3>. QED  BY <3>2, <3>4, <3>5, <1>1
    <2>. QED  BY <2>1, <2>3, <2>4 DEF Sets
  <1>. QED  BY <1>5, <1>6

LEMMA AssemblesStays ==
  ASSUME UNCHANGED tree, state' \in {state, "Aborting"}, NEW s, Assembles(s)
  PROVE  Assembles(s)'
  <1>1. Rests(s) => Rests(s)'
    BY DEF Rests, Calm
  <1>2. Publishes(s) => Publishes(s)'
    BY DEF Publishes, Publishing
  <1>3. Commences(s) => Commences(s)'
    BY DEF Commences, Calm, Early, tree, Present
  <1>4. Connects(s) => Connects(s)'
    BY SameCareful, SameCovered DEF Connects, Finishes, Connection, OfPhases
  <1>. QED  BY <1>1, <1>2, <1>3, <1>4 DEF Assembles

LEMMA AsmInit ==
  ASSUME OneAssembler, Init
  PROVE  AsmInv
  <1>1. /\ state = "Building" /\ comp = [c \in Component |-> "Created"]
        /\ todo = [a \in Actor |-> <<>>]
    BY DEF Init
  <1>2. Early
    BY <1>1 DEF Early, Present, Rank
  <1>3. \A a \in Actor : Rests(todo[a])
    BY <1>1, EmptySeq DEF Rests
  <1>. QED  BY <1>1, <1>2, <1>3 DEF AsmInv, Underway, Assembles, OneAssembler

\* An abort comes before what the actor has to do.
LEMMA AssemblesAborts ==
  ASSUME OrderInv, UNCHANGED <<state, tree>>, NEW s, NEW r, s # <<>>, s[1].do = "client",
         Upon(s, <<SetState("Aborting")>>, r), Assembles(s)
  PROVE  Assembles(r)'
  <1>. DEFINE t == SetState("Aborting")
              u == <<t, s[1]>>
  <1>1. GivesWay(s, u, r)
    BY UponIsWay
  <1>2. /\ s \in Seq(Task) /\ r \in Seq(Task) /\ Len(s) \in Nat \ {0} /\ DOMAIN s = 1 .. Len(s)
        /\ s[1] \in Task /\ t \in Calm
    <2>1. s \in Seq(Task) /\ r \in Seq(Task)
      BY DEF Upon
    <2>. QED  BY <2>1, CalmIs, LenProperties, EmptySeq, ElementOfSeq
  <1>. HIDE DEF t
  <1>3. ~PhaseTask(s[1]) /\ ~PhaseTask(t)
    BY <1>2, CalmIs DEF PhaseTask
  <1>4. s[1] \in Calm
    <2>1. CASE Rests(s)
      BY <2>1, <1>2, ElementOfSeq DEF Rests
    <2>2. CASE Publishes(s)
      <3>1. s[1] \in Publishing
        BY <2>2, <1>2, ElementOfSeq DEF Publishes
      <3>. QED  BY <3>1, <1>3 DEF Publishing, Calm
    <2>3. CASE Commences(s)
      <3>1. PICK k \in Nat : UpTo(s, k, Calm) /\ Sets(s[k + 1], "Connecting")
        BY <2>3 DEF Commences
      <3>2. k # 0
        BY <3>1 DEF Sets
      <3>. QED  BY <3>1, <3>2 DEF UpTo
    <2>4. CASE Connects(s)
      <3>1. PICK k \in Nat : UpTo(s, k, Connection) /\ Sets(s[k + 1], "Standby")
        BY <2>4 DEF Connects, Finishes
      <3>2. k # 0
        BY <3>1 DEF Sets
      <3>3. s[1] \in Connection
        BY <3>1, <3>2 DEF UpTo
      <3>. QED  BY <3>3, <1>3 DEF Connection, OfPhases, Calm
    <2>. QED  BY <2>1, <2>2, <2>3, <2>4 DEF Assembles
  <1>5. u \in Seq(Calm) /\ \A i \in DOMAIN u : u[i] \in Calm /\ ~PhaseTask(u[i])
    BY <1>2, <1>3, <1>4
  <1>. HIDE DEF u
  <1>6. ASSUME NEW X, Calm \subseteq X, s \in Seq(X)
        PROVE  r \in Seq(X)
    <2>1. \A i \in DOMAIN s : s[i] \in X
      BY <1>6, LenProperties, ElementOfSeq
    <2>2. ASSUME NEW i \in DOMAIN r
          PROVE  r[i] \in X
      <3>1. \/ i \in 1 .. Len(u) /\ r[i] = u[i]
            \/ \E k \in 2 .. Len(s) : r[i] = s[k]
        BY <1>1, WayOrigin
      <3>2. DOMAIN u = 1 .. Len(u)
        BY <1>1, WayOrigin
      <3>. QED  BY <3>1, <3>2, <2>1, <1>2, <1>5, <1>6
    <2>. QED  BY <2>2, <1>2, LenProperties, SeqDef
  <1>7. CASE Rests(s)
    <2>. r \in Seq(Calm)
      BY <1>6, <1>7 DEF Rests
    <2>. QED  BY DEF Assembles, Rests, Calm
  <1>8. CASE Publishes(s)
    <2>. r \in Seq(Publishing)
      BY <1>6, <1>8, CalmIs DEF Publishes
    <2>. QED  BY <1>8 DEF Assembles, Publishes, Publishing
  <1>9. CASE Commences(s)
    <2>. Commences(r)'
      <3>. UNCHANGED <<comp, home>> /\ state' # "Connecting"
        BY <1>9 DEF Commences, tree
      <3>. QED  BY <1>1, <1>4, <1>5, <1>9, CommencesCalmly
    <2>. QED  BY DEF Assembles
  <1>10. CASE Connects(s)
    <2>1. PICK k \in Nat : Finishes(s, k)
      BY <1>10 DEF Connects
    <2>2. k # 0
      BY <2>1, <1>4, CalmIs DEF Finishes, Sets
    <2>3. \E l \in Nat : Finishes(r, l)
      BY <2>1, <2>2, <1>1, <1>5, CalmIs, FinishesWay
    <2>4. Careful(r)
      BY <1>1, <1>5, <1>10, CarefulPlain DEF Connects
    <2>5. Covered(r)
      <3>. \A c : ~Connecting(s[1], c)
        BY <1>3 DEF Connecting
      <3>. QED  BY <1>1, <1>10, CoveredWay DEF Connects
    <2>6. Connects(r)'
      BY <2>3, <2>4, <2>5, <1>2, <1>10, SameCareful, SameCovered
         DEF Connects, Finishes, Connection, OfPhases
    <2>. QED  BY <2>6 DEF Assembles
  <1>. QED  BY <1>7, <1>8, <1>9, <1>10 DEF Assembles

LEMMA PairIn ==
  ASSUME NEW X, NEW x \in X, NEW y \in X
  PROVE  <<x, y>> \in Seq(X)
  OBVIOUS

LEMMA AsmTells ==
  ASSUME OneAssembler, OrderInv, InitType, TreeInv, Underway, NEW a \in Actor, Tells(a)
  PROVE  Underway'
  <1>1. PICK call, st, tasks : /\ Accepted(a, call, tasks) /\ CallIs(a, st, tasks)
                               /\ state \in st \/ st = SimState
    BY TellsIs
  <1>2. /\ UNCHANGED <<state, tree>> /\ todo' = [todo EXCEPT ![a] = tasks \o @]
        /\ todo[a] = <<>> \/ At(a, "client")
    BY <1>1 DEF Accepted, MayCall
  <1>3. tasks \in Seq(Task)
    BY <1>1, CallIsTasks
  <1>4. /\ Upon(todo[a], tasks, todo'[a])
        /\ \A b \in Actor : b # a => todo'[b] = todo[b]
    BY <1>2, <1>3, PushIsUpon
  <1>5. Early => Early'
    BY <1>2 DEF tree, Early, Present
  <1>6. \A s : Assembles(s) => Assembles(s)'
    BY <1>2, AssemblesStays
  <1>7. \A s : Rests(s) => Rests(s)'
    BY DEF Rests, Calm
  <1>8. \/ Publish(a) /\ tasks = <<Just("cycle"), For("Publish", "models")>>
        \/ Configure(a) /\ tasks = <<For("Configure", "services"), For("Configure", "models")>>
        \/ /\ Connect(a)
           /\ tasks = <<SetState("Connecting"), For("Connect", "services"), For("Connect", "models"),
                        SetState("Standby"), Just("initialise")>>
        \/ Abort(a) /\ tasks = <<SetState("Aborting")>>
    <2>1. state \notin {"Standby", "Executing"} /\ SimState # {"Standby"} /\ SimState # {"Executing"}
      BY DEF Underway, SimState
    <2>. QED  BY <1>1, <2>1 DEF CallIs, ForAll
  <1>9. ASSUME Publish(a) \/ Configure(a) \/ Connect(a)
        PROVE  a = Main /\ todo'[a] = tasks /\ state = "Building" /\ Early
    <2>1. (\E c \in Assembling : MayCall(a, c)) /\ state = "Building"
      BY <1>9 DEF Publish, Configure, Connect, Accepted, Assembling
    <2>2. a = Main /\ todo[a] = <<>>
      BY <2>1 DEF MayCall, OneAssembler
    <2>3. todo'[a] = tasks \o <<>>
      BY <1>2, <2>2, StacksAreTasks
    <2>. QED  BY <2>1, <2>2, <2>3, <1>3, ConcatEmptySeq DEF Underway
  <1>10. PICK s, r : s = todo[a] /\ r = todo'[a]
    OBVIOUS
  <1>11. CASE Publish(a) /\ tasks = <<Just("cycle"), For("Publish", "models")>>
    <2>1. Just("cycle") \in Publishing /\ For("Publish", "models") \in Publishing
      BY DEF Publishing, Just, For, Task, PhaseTask, Phase, Place
    <2>2. r \in Seq(Publishing)
      <3>1. r = <<Just("cycle"), For("Publish", "models")>>
        BY <1>9, <1>10, <1>11
      <3>. QED  BY <3>1, <2>1, PairIn
    <2>3. Publishes(r)'
      BY <2>2, <1>2, <1>9, <1>11 DEF Publishes, Publishing
    <2>4. Assembles(todo[Main])'
      BY <2>3, <1>9, <1>10, <1>11 DEF Assembles
    <2>. QED  BY <2>4, <1>2, <1>4, <1>5, <1>7, <1>9, <1>11 DEF Underway
  <1>12. CASE Configure(a) /\ tasks = <<For("Configure", "services"), For("Configure", "models")>>
    <2>1. For("Configure", "services") \in Publishing /\ For("Configure", "models") \in Publishing
      BY DEF Publishing, For, Task, PhaseTask, Phase, Place
    <2>2. r \in Seq(Publishing)
      <3>1. r = <<For("Configure", "services"), For("Configure", "models")>>
        BY <1>9, <1>10, <1>12
      <3>. QED  BY <3>1, <2>1, PairIn
    <2>3. Publishes(r)'
      BY <2>2, <1>2, <1>9, <1>12 DEF Publishes, Publishing
    <2>4. Assembles(todo[Main])'
      BY <2>3, <1>9, <1>10, <1>12 DEF Assembles
    <2>. QED  BY <2>4, <1>2, <1>4, <1>5, <1>7, <1>9, <1>12 DEF Underway
  <1>13. CASE /\ Connect(a)
              /\ tasks = <<SetState("Connecting"), For("Connect", "services"), For("Connect", "models"),
                           SetState("Standby"), Just("initialise")>>
    <2>1. /\ Len(r) = 5 /\ r[1] = SetState("Connecting")
          /\ r[2] = For("Connect", "services") /\ r[3] = For("Connect", "models")
          /\ r[4] = SetState("Standby") /\ r[5] = Just("initialise")
      BY <1>9, <1>10, <1>13
    <2>2. Sets(r[1], "Connecting") /\ Sets(r[4], "Standby")
      BY <2>1 DEF Sets, SetState
    <2>3. UpTo(r, 0, Calm) /\ r \in Seq(Task)
      <3>1. r \in Seq(Task)
        <4>1. Connect(a)
          BY <1>13
        <4>2. r = tasks
          BY <4>1, <1>9, <1>10
        <4>. QED  BY <4>2, <1>3
      <3>2. UpTo(r, 0, Calm)
        BY DEF UpTo
      <3>. QED  BY <3>1, <3>2
    <2>4. \E k \in Nat :
            /\ Len(r) = k + 5 /\ UpTo(r, k, Calm)
            /\ Sets(r[k + 1], "Connecting")
            /\ r[k + 2] = For("Connect", "services") /\ r[k + 3] = For("Connect", "models")
            /\ Sets(r[k + 4], "Standby") /\ r[k + 5] = Just("initialise")
      <3>. WITNESS 0 \in Nat
      <3>. QED  BY <2>1, <2>2, <2>3
    <2>5. Commences(r)'
      BY <2>3, <2>4, <1>2, <1>5, <1>9, <1>13 DEF Commences, Calm
    <2>6. Assembles(todo[Main])'
      BY <2>5, <1>9, <1>10, <1>13 DEF Assembles
    <2>. QED  BY <2>6, <1>2, <1>4, <1>5, <1>7, <1>9, <1>13 DEF Underway
  <1>14. CASE Abort(a) /\ tasks = <<SetState("Aborting")>>
    <2>1. SetState("Aborting") \in Calm
      BY CalmIs
    <2>2. CASE s = <<>>
      <3>1. r = <<SetState("Aborting")>>
        <4>1. r = tasks \o <<>>
          BY <2>2, <1>2, <1>10, StacksAreTasks
        <4>. QED  BY <4>1, <1>3, <1>14, ConcatEmptySeq
      <3>2. r \in Seq(Calm)
        BY <3>1, <2>1
      <3>3. Rests(todo[a])'
        BY <3>2, <1>10 DEF Rests, Calm
      <3>4. Underway'
        BY <3>3, <1>2, <1>4, <1>5, <1>6, <1>7 DEF Underway, Assembles
      <3>. QED  BY <3>4
    <2>3. CASE s # <<>>
      <3>1. s[1].do = "client" /\ Upon(s, tasks, r)
        <4>1. Head(s).do = "client" /\ s \in Seq(Task)
          BY <2>3, <1>2, <1>10, StacksAreTasks DEF At
        <4>. QED  BY <4>1, <2>3, <1>4, <1>10, HeadTailProperties
      <3>2. CASE a = Main
        <4>1. Assembles(s)
          BY <3>2, <1>10 DEF Underway
        <4>2. Assembles(r)'
          BY <4>1, <3>1, <2>3, <1>2, <1>14, AssemblesAborts
        <4>. QED  BY <4>2, <3>2, <1>2, <1>4, <1>5, <1>7, <1>10 DEF Underway
      <3>3. CASE a # Main
        <4>1. s \in Seq(Calm) /\ tasks \in Seq(Calm)
          BY <3>3, <2>1, <1>10, <1>14 DEF Underway, Rests
        <4>2. r \in Seq(Calm)
          <5>1. r = tasks \o s
            BY <1>2, <1>10, StacksAreTasks
          <5>. QED  BY <5>1, <4>1, ConcatProperties
        <4>3. Rests(todo[a])'
          BY <4>2, <1>10 DEF Rests, Calm
        <4>. QED  BY <4>3, <3>3, <1>2, <1>4, <1>5, <1>6, <1>7 DEF Underway
      <3>. QED  BY <3>2, <3>3
    <2>. QED  BY <2>2, <2>3
  <1>. QED  BY <1>8, <1>11, <1>12, <1>13, <1>14

LEMMA CoveredAdds ==
  ASSUME TreeInv, NEW s \in Seq(Task), Covered(s),
         NEW c, NEW p, NEW old, Enters(c, p, old), late' = late \union {c},
         old # None => \A i \in DOMAIN s : s[i].do = "walk" => s[i].in # "services"
  PROVE  Covered(s)'
  <1>. SUFFICES ASSUME NEW d \in Component, Exposed(d)'
                PROVE  \E i \in DOMAIN s : Connecting(s[i], d)'
    BY DEF Covered
  <1>1. d # c /\ d # old /\ home'[d] = home[d] /\ comp'[d] = comp[d] /\ home[d] # None /\ d \notin late
    BY DEF Exposed, Present, Enters
  <1>2. home[d] \in Component => comp'[home[d]] = comp[home[d]]
    <2>. SUFFICES ASSUME home[d] \in Component
                  PROVE  comp'[home[d]] = comp[home[d]]
      OBVIOUS
    <2>1. home[d] # c
      BY DEF TreeInv, HomesArePresent, Enters
    <2>2. home[d] # old
      BY ConstantsAssumption DEF TreeInv, ReplacedAreLeaves, Enters, Place
    <2>. QED  BY <2>1, <2>2 DEF Enters
  <1>3. Exposed(d)
    BY <1>1, <1>2 DEF Exposed, Present
  <1>4. PICK i \in DOMAIN s : Connecting(s[i], d)
    BY <1>3 DEF Covered
  <1>5. s[i] \in Task /\ PhaseTask(s[i])
    BY <1>4, TasksInside DEF Connecting
  <1>6. Connecting(s[i], d)'
    <2>1. CASE s[i].do = "walk"
      <3>1. PICK j \in DOMAIN members[s[i].in] : j > s[i].i /\ j <= s[i].n /\ members[s[i].in][j] = d
        BY <2>1, <1>4 DEF Connecting, Will
      <3>2. Stays(s[i].in)
        BY <2>1, <1>5, PhaseTaskIs DEF Enters
      <3>. QED  BY <2>1, <3>1, <3>2, <1>4 DEF Stays, Connecting, Will, PhaseTask
    <2>2. CASE s[i].do # "walk"
      BY <2>2, <1>1, <1>4 DEF Connecting, Will, PhaseTask
    <2>. QED  BY <2>1, <2>2
  <1>. QED  BY <1>6

LEMMA AsmAdds ==
  ASSUME OrderInv, InitType, TreeInv, Underway, OneAssembler,
         NEW a \in Actor, NEW c, NEW p, NEW old, Adds(a, c, p, old)
  PROVE  Underway'
  <1>1. /\ UNCHANGED <<state, todo>> /\ Enters(c, p, old) /\ WellPlaced'
        /\ comp'[c] = "Created" \/ (comp'[c] = "Connected" /\ c \in own' /\ state = "Connecting")
        /\ own \subseteq own'
    BY DEF Adds
  <1>2. state # "Connecting" /\ Early => Early'
    <2>. SUFFICES ASSUME state # "Connecting", Early, NEW d \in Component, home'[d] # None
                  PROVE  Rank[comp'[d]] < 3
      BY DEF Early, Present
    <2>1. CASE d = c
      BY <2>1, <1>1 DEF Rank
    <2>2. CASE d # c
      BY <2>2, <1>1 DEF Enters, Early, Present
    <2>. QED  BY <2>1, <2>2
  <1>3. \A s : Rests(s) => Rests(s)'
    BY DEF Rests, Calm
  <1>4. Assembles(todo[Main])'
    <2>. DEFINE s == todo[Main]
    <2>1. s = s'
      BY <1>1
    <2>2. PICK r : r = s /\ r = s'
      BY <2>1
    <2>. HIDE DEF s
    <2>3. CASE Rests(r)
      BY <2>2, <2>3, <1>3 DEF s, Assembles
    <2>4. CASE Publishes(r)
      <3>1. Publishes(r)'
        BY <2>4, <1>1 DEF Publishes, Publishing
      <3>. QED  BY <3>1, <2>2 DEF s, Assembles
    <2>5. CASE Commences(r)
      <3>1. Commences(r)'
        BY <2>5, <1>1, <1>2 DEF Commences, Calm
      <3>. QED  BY <3>1, <2>2 DEF s, Assembles
    <2>6. CASE Connects(r)
      <3>1. r \in Seq(Task) /\ Careful(r) /\ Covered(r) /\ state # "Building" /\ \E k \in Nat : Finishes(r, k)
        BY <2>6 DEF Connects
      <3>2. old # None => \A i \in DOMAIN r : r[i].do = "walk" => r[i].in # "services"
        BY <2>2 DEF Adds, OneAssembler, s
      <3>3. late' = late \union {c}
        BY <3>1 DEF Adds
      <3>4. Careful(r)'
        <4>. comp'[c] = "Created" \/ (comp'[c] = "Connected" /\ c \in own')
          BY <1>1
        <4>. QED  BY <3>1, <3>2, <1>1, CarefulAdds
      <3>5. Covered(r)'
        BY <3>1, <3>2, <3>3, <1>1, CoveredAdds
      <3>6. Connects(r)'
        BY <3>1, <3>4, <3>5, <1>1 DEF Connects, Finishes, Connection, OfPhases
      <3>. QED  BY <3>6, <2>2 DEF s, Assembles
    <2>. QED  BY <2>2, <2>3, <2>4, <2>5, <2>6 DEF Underway, Assembles, s
  <1>. QED  BY <1>1, <1>2, <1>3, <1>4 DEF Underway

LEMMA AsmWorks ==
  ASSUME OneAssembler, OrderInv, InitType, TreeInv, Underway, NEW a \in Actor, Work(a)
  PROVE  AsmInv'
  <1>1. /\ Main \in Actor /\ state \in {"Building", "Connecting", "Aborting"}
        /\ state = "Building" => Early
        /\ \A b \in Actor \ {Main} : Rests(todo[b])
        /\ Assembles(todo[Main])
    BY DEF OneAssembler, Underway
  <1>2. \A b \in Actor : b # a => todo'[b] = todo[b]
    BY WorkIsLocal
  <1>3. \A s : Rests(s) => Rests(s)'
    BY DEF Rests, Calm
  <1>4. UNCHANGED tree /\ Early => Early'
    BY DEF tree, Early, Present
  <1>5. CASE a # Main
    <2>1. Rests(todo'[a]) /\ UNCHANGED tree /\ state' \in {state, "Aborting"}
      BY <1>1, <1>5, RestsOn
    <2>2. Assembles(todo[Main])'
      <3>1. PICK s : s = todo[Main] /\ s = todo'[Main]
        BY <1>1, <1>2, <1>5
      <3>2. Assembles(s)
        BY <1>1, <3>1
      <3>3. Assembles(s)'
        BY <3>2, <2>1, AssemblesStays
      <3>. QED  BY <3>1, <3>3
    <2>3. \A b \in Actor \ {Main} : Rests(todo'[b])
      BY <2>1, <1>1, <1>2
    <2>. QED  BY <2>1, <2>2, <2>3, <1>1, <1>3, <1>4 DEF AsmInv, Underway
  <1>6. CASE a = Main /\ Rests(todo[a])
    <2>1. Rests(todo'[a]) /\ UNCHANGED tree /\ state' \in {state, "Aborting"}
      BY <1>1, <1>6, RestsOn
    <2>2. \A b \in Actor \ {Main} : Rests(todo'[b])
      BY <1>1, <1>2, <1>6
    <2>. QED  BY <2>1, <2>2, <1>1, <1>3, <1>4, <1>6 DEF AsmInv, Underway, Assembles
  <1>7. ASSUME a = Main, Assembles(todo[a])', state' \in {state, "Connecting", "Aborting"},
               state' = "Building" => Early'
        PROVE  Underway'
    <2>1. \A b \in Actor \ {Main} : Rests(todo'[b])
      BY <1>1, <1>2, <1>7
    <2>. QED  BY <2>1, <1>1, <1>3, <1>7 DEF Underway
  <1>8. CASE a = Main /\ Publishes(todo[a])
    <2>1. Publishes(todo[a])' /\ state' \in {state, "Aborting"} /\ (Early => Early')
      BY <1>8, PublishesOn
    <2>. QED  BY <2>1, <1>1, <1>7, <1>8 DEF AsmInv, Assembles
  <1>9. CASE a = Main /\ Commences(todo[a])
    <2>1. Assembles(todo[a])' /\ UNCHANGED tree /\ state' \in {state, "Connecting", "Aborting"}
      BY <1>9, CommencesOn
    <2>. QED  BY <2>1, <1>1, <1>4, <1>7, <1>9 DEF AsmInv
  <1>10. CASE a = Main /\ Connects(todo[a])
    <2>1. state \in {"Connecting", "Aborting"}
      BY <1>1, <1>10 DEF Connects
    <2>2. CASE Assembles(todo[a])' /\ state' \in {state, "Aborting"}
      BY <2>1, <2>2, <1>7, <1>10 DEF AsmInv
    <2>3. CASE /\ state' = "Standby" /\ AllConnected'
               /\ todo'[a] \in Seq(Calm \union {Just("initialise")})
      <3>. DEFINE X == Tasks({"Building", "Connecting"}, Phase)
      <3>1. Calm \subseteq X /\ Just("initialise") \in X
        BY CalmIs DEF Tasks, Sets, Just, Task, PhaseTask
      <3>. HIDE DEF X
      <3>2. todo'[a] \in Seq(X)
        <4>1. Seq(Calm \union {Just("initialise")}) \subseteq Seq(X)
          BY <3>1, SeqMonotonic
        <4>. QED  BY <4>1, <2>3
      <3>3. \A b \in Actor : b # a => todo'[b] \in Seq(X)
        <4>1. Seq(Calm) \subseteq Seq(X)
          BY <3>1, SeqMonotonic
        <4>. QED  BY <4>1, <1>1, <1>2, <1>10 DEF Rests
      <3>4. todo' = [b \in Actor |-> todo'[b]]
        <4>1. Begets(Tasks({}, Phase)) /\ Task = Tasks({}, Phase)
          <5>1. Task = Tasks({}, Phase)
            BY DEF Tasks, Task, PhaseTask
          <5>. QED  BY <5>1, TasksBeget
        <4>2. todo' \in [Actor -> Seq(Task)]
          BY <4>1, StacksAreTasks, WorkAllIn
        <4>. QED  BY <4>2
      <3>5. todo' \in [Actor -> Seq(X)]
        BY <3>2, <3>3, <3>4
      <3>. QED  BY <2>3, <3>5 DEF AsmInv, Over, X, Tasks
    <2>. QED  BY <2>1, <2>2, <2>3, <1>10, ConnectsOn
  <1>. QED  BY <1>1, <1>5, <1>6, <1>8, <1>9, <1>10 DEF Assembles

LEMMA AsmNext ==
  ASSUME OneAssembler, OrderInv, InitType, TreeInv, Onward, AsmInv, [Next]_vars
  PROVE  AsmInv'
  <1>1. CASE Over
    BY <1>1, OverStays DEF AsmInv
  <1>2. CASE Underway
    <2>1. ASSUME UNCHANGED <<state, tree, todo>>
          PROVE  Underway'
      <3>1. PICK s : s = todo[Main] /\ s = todo'[Main]
        BY <2>1
      <3>2. Assembles(s)'
        BY <2>1, <3>1, <1>2, AssemblesStays DEF Underway
      <3>3. \A b \in Actor \ {Main} : Rests(todo[b])'
        BY <2>1, <1>2 DEF Underway, Rests, Calm
      <3>4. Early => Early'
        BY <2>1 DEF tree, Early, Present
      <3>5. Assembles(todo[Main])'
        BY <3>1, <3>2
      <3>. QED  BY <2>1, <3>3, <3>4, <3>5, <1>2 DEF Underway
    <2>2. CASE UNCHANGED vars
      BY <2>1, <2>2 DEF vars, tree, AsmInv
    <2>3. ASSUME NEW a \in Actor, AddInitEntryPoint(a)
          PROVE  Underway'
      BY <2>1, <2>3 DEF AddInitEntryPoint
    <2>4. ASSUME NEW a \in Actor, Tells(a)
          PROVE  Underway'
      BY <2>4, <1>2, AsmTells
    <2>5. ASSUME NEW a \in Actor, Add(a) \/ AddConnected(a)
          PROVE  Underway'
      <3>1. PICK c, p, old : Adds(a, c, p, old)
        BY <2>5, AdditionAdds
      <3>. QED  BY <3>1, <1>2, AsmAdds
    <2>6. ASSUME NEW a \in Actor, Work(a)
          PROVE  AsmInv'
      BY <2>6, <1>2, AsmWorks
    <2>. QED  BY <2>2, <2>3, <2>4, <2>5, <2>6, StepIs DEF AsmInv
  <1>. QED  BY <1>1, <1>2 DEF AsmInv

LEMMA ConnectMakesUp ==
  ASSUME OneAssembler, OrderInv, AsmInv
  PROVE  ConnectNeverRefuses
  <1>. SUFFICES ASSUME NEW a \in Actor, state = "Connecting", At(a, "phase") \/ At(a, "enter")
                PROVE  LET t == Head(todo[a]) IN
                       \/ t.do = "phase" /\ Behind(t.ph, t.c)
                       \/ comp[t.c] = Before[t.ph]
                       \/ t.c \in own
    BY DEF ConnectNeverRefuses
  <1>1. PICK s, t : s = todo[a] /\ t = Head(todo[a])
    OBVIOUS
  <1>2. s \in Seq(Task) /\ s # <<>> /\ t = s[1] /\ t \in Task /\ t.do \in {"phase", "enter"}
        /\ 1 \in DOMAIN s /\ DOMAIN s = 1 .. Len(s)
    <2>1. s \in Seq(Task) /\ s # <<>> /\ t.do \in {"phase", "enter"} /\ t = s[1]
      BY <1>1, StacksAreTasks DEF At
    <2>. QED  BY <2>1, HeadTailProperties, TasksInside, LenProperties, EmptySeq
  <1>3. PhaseTask(t) /\ t.ph \in Phase /\ t.c \in Component
    BY <1>2, PhaseTaskIs DEF PhaseTask
  <1>4. Underway
    BY DEF AsmInv, Over
  <1>5. ~Rests(s)
    <2>. SUFFICES ASSUME Rests(s) PROVE FALSE
      OBVIOUS
    <2>1. t \in Calm
      BY <1>2, ElementOfSeq DEF Rests
    <2>. QED  BY <2>1, <1>3, CalmIs
  <1>6. Connects(s)
    BY <1>1, <1>4, <1>5 DEF Underway, Assembles, Publishes, Commences
  <1>7. t.ph \in Assembling
    <2>1. PICK k \in Nat : Finishes(s, k)
      BY <1>6 DEF Connects
    <2>2. k # 0
      BY <2>1, <1>2 DEF Finishes, Sets
    <2>3. t \in Connection
      BY <2>1, <2>2, <1>2 DEF Finishes, UpTo
    <2>4. t \notin Calm
      BY <1>3, CalmIs
    <2>. QED  BY <2>3, <2>4 DEF Connection, OfPhases, Calm
  <1>8. Rank[comp[t.c]] < Height(t.ph) \/ t.c \in own
    <2>1. Timely(t)
      BY <1>2, <1>6 DEF Connects, Careful, AllTimely
    <2>2. Reaches(t, t.c)
      BY <1>2 DEF Reaches
    <2>. QED  BY <2>1, <2>2, <1>3 DEF Timely
  <1>9. t.do = "enter" => comp[t.c] = Before[t.ph]
    <2>1. \A j \in DOMAIN s : ~(j < 1)
      BY <1>2
    <2>. QED  BY <2>1, <1>2, <1>6 DEF Connects, Careful, ResumedBy, Done
  <1>10. t.do = "phase" /\ Rank[comp[t.c]] < Height(t.ph) => Behind(t.ph, t.c) \/ comp[t.c] = Before[t.ph]
    <2>1. comp[t.c] \in {"Created", "Publishing", "Configured", "Connected", "Disconnected", "Deleted"}
      BY <1>3 DEF OrderInv, TreeType, Rank
    <2>2. /\ Rank["Created"] = 0 /\ Rank["Publishing"] = 1 /\ Rank["Configured"] = 2
          /\ Rank["Connected"] = 3 /\ Rank["Disconnected"] = 4 /\ Rank["Deleted"] = 5
      BY DEF Rank
    <2>3. t.ph \in {"Publish", "Configure", "Connect"}
      BY <1>7 DEF Assembling
    <2>. QED  BY <2>1, <2>2, <2>3, HeightsAre DEF Behind, Before
  <1>. QED  BY <1>1, <1>2, <1>8, <1>9, <1>10

LEMMA StandbyIsOver ==
  ASSUME AsmInv, state \notin {"Building", "Connecting", "Aborting"}
  PROVE  Over
  BY DEF AsmInv, Underway

-----------------------------------------------------------------------------
(***************************************************************************)
(* Exit. When no call has come during another one, the actor that exits    *)
(* has nothing else to do, and the others run client code.                 *)
(***************************************************************************)
Disconnecting == {t \in Task : t = Client \/ (PhaseTask(t) /\ t.ph = "Disconnect")}

Staying == Tasks({"Exiting"}, Assembling)

ExitsAfter(s, k) ==
  /\ Len(s) >= k + 3 /\ UpTo(s, k, {Client})
  /\ Sets(s[k + 1], "Exiting")
  /\ s[k + 2] = For("Disconnect", "services") /\ s[k + 3] = For("Disconnect", "models")
  /\ \A j \in 4 .. Len(s) - k : s[k + j] = Client

Departs(s) == s \in Seq(Task) /\ \E k \in Nat : ExitsAfter(s, k)

Leaves(s) == Rests(s) \/ (s \in Seq(Disconnecting) /\ Careful(s))

ExitInv ==
  ~overlap =>
    /\ state = "Exiting" => \A a \in Actor : Leaves(todo[a])
    /\ state # "Exiting" => \A a \in Actor : todo[a] \in Seq(Staying) \/ Departs(todo[a])
    /\ (\E c \in Component : comp[c] = "Disconnected") =>
         state = "Exiting" \/ (state = "Aborting" /\ \A a \in Actor : Rests(todo[a]))

LEMMA DisconnectingBegets == Begets(Disconnecting)
  <1>. DEFINE X == Disconnecting
              ph == "Disconnect"
  <1>1. X \subseteq Task /\ Client \in X
    BY DEF Disconnecting, Client, Task
  <1>2. \A t \in X : /\ t.do \in {"client", "for", "walk", "phase", "enter"}
                     /\ PhaseTask(t) => t.ph = ph
    BY DEF Disconnecting, PhaseTask, Client
  <1>3. ph \in Phase
    BY DEF Phase
  <1>4. \A p \in Place : For(ph, p) \in X
    BY <1>3 DEF Disconnecting, For, Task, PhaseTask
  <1>5. \A p \in Place, i, n \in Nat : Walk(ph, p, i, n) \in X
    BY <1>3 DEF Disconnecting, Walk, Task, PhaseTask
  <1>6. \A c \in Component : DoPhase(ph, c) \in X
    BY <1>3 DEF Disconnecting, DoPhase, Task, PhaseTask
  <1>7. ASSUME NEW t \in X
        PROVE  /\ t.do \in {"for", "walk"} => t.ph = ph /\ t.in \in Place
               /\ t.do \in {"phase", "enter"} => t.ph = ph /\ t.c \in Component /\ t.c \in Place
    BY <1>1, <1>2, PhaseTaskIs DEF PhaseTask, Place
  <1>8. ph \notin {"Configure", "Connect"}
    OBVIOUS
  <1>. HIDE DEF X, ph
  <1>. QED  BY <1>1, <1>2, <1>4, <1>5, <1>6, <1>7, <1>8 DEF Begets, X

LEMMA IdleIs ==
  ASSUME NEW s \in Seq(Task), Idle(s)
  PROVE  Rests(s) /\ s \in Seq(Staying) /\ Leaves(s)
  <1>1. Client \in Calm /\ Client \in Staying
    BY CalmIs DEF Staying, Tasks, Sets, PhaseTask, Client, Task
  <1>2. \A i \in DOMAIN s : s[i] \in Calm /\ s[i] \in Staying
    BY <1>1 DEF Idle
  <1>3. s \in Seq(Calm)
    BY <1>2, LenProperties, SeqDef
  <1>4. s \in Seq(Staying)
    BY <1>2, LenProperties, SeqDef
  <1>. QED  BY <1>3, <1>4 DEF Rests, Leaves

LEMMA OthersIdle ==
  ASSUME InitInv, ~overlap, NEW a \in Actor, ~Idle(todo[a])
  PROVE  \A b \in Actor : b # a => Idle(todo[b])
  BY DEF InitInv, Quiet, InTurn

LEMMA SameLeaves ==
  ASSUME UNCHANGED tree, NEW s, Leaves(s)
  PROVE  Leaves(s)'
  BY SameCareful DEF Leaves, Rests, Calm, Disconnecting

\* What follows when the exit's state is assigned.
LEMMA FreshExit ==
  ASSUME OrderInv, TreeInv, \A c \in Component : comp[c] # "Disconnected",
         NEW r \in Seq(Task), NEW l \in Nat, Len(r) >= l + 2, UpTo(r, l, {Client}),
         r[l + 1] = For("Disconnect", "services"), r[l + 2] = For("Disconnect", "models"),
         \A j \in 3 .. Len(r) - l : r[l + j] = Client
  PROVE  Leaves(r)
  <1>. DEFINE f == For("Disconnect", "services")
              g == For("Disconnect", "models")
  <1>1. /\ DOMAIN r = 1 .. Len(r) /\ Len(r) \in Nat /\ l + 1 \in DOMAIN r /\ l + 2 \in DOMAIN r
        /\ \A i \in DOMAIN r : i \in 1 .. l \/ i \in {l + 1, l + 2} \/ i - l \in 3 .. Len(r) - l
        /\ \A i \in DOMAIN r : i = l + (i - l)
    BY LenProperties
  <1>2. /\ f.do = "for" /\ f.ph = "Disconnect" /\ f.in = "services" /\ PhaseTask(f) /\ f \in Task
        /\ g.do = "for" /\ g.ph = "Disconnect" /\ g.in = "models" /\ PhaseTask(g) /\ g \in Task
    BY DEF For, PhaseTask, Task, Phase, Place
  <1>3. r[l + 1] = f /\ r[l + 2] = g
    OBVIOUS
  <1>. HIDE DEF f, g
  <1>4. \A i \in DOMAIN r : r[i] = Client \/ i = l + 1 \/ i = l + 2
    BY <1>1 DEF UpTo
  <1>5. \A i \in DOMAIN r : PhaseTask(r[i]) => i = l + 1 \/ i = l + 2
    BY <1>4 DEF PhaseTask, Client
  <1>6. ASSUME NEW t \in {f, g}
        PROVE  Timely(t)
    <2>. SUFFICES ASSUME NEW c \in Component, Reaches(t, c)
                  PROVE  Rank[comp[c]] < Height(t.ph)
      BY DEF Timely
    <2>1. home[c] = t.in /\ t.in # None
      BY <1>2, ConstantsAssumption DEF Reaches, Place
    <2>2. comp[c] # "Deleted" /\ comp[c] # "Disconnected"
      BY <2>1 DEF TreeInv, NoneIsDeleted
    <2>3. comp[c] \in {"Created", "Publishing", "Configured", "Connected", "Disconnected", "Deleted"}
      BY DEF OrderInv, TreeType, Rank
    <2>4. Rank[comp[c]] < 4
      BY <2>2, <2>3 DEF Rank
    <2>. QED  BY <2>4, <1>2, HeightsAre
  <1>7. Ordered(f, g)
    BY <1>2 DEF Ordered, Apart
  <1>8. Sorted(r)
    <2>. SUFFICES ASSUME NEW i \in DOMAIN r, NEW j \in DOMAIN r, i < j,
                         PhaseTask(r[i]), PhaseTask(r[j])
                  PROVE  Ordered(r[i], r[j])
      BY DEF Sorted, Ordered
    <2>1. i = l + 1 /\ j = l + 2
      BY <1>1, <1>5
    <2>. QED  BY <2>1, <1>3, <1>7
  <1>9. AllTimely(r)
    BY <1>3, <1>5, <1>6 DEF AllTimely, Timely
  <1>10. Seen(r) /\ ResumedBy(r, Done)
    BY <1>2, <1>3, <1>5 DEF Seen, ResumedBy, PhaseTask
  <1>11. r \in Seq(Disconnecting)
    <2>1. f \in Disconnecting /\ g \in Disconnecting /\ Client \in Disconnecting
      BY <1>2, CalmIs DEF Disconnecting
    <2>2. \A i \in DOMAIN r : r[i] \in Disconnecting
      BY <2>1, <1>3, <1>4
    <2>. QED  BY <2>2, LenProperties, SeqDef
  <1>. QED  BY <1>8, <1>9, <1>10, <1>11 DEF Careful, Leaves

LEMMA ClientBegets == Begets({Client})
  <1>1. Client \in Task /\ Client.do = "client"
    BY DEF Client, Task
  <1>. QED  BY <1>1 DEF Begets

LEMMA ExitsWay ==
  ASSUME NEW s, NEW k \in Nat, NEW r, NEW l \in Nat, ExitsAfter(s, k), SameEnd(s, k, r, l),
         UpTo(r, l, {Client}), Len(s) \in Nat
  PROVE  ExitsAfter(r, l)
  <1>1. Len(s) >= k + 3 /\ Len(r) = l + (Len(s) - k)
    BY DEF ExitsAfter, SameEnd
  <1>2. Len(r) >= l + 3 /\ Len(r) - l = Len(s) - k
    BY <1>1
  <1>3. (\A j \in 1 .. Len(s) - k : r[l + j] = s[k + j]) /\ {1, 2, 3} \subseteq 1 .. Len(s) - k
        /\ 4 .. Len(s) - k \subseteq 1 .. Len(s) - k
    BY <1>1 DEF SameEnd
  <1>4. r[l + 1] = s[k + 1] /\ r[l + 2] = s[k + 2] /\ r[l + 3] = s[k + 3]
    BY <1>3, Zenon
  <1>5. \A j \in 4 .. Len(r) - l : r[l + j] = s[k + j]
    BY <1>2, <1>3
  <1>. QED  BY <1>2, <1>4, <1>5 DEF ExitsAfter

LEMMA DepartsOn ==
  ASSUME OrderInv, InitType, TreeInv, NEW a \in Actor, Work(a), Departs(todo[a]),
         state # "Exiting", \A c \in Component : comp[c] # "Disconnected"
  PROVE  /\ UNCHANGED tree
         /\ \/ state' = state /\ (Departs(todo'[a]) \/ todo'[a] = <<>>)
            \/ state' = "Exiting" /\ Leaves(todo[a])'
  <1>1. PICK s, r : s = todo[a] /\ r = todo'[a]
    OBVIOUS
  <1>2. s \in Seq(Task)
    BY <1>1 DEF Departs
  <1>3. PICK k \in Nat : ExitsAfter(s, k)
    BY <1>1 DEF Departs
  <1>4. Head(s) = s[1] /\ s # <<>> /\ s[1] \in Task /\ Len(s) \in Nat
    BY <1>1, <1>2, WorkHasTask, HeadTailProperties, ElementOfSeq, LenProperties
  <1>5. CASE k # 0
    <2>1. s[1] = Client /\ k \in Nat \ {0} /\ k <= Len(s) /\ UpTo(s, k, {Client})
      BY <1>3, <1>4, <1>5 DEF ExitsAfter, UpTo
    <2>2. UNCHANGED tree /\ state' = state
      <3>1. ~At(a, "phase") /\ ~At(a, "enter") /\ ~At(a, "assign")
        BY <2>1, <1>1, <1>4 DEF At, Client
      <3>. QED  BY <3>1, WorkOnTree, WorkOnState DEF AssignState
    <2>3. Head(todo[a]) \in {Client}
      BY <2>1, <1>1, <1>4
    <2>4. CASE Throws(a)
      BY <2>2, <2>4, StacksAreTasks DEF Throws
    <2>5. ASSUME NEW tasks \in Seq({Client}), Becomes(a, tasks)
          PROVE  Departs(r)
      <3>1. tasks \in Seq(Task) /\ \A i \in DOMAIN tasks : tasks[i] \in {Client}
        <4>1. \A i \in DOMAIN tasks : tasks[i] \in {Client}
          BY LenProperties, ElementOfSeq
        <4>2. {Client} \subseteq Task
          BY DEF Client, Task
        <4>. QED  BY <4>1, <4>2, SeqMonotonic
      <3>2. GivesWay(s, tasks, r)
        BY <2>5, <3>1, <1>1, <1>4, BecomesGivesWay
      <3>3. PICK l \in Nat : UpTo(r, l, {Client}) /\ SameEnd(s, k, r, l)
        BY <2>1, <3>1, <3>2, FirstPartWay
      <3>4. ExitsAfter(r, l)
        BY <3>3, <1>3, <1>4, ExitsWay
      <3>. QED  BY <3>2, <3>4 DEF Departs, GivesWay
    <2>. QED  BY <2>2, <2>3, <2>4, <2>5, <1>1, ClientBegets, WorkBecomes
  <1>6. CASE k = 0
    <2>1. /\ Len(s) >= 3 /\ Sets(s[1], "Exiting")
          /\ s[2] = For("Disconnect", "services") /\ s[3] = For("Disconnect", "models")
          /\ \A j \in 4 .. Len(s) : s[j] = Client
      BY <1>3, <1>4, <1>6 DEF ExitsAfter
    <2>2. CASE s[1].do = "setState"
      <3>1. Head(todo[a]).to = "Exiting" /\ At(a, "setState")
        BY <1>1, <1>4, <2>1, <2>2 DEF Sets, At
      <3>2. PICK tasks \in Seq(Task), u \in Nat :
              /\ GivesWay(s, tasks, r)
              /\ Len(tasks) = u + 1 /\ (\A i \in 1 .. u : tasks[i] = Client)
              /\ tasks[u + 1] = Assign("Exiting")
              /\ UNCHANGED <<state, tree>>
        BY <3>1, <1>1, SetStateWay
      <3>3. /\ r[u + 1] = Assign("Exiting") /\ UpTo(r, u, {Client}) /\ r \in Seq(Task)
            /\ Len(r) = Len(s) + u
            /\ \A j \in 2 .. Len(s) : r[j + u] = s[j]
        <4>1. /\ r \in Seq(Task) /\ Len(r) = Len(tasks) + Len(s) - 1
              /\ \A i \in 1 .. Len(tasks) : r[i] = tasks[i]
              /\ \A j \in 2 .. Len(s) : r[j + (Len(tasks) - 1)] = s[j]
          BY <3>2 DEF GivesWay
        <4>2. Len(tasks) = u + 1 /\ Len(tasks) - 1 = u
          BY <3>2
        <4>3. \A j \in 2 .. Len(s) : r[j + u] = s[j]
          BY <4>1, <4>2
        <4>4. r[u + 1] = Assign("Exiting") /\ UpTo(r, u, {Client})
          BY <4>1, <4>2, <3>2 DEF UpTo
        <4>5. Len(r) = Len(s) + u
          BY <4>1, <4>2, <1>4
        <4>. QED  BY <4>1, <4>3, <4>4, <4>5
      <3>4. {2, 3} \subseteq 2 .. Len(s) /\ 2 + u = u + 2 /\ 3 + u = u + 3
            /\ Len(r) >= u + 3 /\ Len(r) - u = Len(s)
        BY <2>1, <3>3, <1>4
      <3>5. r[2 + u] = s[2] /\ r[3 + u] = s[3]
        BY <3>3, <3>4, Zenon
      <3>6. \A j \in 4 .. Len(r) - u : r[u + j] = Client
        <4>. SUFFICES ASSUME NEW j \in 4 .. Len(s) PROVE r[u + j] = Client
          BY <3>4
        <4>1. j \in 2 .. Len(s) /\ u + j = j + u
          BY <1>4
        <4>. QED  BY <4>1, <3>3, <2>1
      <3>7. ExitsAfter(r, u)
        BY <3>3, <3>4, <3>5, <3>6, <2>1 DEF ExitsAfter, Sets, Assign
      <3>. QED  BY <3>2, <3>3, <3>7, <1>1 DEF Departs
    <2>3. CASE s[1].do = "assign"
      <3>1. Head(todo[a]).to = "Exiting" /\ At(a, "assign")
        BY <1>1, <1>4, <2>1, <2>3 DEF Sets, At
      <3>2. PICK tasks \in Seq(Task) :
              /\ GivesWay(s, tasks, r)
              /\ \A i \in DOMAIN tasks : tasks[i] = Client
              /\ state' = "Exiting" /\ UNCHANGED tree
        BY <3>1, <1>1, AssignWay
      <3>3. PICK l \in Nat : l = Len(tasks)
        BY LenProperties
      <3>4. /\ UpTo(r, l, {Client}) /\ r \in Seq(Task) /\ Len(r) = l + (Len(s) - 1)
            /\ \A j \in 2 .. Len(s) : r[j + (l - 1)] = s[j]
        <4>1. DOMAIN tasks = 1 .. l /\ \A i \in 1 .. l : r[i] = tasks[i]
          BY <3>2, <3>3, WayOrigin
        <4>2. /\ r \in Seq(Task) /\ Len(r) = l + Len(s) - 1
              /\ \A j \in 2 .. Len(s) : r[j + (l - 1)] = s[j]
          BY <3>2, <3>3 DEF GivesWay
        <4>3. UpTo(r, l, {Client})
          BY <4>1, <3>2 DEF UpTo
        <4>. QED  BY <4>2, <4>3, <1>4
      <3>5. {2, 3} \subseteq 2 .. Len(s) /\ 2 + (l - 1) = l + 1 /\ 3 + (l - 1) = l + 2
            /\ Len(r) >= l + 2 /\ Len(r) - l = Len(s) - 1
        BY <2>1, <3>4, <1>4
      <3>6. r[2 + (l - 1)] = s[2] /\ r[3 + (l - 1)] = s[3]
        BY <3>4, <3>5, Zenon
      <3>7. \A j \in 3 .. Len(r) - l : r[l + j] = Client
        <4>. SUFFICES ASSUME NEW j \in 3 .. Len(s) - 1 PROVE r[l + j] = Client
          BY <3>5
        <4>1. j + 1 \in 2 .. Len(s) /\ j + 1 \in 4 .. Len(s) /\ l + j = (j + 1) + (l - 1)
          BY <1>4
        <4>. QED  BY <4>1, <3>4, <2>1
      <3>8. Leaves(r)
        BY <3>4, <3>5, <3>6, <3>7, <2>1, FreshExit
      <3>9. Leaves(r)'
        BY <3>2, <3>8, SameLeaves
      <3>. QED  BY <3>2, <3>9, <1>1
    <2>. QED  BY <2>1, <2>2, <2>3 DEF Sets
  <1>. QED  BY <1>5, <1>6

LEMMA LeavesOn ==
  ASSUME OrderInv, InitType, TreeInv, NEW a \in Actor, Work(a),
         todo[a] \in Seq(Disconnecting), Careful(todo[a])
  PROVE  /\ state' = state /\ Leaves(todo[a])'
         /\ UNCHANGED tree \/ (~At(a, "client") /\ \E c : Advances(c, "Disconnect"))
  <1>1. PICK s, r : s = todo[a] /\ r = todo'[a]
    OBVIOUS
  <1>2. r \in Seq(Disconnecting)
    BY <1>1, DisconnectingBegets, WorkIn
  <1>3. /\ s \in Seq(Disconnecting) /\ s \in Seq(Task) /\ Careful(s)
        /\ Head(s) = s[1] /\ s # <<>> /\ s[1] \in Disconnecting /\ s[1] \in Task
    <2>1. s \in Seq(Disconnecting) /\ s # <<>> /\ s[1] \in Disconnecting /\ Head(s) = s[1]
      BY <1>1, WorkHasTask, HeadTailProperties
    <2>. QED  BY <2>1, <1>1, StacksAreTasks DEF Disconnecting
  <1>4. Careful(r)' => Leaves(todo[a])'
    BY <1>1, <1>2 DEF Leaves, Disconnecting
  <1>5. CASE PhaseTask(s[1]) /\ s[1].ph = "Disconnect"
    <2>1. Careful(r)' /\ state' = state
      BY <1>1, <1>3, <1>5, CarefulWorks, PhaseWorks
    <2>2. ~At(a, "client")
      BY <1>1, <1>3, <1>5 DEF At, PhaseTask
    <2>3. UNCHANGED tree \/ Advances(s[1].c, s[1].ph)
      BY <1>1, <1>3, WorkOnTree
    <2>. QED  BY <2>1, <2>2, <2>3, <1>4, <1>5
  <1>6. CASE s[1] = Client
    <2>1. UNCHANGED tree /\ state' = state
      <3>1. ~At(a, "phase") /\ ~At(a, "enter") /\ ~At(a, "assign")
        BY <1>1, <1>3, <1>6 DEF At, Client
      <3>. QED  BY <3>1, WorkOnTree, WorkOnState DEF AssignState
    <2>2. CASE Throws(a)
      <3>1. r = <<>>
        BY <2>2, <1>1, StacksAreTasks DEF Throws
      <3>2. Careful(r)
        BY <3>1 DEF Careful, Sorted, AllTimely, Seen, ResumedBy
      <3>. QED  BY <3>2, <2>1, <1>4, SameCareful
    <2>3. ASSUME NEW tasks \in Seq({Client}), Becomes(a, tasks)
          PROVE  Careful(r)
      <3>1. tasks \in Seq(Task) /\ \A i \in DOMAIN tasks : ~PhaseTask(tasks[i])
        <4>1. \A i \in DOMAIN tasks : tasks[i] = Client
          BY LenProperties, ElementOfSeq
        <4>2. {Client} \subseteq Task /\ ~PhaseTask(Client)
          BY DEF Client, Task, PhaseTask
        <4>. QED  BY <4>1, <4>2, SeqMonotonic
      <3>2. GivesWay(s, tasks, r)
        BY <2>3, <3>1, <1>1, <1>3, BecomesGivesWay
      <3>3. s[1].do \notin {"phase", "enter"}
        BY <1>6 DEF Client
      <3>. QED  BY <3>1, <3>2, <3>3, <1>3, CarefulPlain
    <2>. QED  BY <2>1, <2>2, <2>3, <1>1, <1>3, <1>4, <1>6, ClientBegets, WorkBecomes, SameCareful
  <1>. QED  BY <1>3, <1>5, <1>6 DEF Disconnecting

LEMMA TripleIn ==
  ASSUME NEW X, NEW x \in X, NEW y \in X, NEW z \in X
  PROVE  <<x, y, z>> \in Seq(X)
  OBVIOUS

LEMMA CalmStays == Calm \subseteq Staying /\ Seq(Calm) \subseteq Seq(Staying)
  <1>1. Calm \subseteq Staying
    BY CalmIs DEF Staying, Tasks, Sets
  <1>. QED  BY <1>1, SeqMonotonic

LEMMA SameRests ==
  ASSUME NEW s, Rests(s)
  PROVE  Rests(s)' /\ Leaves(s)'
  BY DEF Rests, Calm, Leaves

LEMMA ExitInit == Init => ExitInv
  <1>. SUFFICES ASSUME Init PROVE ExitInv
    OBVIOUS
  <1>1. /\ state = "Building" /\ comp = [c \in Component |-> "Created"]
        /\ todo = [a \in Actor |-> <<>>]
    BY DEF Init
  <1>. QED  BY <1>1, EmptySeq DEF ExitInv

\* The calls, when all the stacks are of client code.
LEMMA ExitTells ==
  ASSUME OrderInv, InitInv, ExitInv, NEW a \in Actor, Tells(a), ~overlap'
  PROVE  ExitInv'
  <1>1. PICK call, st, tasks : /\ Accepted(a, call, tasks) /\ CallIs(a, st, tasks)
                               /\ state \in st \/ st = SimState
    BY TellsIs
  <1>2. /\ UNCHANGED <<state, tree>> /\ todo' = [todo EXCEPT ![a] = tasks \o @]
        /\ ~overlap /\ \A b \in Actor : Idle(todo[b])
    BY <1>1 DEF Accepted, Busy, Idle
  <1>3. tasks \in Seq(Task)
    BY <1>1, CallIsTasks
  <1>4. PICK s, r : s = todo[a] /\ r = todo'[a]
    OBVIOUS
  <1>5. /\ s \in Seq(Task) /\ Idle(s) /\ r = tasks \o s /\ Upon(s, tasks, r)
        /\ \A b \in Actor : b # a => todo'[b] = todo[b]
    BY <1>2, <1>3, <1>4, StacksAreTasks, PushIsUpon
  <1>6. \A b \in Actor : Rests(todo[b]) /\ todo[b] \in Seq(Staying)
    BY <1>2, StacksAreTasks, IdleIs
  <1>7. ASSUME NEW b \in Actor, b # a
        PROVE  Rests(todo[b])' /\ Leaves(todo[b])' /\ todo'[b] \in Seq(Staying)
    <2>1. todo'[b] = todo[b]
      BY <1>5, <1>7
    <2>. QED  BY <2>1, <1>6, SameRests
  <1>8. state \in {"Exiting", "Aborting"} => Rests(todo[a])' /\ Leaves(todo[a])' /\ r \in Seq(Staying)
    <2>. SUFFICES ASSUME state \in {"Exiting", "Aborting"}
                  PROVE  r \in Seq(Calm)
      BY <1>4, CalmStays, SameRests DEF Rests
    <2>1. tasks = <<SetState("Aborting")>>
      <3>1. SimState # {"Building"} /\ SimState # {"Standby"} /\ SimState # {"Executing"}
        BY DEF SimState
      <3>. QED  BY <3>1, <1>1 DEF CallIs
    <2>2. tasks \in Seq(Calm) /\ s \in Seq(Calm)
      BY <2>1, <1>4, <1>6, CalmIs DEF Rests
    <2>. QED  BY <2>2, <1>5, ConcatProperties
  <1>9. CASE Exit(a)
    <2>1. /\ state = "Standby"
          /\ Accepted(a, "Exit", <<SetState("Exiting")>> \o ForAll("Disconnect"))
      BY <1>9 DEF Exit
    <2>2. PICK x, y, z : x = SetState("Exiting") /\ y = For("Disconnect", "services")
                         /\ z = For("Disconnect", "models")
      OBVIOUS
    <2>3. <<SetState("Exiting")>> \o ForAll("Disconnect") = <<x, y, z>>
      <3>1. ForAll("Disconnect") = <<y, z>>
        BY <2>2 DEF ForAll
      <3>. QED  BY <3>1, <2>2, OneAndTwo
    <2>4. x \in Task /\ y \in Task /\ z \in Task /\ Sets(x, "Exiting")
      BY <2>2 DEF SetState, For, Task, Phase, Place, SimState, Sets
    <2>5. PICK exit : exit = <<x, y, z>> /\ exit \in Seq(Task)
      <3>1. x \in Task /\ y \in Task /\ z \in Task
        BY <2>4
      <3>2. <<x, y, z>> \in Seq(Task)
        BY <3>1, TripleIn
      <3>. QED  BY <3>2
    <2>6. Upon(s, exit, r)
      <3>1. todo' = [todo EXCEPT ![a] = exit \o @]
        BY <2>1, <2>3, <2>5 DEF Accepted
      <3>. QED  BY <3>1, <2>5, <1>4, PushIsUpon
    <2>7. Len(exit) = 3 /\ exit[1] = x /\ exit[2] = y /\ exit[3] = z
      BY <2>5
    <2>8. /\ r \in Seq(Task) /\ Len(r) = 3 + Len(s) /\ Len(s) \in Nat
          /\ r[1] = x /\ r[2] = y /\ r[3] = z
          /\ \A i \in 1 .. Len(s) : r[i + 3] = s[i]
      <3>1. /\ r \in Seq(Task) /\ Len(r) = Len(exit) + Len(s)
            /\ \A i \in 1 .. Len(exit) : r[i] = exit[i]
            /\ \A i \in 1 .. Len(s) : r[i + Len(exit)] = s[i]
        BY <2>6 DEF Upon
      <3>. QED  BY <3>1, <2>7, <1>5, LenProperties
    <2>9. \A j \in 4 .. Len(r) : r[j] = Client
      <3>. SUFFICES ASSUME NEW j \in 4 .. Len(r) PROVE r[j] = Client
        OBVIOUS
      <3>1. j - 3 \in 1 .. Len(s) /\ (j - 3) + 3 = j /\ j - 3 \in DOMAIN s
        BY <2>8, <1>5, LenProperties
      <3>. QED  BY <3>1, <2>8, <1>5 DEF Idle
    <2>10. ExitsAfter(r, 0)
      <3>1. /\ Len(r) >= 0 + 3 /\ Len(r) - 0 = Len(r) /\ 0 + 1 = 1 /\ 0 + 2 = 2 /\ 0 + 3 = 3
            /\ \A j \in 4 .. Len(r) : 0 + j = j
        BY <2>8
      <3>2. UpTo(r, 0, {Client})
        BY DEF UpTo
      <3>. QED  BY <3>1, <3>2, <2>2, <2>4, <2>8, <2>9 DEF ExitsAfter
    <2>11. Departs(r)
      BY <2>8, <2>10 DEF Departs
    <2>12. \A c \in Component : comp[c] # "Disconnected"
      BY <2>1, <1>2 DEF ExitInv
    <2>13. \A b \in Actor : todo'[b] \in Seq(Staying) \/ Departs(todo'[b])
      BY <2>11, <1>4, <1>7
    <2>14. (\A b \in Actor : todo[b] \in Seq(Staying) \/ Departs(todo[b]))'
      BY <2>13 DEF Departs
    <2>. QED  BY <2>1, <2>12, <2>14, <1>2 DEF ExitInv, tree
  <1>10. CASE ~Exit(a)
    <2>1. r \in Seq(Staying)
      <3>1. \A i \in DOMAIN tasks : tasks[i] \in Staying
        <4>. SUFFICES ASSUME NEW i \in DOMAIN tasks PROVE tasks[i] \in Staying
          OBVIOUS
        <4>1. /\ tasks[i] \in Task /\ ~Sets(tasks[i], "Exiting")
              /\ PhaseTask(tasks[i]) => tasks[i].ph # "Disconnect"
          BY <1>1, <1>3, <1>10, CallIsTasks, TasksInside
        <4>2. PhaseTask(tasks[i]) => tasks[i].ph \in Assembling
          BY <4>1, PhaseTaskIs DEF Phase, Assembling
        <4>. QED  BY <4>1, <4>2 DEF Staying, Tasks
      <3>2. tasks \in Seq(Staying)
        BY <3>1, <1>3, LenProperties, SeqDef
      <3>. QED  BY <3>2, <1>4, <1>5, <1>6, ConcatProperties
    <2>2. \A b \in Actor : todo'[b] \in Seq(Staying)
      BY <2>1, <1>4, <1>7
    <2>3. state = "Exiting" => (\A b \in Actor : Leaves(todo[b]))'
      BY <1>7, <1>8
    <2>4. state = "Aborting" => (\A b \in Actor : Rests(todo[b]))'
      BY <1>7, <1>8
    <2>5. (\A b \in Actor : todo[b] \in Seq(Staying) \/ Departs(todo[b]))'
      BY <2>2
    <2>. QED  BY <2>3, <2>4, <2>5, <1>2 DEF ExitInv, tree
  <1>. QED  BY <1>9, <1>10

LEMMA ExitAdds ==
  ASSUME OrderInv, TreeInv, ExitInv, NEW a \in Actor, NEW c, NEW p, NEW old, Adds(a, c, p, old)
  PROVE  ExitInv'
  <1>1. /\ UNCHANGED <<state, todo, overlap>> /\ Enters(c, p, old) /\ WellPlaced'
        /\ comp'[c] = "Created" \/ (comp'[c] = "Connected" /\ c \in own')
        /\ own \subseteq own'
        /\ old # None => \A b \in Actor : \A i \in DOMAIN todo[b] :
             todo[b][i].do = "walk" => todo[b][i].in # "services"
    BY DEF Adds
  <1>2. ASSUME NEW b \in Actor, Leaves(todo[b])
        PROVE  Leaves(todo[b])'
    <2>1. PICK s : s = todo[b] /\ s = todo'[b]
      BY <1>1
    <2>2. CASE Rests(s)
      <3>1. Leaves(s)'
        BY <2>2, SameRests
      <3>. QED  BY <3>1, <2>1
    <2>3. CASE s \in Seq(Disconnecting) /\ Careful(s)
      <3>1. s \in Seq(Task)
        BY <2>1, StacksAreTasks
      <3>2. old # None => \A i \in DOMAIN s : s[i].do = "walk" => s[i].in # "services"
        BY <1>1, <2>1
      <3>3. Careful(s)'
        BY <3>1, <3>2, <2>3, <1>1, CarefulAdds
      <3>4. Leaves(s)'
        BY <3>3, <2>3 DEF Leaves, Disconnecting
      <3>. QED  BY <3>4, <2>1
    <2>. QED  BY <2>1, <2>2, <2>3, <1>2 DEF Leaves
  <1>3. ASSUME NEW d \in Component, comp'[d] = "Disconnected"
        PROVE  comp[d] = "Disconnected"
    BY <1>1, <1>3 DEF Enters
  <1>4. (\A b \in Actor : Rests(todo[b])) => (\A b \in Actor : Rests(todo[b]))'
    BY <1>1 DEF Rests, Calm
  <1>5. (\A b \in Actor : todo[b] \in Seq(Staying) \/ Departs(todo[b]))
        => (\A b \in Actor : todo[b] \in Seq(Staying) \/ Departs(todo[b]))'
    BY <1>1
  <1>. QED  BY <1>1, <1>2, <1>3, <1>4, <1>5 DEF ExitInv

LEMMA ExitWorks ==
  ASSUME OrderInv, InitInv, TreeInv, ExitInv, NEW a \in Actor, Work(a)
  PROVE  ExitInv'
  <1>. SUFFICES ASSUME ~overlap' PROVE ExitInv'
    BY DEF ExitInv
  <1>1. ~overlap /\ InitType
    BY WorkOnState DEF InitInv
  <1>2. \A b \in Actor : b # a => todo'[b] = todo[b]
    BY WorkIsLocal
  <1>3. \A b \in Actor : todo[b] \in Seq(Task)
    BY StacksAreTasks
  <1>4. ASSUME ~Idle(todo[a])
        PROVE  \A b \in Actor : b # a =>
                 Rests(todo[b])' /\ Leaves(todo[b])' /\ todo'[b] \in Seq(Staying)
    <2>1. \A b \in Actor : b # a => Rests(todo[b]) /\ todo[b] \in Seq(Staying)
      BY <1>1, <1>3, <1>4, OthersIdle, IdleIs
    <2>2. \A b \in Actor : b # a => Rests(todo'[b]) /\ todo'[b] \in Seq(Staying)
      BY <2>1, <1>2
    <2>. QED  BY <2>2, SameRests DEF Rests, Calm, Leaves
  <1>5. ASSUME NEW b \in Actor, b # a, UNCHANGED tree, Leaves(todo[b])
        PROVE  Leaves(todo[b])'
    <2>1. PICK s : s = todo[b] /\ s = todo'[b]
      BY <1>2, <1>5
    <2>2. Leaves(s)'
      BY <2>1, <1>5, SameLeaves
    <2>. QED  BY <2>1, <2>2
  <1>6. ~At(a, "client") => ~Idle(todo[a])
    <2>. SUFFICES ASSUME Idle(todo[a]) PROVE At(a, "client")
      OBVIOUS
    <2>1. todo[a] # <<>> /\ todo[a] \in Seq(Task)
      BY <1>3, WorkHasTask
    <2>2. Head(todo[a]) = todo[a][1] /\ 1 \in DOMAIN todo[a]
      BY <2>1, HeadTailProperties, LenProperties, EmptySeq
    <2>. QED  BY <2>1, <2>2 DEF Idle, At, Client
  <1>7. CASE state = "Exiting" /\ Rests(todo[a])
    <2>1. Rests(todo'[a]) /\ UNCHANGED tree /\ state' \in {"Exiting", "Aborting"}
      BY <1>1, <1>7, RestsOn
    <2>2. Rests(todo[a])' /\ Leaves(todo[a])' /\ todo'[a] \in Seq(Staying)
      BY <2>1, CalmStays, SameRests DEF Rests, Calm, Leaves
    <2>3. CASE state' = "Exiting"
      <3>1. \A b \in Actor : Leaves(todo[b])'
        BY <2>1, <2>2, <1>1, <1>5, <1>7 DEF ExitInv
      <3>. QED  BY <3>1, <2>3 DEF ExitInv
    <2>4. CASE state' = "Aborting"
      <3>1. AssignState(a)
        BY <2>4, <1>7, WorkOnState
      <3>2. ~Idle(todo[a])
        BY <3>1, <1>6 DEF AssignState, At
      <3>3. \A b \in Actor : Rests(todo[b])' /\ todo'[b] \in Seq(Staying)
        BY <3>2, <2>2, <1>4
      <3>. QED  BY <3>3, <2>4 DEF ExitInv
    <2>. QED  BY <2>1, <2>3, <2>4
  <1>8. CASE state = "Exiting" /\ ~Rests(todo[a])
    <2>1. todo[a] \in Seq(Disconnecting) /\ Careful(todo[a])
      BY <1>1, <1>8 DEF ExitInv, Leaves
    <2>2. /\ state' = state /\ Leaves(todo[a])'
          /\ UNCHANGED tree \/ ~At(a, "client")
      BY <2>1, <1>1, LeavesOn
    <2>3. \A b \in Actor : b # a => Leaves(todo[b])'
      <3>1. CASE UNCHANGED tree
        BY <3>1, <1>1, <1>5, <1>8 DEF ExitInv
      <3>2. CASE ~At(a, "client")
        BY <3>2, <1>4, <1>6
      <3>. QED  BY <3>1, <3>2, <2>2
    <2>. QED  BY <2>2, <2>3, <1>8 DEF ExitInv
  <1>9. CASE state # "Exiting" /\ todo[a] \in Seq(Staying)
    <2>1. todo'[a] \in Seq(Staying)
      <3>1. Begets(Staying)
        BY TasksBeget DEF Staying
      <3>. QED  BY <3>1, <1>1, <1>9, WorkIn
    <2>2. todo[a] # <<>> /\ Head(todo[a]) \in Staying
      <3>1. todo[a] # <<>>
        BY WorkHasTask
      <3>. QED  BY <3>1, <1>9, HeadTailProperties
    <2>3. state' # "Exiting"
      BY <2>2, <1>9, WorkOnState DEF AssignState, At, Staying, Tasks, Sets
    <2>4. \A b \in Actor : todo'[b] \in Seq(Staying) \/ Departs(todo'[b])
      BY <2>1, <1>1, <1>2, <1>9 DEF ExitInv
    <2>5. ASSUME NEW c \in Component, comp'[c] = "Disconnected"
          PROVE  comp[c] = "Disconnected"
      <3>1. CASE UNCHANGED tree
        BY <3>1, <2>5 DEF tree
      <3>2. ASSUME NEW d, NEW ph \in Assembling, Advances(d, ph)
            PROVE  comp[c] = "Disconnected"
        <4>1. comp'[d] = After[ph] /\ \A e \in Component : e # d => comp'[e] = comp[e]
          BY <3>2, AdvancesTree DEF Advances, OrderInv, TreeType
        <4>2. After[ph] # "Disconnected"
          BY DEF After, Assembling
        <4>. QED  BY <4>1, <4>2, <2>5
      <3>3. ~UNCHANGED tree => Advances(Head(todo[a]).c, Head(todo[a]).ph)
                               /\ Head(todo[a]).ph \in Assembling
        BY <2>2, WorkOnTree DEF At, Staying, Tasks, PhaseTask
      <3>. QED  BY <3>1, <3>2, <3>3
    <2>6. CASE \E c \in Component : comp'[c] = "Disconnected"
      <3>1. state = "Aborting" /\ \A b \in Actor : Rests(todo[b])
        BY <2>5, <2>6, <1>1, <1>9 DEF ExitInv
      <3>2. Rests(todo'[a]) /\ state' = "Aborting"
        BY <3>1, <1>1, RestsOn
      <3>3. \A b \in Actor : Rests(todo'[b])
        BY <3>1, <3>2, <1>2
      <3>4. (\A b \in Actor : Rests(todo[b]))'
        BY <3>3 DEF Rests, Calm
      <3>. QED  BY <3>2, <3>4, <2>4 DEF ExitInv
    <2>7. CASE ~(\E c \in Component : comp'[c] = "Disconnected")
      BY <2>3, <2>4, <2>7 DEF ExitInv
    <2>. QED  BY <2>6, <2>7
  <1>10. CASE state # "Exiting" /\ todo[a] \notin Seq(Staying)
    <2>1. Departs(todo[a]) /\ ~Rests(todo[a]) /\ ~Idle(todo[a])
      BY <1>1, <1>3, <1>10, CalmStays, IdleIs DEF ExitInv, Rests
    <2>2. \A c \in Component : comp[c] # "Disconnected"
      BY <2>1, <1>1, <1>10 DEF ExitInv
    <2>3. /\ UNCHANGED tree
          /\ \/ state' = state /\ (Departs(todo'[a]) \/ todo'[a] = <<>>)
             \/ state' = "Exiting" /\ Leaves(todo[a])'
      BY <2>1, <2>2, <1>1, <1>10, DepartsOn
    <2>4. CASE state' = state /\ (Departs(todo'[a]) \/ todo'[a] = <<>>)
      <3>1. \A b \in Actor : todo'[b] \in Seq(Staying) \/ Departs(todo'[b])
        BY <2>1, <2>4, <1>4, EmptySeq
      <3>. QED  BY <3>1, <2>2, <2>3, <2>4, <1>10 DEF ExitInv, tree
    <2>5. CASE state' = "Exiting" /\ Leaves(todo[a])'
      <3>1. \A b \in Actor : Leaves(todo[b])'
        BY <2>1, <2>5, <1>4
      <3>. QED  BY <3>1, <2>5 DEF ExitInv
    <2>. QED  BY <2>3, <2>4, <2>5
  <1>. QED  BY <1>7, <1>8, <1>9, <1>10

LEMMA ExitNext ==
  ASSUME OrderInv, InitInv, TreeInv, Onward, ExitInv, [Next]_vars
  PROVE  ExitInv'
  <1>1. ASSUME UNCHANGED <<state, tree, todo, overlap>>
        PROVE  ExitInv'
    <2>1. \A b \in Actor : Leaves(todo[b]) => Leaves(todo[b])'
      <3>. SUFFICES ASSUME NEW b \in Actor, Leaves(todo[b]) PROVE Leaves(todo[b])'
        OBVIOUS
      <3>1. PICK s : s = todo[b] /\ s = todo'[b]
        BY <1>1
      <3>2. Leaves(s)'
        BY <3>1, <1>1, SameLeaves
      <3>. QED  BY <3>1, <3>2
    <2>2. (\A b \in Actor : Rests(todo[b])) => (\A b \in Actor : Rests(todo[b]))'
      BY <1>1 DEF Rests, Calm
    <2>. QED  BY <2>1, <2>2, <1>1 DEF ExitInv, tree
  <1>2. CASE UNCHANGED vars
    BY <1>1, <1>2 DEF vars, tree
  <1>3. ASSUME NEW a \in Actor, AddInitEntryPoint(a)
        PROVE  ExitInv'
    BY <1>1, <1>3 DEF AddInitEntryPoint
  <1>4. ASSUME NEW a \in Actor, Tells(a)
        PROVE  ExitInv'
    BY <1>4, ExitTells DEF ExitInv
  <1>5. ASSUME NEW a \in Actor, Add(a) \/ AddConnected(a)
        PROVE  ExitInv'
    <2>1. PICK c, p, old : Adds(a, c, p, old)
      BY <1>5, AdditionAdds
    <2>. QED  BY <2>1, ExitAdds
  <1>6. ASSUME NEW a \in Actor, Work(a)
        PROVE  ExitInv'
    BY <1>6, ExitWorks
  <1>. QED  BY <1>2, <1>3, <1>4, <1>5, <1>6, StepIs

LEMMA StandbyIsConnected ==
  ASSUME OrderInv, TreeInv, AsmInv, ExitInv
  PROVE  StandbyMeansConnected
  <1>. SUFFICES ASSUME state \in {"Standby", "Initialising", "Executing", "Storing", "Restoring"},
                       NEW c \in Component, home[c] # None, c \notin late
                PROVE  comp[c] = "Connected" \/ (comp[c] = "Disconnected" /\ overlap)
    BY DEF StandbyMeansConnected, Present
  <1>1. Over
    BY StandbyIsOver
  <1>2. Rank[comp[c]] >= 3 /\ comp[c] # "Deleted"
    BY <1>1 DEF Over, AllConnected, Present, TreeInv, NoneIsDeleted
  <1>3. comp[c] \in {"Created", "Publishing", "Configured", "Connected", "Disconnected", "Deleted"}
    BY DEF OrderInv, TreeType, Rank
  <1>4. comp[c] \in {"Connected", "Disconnected"}
    BY <1>2, <1>3 DEF Rank
  <1>. QED  BY <1>4 DEF ExitInv

\* What an exit meets is connected, unless it was added when Connect had begun.
LEMMA ExitMeetsConnected ==
  ASSUME OrderInv, TreeInv, AsmInv, ExitInv, NEW a \in Actor, state = "Exiting", ~overlap,
         At(a, "phase")
  PROVE  LET t == Head(todo[a]) IN comp[t.c] = "Connected" \/ t.c \in late
  <1>1. PICK s, t : s = todo[a] /\ t = Head(todo[a])
    OBVIOUS
  <1>2. s \in Seq(Task) /\ s # <<>> /\ t = s[1] /\ t \in Task /\ t.do = "phase"
        /\ 1 \in DOMAIN s
    <2>1. s \in Seq(Task) /\ s # <<>> /\ t.do = "phase" /\ t = s[1]
      BY <1>1, StacksAreTasks DEF At
    <2>. QED  BY <2>1, TasksInside, LenProperties, EmptySeq
  <1>3. PhaseTask(t) /\ t.c \in Component
    BY <1>2, PhaseTaskIs DEF PhaseTask
  <1>4. ~Rests(s)
    <2>. SUFFICES ASSUME Rests(s) PROVE FALSE
      OBVIOUS
    <2>1. t \in Calm
      BY <1>2, ElementOfSeq DEF Rests
    <2>. QED  BY <2>1, <1>3, CalmIs
  <1>5. s \in Seq(Disconnecting) /\ Careful(s)
    BY <1>1, <1>4 DEF ExitInv, Leaves
  <1>6. t.ph = "Disconnect"
    <2>1. t \in Disconnecting
      BY <1>2, <1>5, ElementOfSeq
    <2>. QED  BY <2>1, <1>2 DEF Disconnecting, Client
  <1>7. Rank[comp[t.c]] < 4
    <2>1. Timely(t)
      BY <1>2, <1>5 DEF Careful, AllTimely
    <2>2. Reaches(t, t.c)
      BY <1>2 DEF Reaches
    <2>. QED  BY <2>1, <2>2, <1>3, <1>6, HeightsAre DEF Timely
  <1>8. t.c \in Present
    <2>1. PICK j \in DOMAIN s : s[j].do = "walk" /\ s[j].in = home[t.c]
      BY <1>2, <1>5 DEF Careful, Seen
    <2>2. s[j] \in Task
      BY <1>2, TasksInside
    <2>3. home[t.c] \in Place
      BY <2>1, <2>2, PhaseTaskIs DEF PhaseTask
    <2>. QED  BY <2>3, <1>3, ConstantsAssumption DEF Present
  <1>9. Over
    BY StandbyIsOver
  <1>10. t.c \notin late => Rank[comp[t.c]] >= 3
    BY <1>8, <1>9 DEF Over, AllConnected
  <1>11. comp[t.c] \in {"Created", "Publishing", "Configured", "Connected", "Disconnected", "Deleted"}
    BY <1>3 DEF OrderInv, TreeType, Rank
  <1>. QED  BY <1>1, <1>7, <1>10, <1>11 DEF Rank

-----------------------------------------------------------------------------
(***************************************************************************)
(* What an exit still leads to disconnect: all that is connected, in       *)
(* person, or as a part of what it leads.                                  *)
(***************************************************************************)
Leaving(t, c) == PhaseTask(t) /\ t.ph = "Disconnect" /\ Will(t, c)

OfModels(t) == t.do \in {"for", "walk"} /\ t.ph = "Disconnect" /\ t.in = "models"

ToLeave == {c \in Present : comp[c] = "Connected" /\ (c \notin late \/ ~overlap)}

\* The first k tasks lead all of S.
Leads(s, k, S) == \A c \in S : (\E i \in 1 .. k : Leaving(s[i], c)) \/ home[c] \in S

Empties(s) ==
  \A k \in DOMAIN s : OfModels(s[k]) =>
    \E S \in SUBSET Component : ToLeave \subseteq S /\ Leads(s, k, S)

LeaveInv == \A a \in Actor : Empties(todo[a])

NoModels == {t \in Task : ~OfModels(t)}

LEMMA NoModelsBegets == Begets(NoModels)
  <1>. DEFINE X == NoModels
  <1>1. \A t \in Task : t.do \notin {"for", "walk"} => t \in X
    BY DEF NoModels, OfModels
  <1>2. /\ Client \in X /\ \A i, n \in Nat : Again(n) \in X /\ InitLoop(i, n) \in X
        /\ Just("cycle") \in X
    <2>1. /\ Client \in Task /\ Just("cycle") \in Task
          /\ \A i, n \in Nat : Again(n) \in Task /\ InitLoop(i, n) \in Task
      BY DEF Client, Just, Again, InitLoop, Task
    <2>. QED  BY <2>1, <1>1 DEF Client, Just, Again, InitLoop
  <1>3. \A s \in SimState : Assign(s) \in X /\ SetState(s) \in X
    <2>1. \A s \in SimState : Assign(s) \in Task /\ SetState(s) \in Task
      BY DEF Assign, SetState, Task
    <2>. QED  BY <2>1, <1>1 DEF Assign, SetState
  <1>4. ASSUME NEW ph \in Phase
        PROVE  /\ \A c \in Component : DoPhase(ph, c) \in X /\ Enter(ph, c) \in X
               /\ \A p \in Place : ph # "Disconnect" \/ p # "models" =>
                    For(ph, p) \in X /\ \A i, n \in Nat : Walk(ph, p, i, n) \in X
    <2>1. \A c \in Component : DoPhase(ph, c) \in X /\ Enter(ph, c) \in X
      <3>1. \A c \in Component : DoPhase(ph, c) \in Task /\ Enter(ph, c) \in Task
        BY DEF DoPhase, Enter, Task
      <3>. QED  BY <3>1, <1>1 DEF DoPhase, Enter
    <2>2. \A p \in Place : For(ph, p) \in Task /\ \A i, n \in Nat : Walk(ph, p, i, n) \in Task
      BY DEF For, Walk, Task
    <2>3. \A p \in Place : ph # "Disconnect" \/ p # "models" =>
            For(ph, p) \in X /\ \A i, n \in Nat : Walk(ph, p, i, n) \in X
      BY <2>2 DEF NoModels, OfModels, For, Walk
    <2>. QED  BY <2>1, <2>3
  <1>5. \A i \in 1 .. 4 : InitialiseTasks[i] \in X
    <2>1. Just("initFor") \in Task /\ Just("clear") \in Task
      BY DEF Just, Task
    <2>2. Just("initFor") \in X /\ Just("clear") \in X
      BY <2>1, <1>1 DEF Just
    <2>. QED  BY <2>2, <1>3 DEF InitialiseTasks, SimState
  <1>6. ASSUME NEW t \in X
        PROVE  /\ t.do = "setState" => t.to \in SimState
               /\ PhaseTask(t) => t.ph \in Phase
               /\ t.do \in {"phase", "enter"} => t.c \in Component /\ t.c \in Place /\ t.c # "models"
               /\ t.do \in {"for", "walk"} => t.in \in Place /\ (t.ph # "Disconnect" \/ t.in # "models")
    <2>1. t \in Task
      BY DEF NoModels
    <2>2. t.do = "setState" => t.to \in SimState
      BY <2>1 DEF Task
    <2>3. PhaseTask(t) => t.ph \in Phase
      BY <2>1, PhaseTaskIs
    <2>4. t.do \in {"phase", "enter"} => t.c \in Component /\ t.c \in Place /\ t.c # "models"
      BY <2>1, PhaseTaskIs, ConstantsAssumption DEF PhaseTask, Place
    <2>5. t.do \in {"for", "walk"} => t.in \in Place /\ (t.ph # "Disconnect" \/ t.in # "models")
      BY <2>1, PhaseTaskIs DEF PhaseTask, NoModels, OfModels
    <2>. QED  BY <2>2, <2>3, <2>4, <2>5
  <1>7. X \subseteq Task /\ "services" \in Place /\ "services" # "models"
        /\ {"Publish", "Configure"} \subseteq Phase
    BY DEF NoModels, Place, Phase
  <1>. HIDE DEF X
  <1>. QED  BY <1>2, <1>3, <1>4, <1>5, <1>6, <1>7 DEF Begets, PhaseTask, X

LEMMA NoModelsIsEmpty ==
  ASSUME NEW s \in Seq(NoModels)
  PROVE  Empties(s) /\ Empties(s)'
  <1>1. \A k \in DOMAIN s : ~OfModels(s[k])
    <2>1. \A k \in DOMAIN s : s[k] \in NoModels
      BY LenProperties, ElementOfSeq
    <2>. QED  BY <2>1 DEF NoModels
  <1>. QED  BY <1>1 DEF Empties, OfModels

\* A task gives way to others that lead whom it led.
LEMMA EmptiesWay ==
  ASSUME NEW s, NEW tasks, NEW r, GivesWay(s, tasks, r), Empties(s),
         \A c \in Component : Leaving(s[1], c) => \E i \in DOMAIN tasks : Leaving(tasks[i], c),
         \A i \in DOMAIN tasks : OfModels(tasks[i]) => OfModels(s[1]) /\ i = Len(tasks)
  PROVE  Empties(r)
  <1>. SUFFICES ASSUME NEW k \in DOMAIN r, OfModels(r[k])
                PROVE  \E S \in SUBSET Component : ToLeave \subseteq S /\ Leads(r, k, S)
    BY DEF Empties
  <1>1. /\ Len(s) \in Nat \ {0} /\ Len(tasks) \in Nat
        /\ DOMAIN s = 1 .. Len(s) /\ DOMAIN tasks = 1 .. Len(tasks) /\ DOMAIN r = 1 .. Len(r)
        /\ \A i \in 1 .. Len(tasks) : i \in DOMAIN r /\ r[i] = tasks[i]
        /\ \A i \in 2 .. Len(s) : r[i + (Len(tasks) - 1)] = s[i]
    BY WayOrigin
  <1>2. \/ k \in 1 .. Len(tasks) /\ r[k] = tasks[k]
        \/ \E j \in 2 .. Len(s) : k = j + (Len(tasks) - 1) /\ r[k] = s[j]
    <2>1. \A i \in DOMAIN r :
            \/ i \in 1 .. Len(tasks) /\ r[i] = tasks[i] /\ tasks[i] \in Task
            \/ \E j \in 2 .. Len(s) : i = j + (Len(tasks) - 1) /\ r[i] = s[j] /\ s[j] \in Task
      BY WayOrigin
    <2>. QED  BY <2>1, Zenon
  <1>3. PICK j \in DOMAIN s : /\ OfModels(s[j])
                              /\ j = 1 => k = Len(tasks)
                              /\ j > 1 => k = j + (Len(tasks) - 1)
    <2>1. CASE k \in 1 .. Len(tasks) /\ r[k] = tasks[k]
      <3>1. OfModels(s[1]) /\ k = Len(tasks) /\ 1 \in DOMAIN s
        BY <2>1, <1>1
      <3>. QED  BY <3>1
    <2>2. CASE \E j \in 2 .. Len(s) : k = j + (Len(tasks) - 1) /\ r[k] = s[j]
      <3>1. PICK j \in 2 .. Len(s) : k = j + (Len(tasks) - 1) /\ r[k] = s[j]
        BY <2>2
      <3>2. j \in DOMAIN s /\ j # 1 /\ OfModels(s[j])
        BY <3>1, <1>1
      <3>. QED  BY <3>1, <3>2
    <2>. QED  BY <1>2, <2>1, <2>2
  <1>4. PICK S \in SUBSET Component : ToLeave \subseteq S /\ Leads(s, j, S)
    BY <1>3 DEF Empties
  <1>5. ASSUME NEW c \in S, home[c] \notin S
        PROVE  \E i \in 1 .. k : Leaving(r[i], c)
    <2>1. PICK i \in 1 .. j : Leaving(s[i], c)
      BY <1>4, <1>5 DEF Leads
    <2>2. i \in Nat /\ j \in Nat /\ k \in Nat /\ i <= Len(s)
      BY <1>1
    <2>3. CASE i = 1
      <3>1. PICK m \in DOMAIN tasks : Leaving(tasks[m], c)
        BY <2>1, <2>3
      <3>2. m \in 1 .. k /\ r[m] = tasks[m]
        BY <3>1, <2>2, <1>1, <1>3
      <3>. QED  BY <3>1, <3>2
    <2>4. CASE i # 1
      <3>1. i \in 2 .. Len(s) /\ i + (Len(tasks) - 1) \in 1 .. k
        BY <2>4, <2>2, <1>1, <1>3
      <3>2. r[i + (Len(tasks) - 1)] = s[i]
        BY <3>1, <1>1
      <3>. QED  BY <3>1, <3>2, <2>1
    <2>. QED  BY <2>3, <2>4
  <1>. QED  BY <1>4, <1>5 DEF Leads

LEMMA EmptiesStays ==
  ASSUME NEW s, Empties(s), UNCHANGED <<members, home>>, ToLeave' \subseteq ToLeave
  PROVE  Empties(s)'
  <1>1. \A t, c : Leaving(t, c)' <=> Leaving(t, c)
    BY DEF Leaving, Will, PhaseTask
  <1>2. ASSUME NEW k, NEW S
        PROVE  Leads(s, k, S) => Leads(s, k, S)'
    BY <1>1 DEF Leads
  <1>. SUFFICES ASSUME NEW k \in DOMAIN s, OfModels(s[k])
                PROVE  \E S \in SUBSET Component : ToLeave' \subseteq S /\ Leads(s, k, S)'
    BY DEF Empties, OfModels
  <1>3. PICK S \in SUBSET Component : ToLeave \subseteq S /\ Leads(s, k, S)
    BY DEF Empties
  <1>. QED  BY <1>2, <1>3

\* A component that is disconnected leaves; its children are led now.
LEMMA EmptiesProceeds ==
  ASSUME NEW s, NEW r, s[1].do \in {"phase", "enter"}, s[1].ph = "Disconnect",
         s[1].c \in Component, UNCHANGED <<members, home>>,
         ToLeave' \subseteq ToLeave \ {s[1].c},
         GivesWay(s, <<Client, For("Disconnect", s[1].c)>>, r), Empties(s)
  PROVE  Empties(r)'
  <1>1. PICK c : c = s[1].c
    OBVIOUS
  <1>2. PICK f : f = For("Disconnect", c)
    OBVIOUS
  <1>3. PICK tasks : tasks = <<Client, f>>
    OBVIOUS
  <1>4. GivesWay(s, tasks, r) /\ Len(tasks) = 2 /\ tasks[1] = Client /\ tasks[2] = f
    BY <1>1, <1>2, <1>3
  <1>5. /\ Len(s) \in Nat \ {0}
        /\ DOMAIN s = 1 .. Len(s) /\ DOMAIN r = 1 .. Len(r)
        /\ 2 \in DOMAIN r /\ r[1] = Client /\ r[2] = f
        /\ \A i \in 2 .. Len(s) : r[i + 1] = s[i]
        /\ \A i \in DOMAIN r : i \in {1, 2} \/ \E j \in 2 .. Len(s) : i = j + 1 /\ r[i] = s[j]
    <2>1. GivesWay(s, tasks, r)
      BY <1>4
    <2>2. /\ Len(s) \in Nat \ {0}
          /\ DOMAIN s = 1 .. Len(s) /\ DOMAIN r = 1 .. Len(r)
          /\ \A i \in 1 .. Len(tasks) : i \in DOMAIN r /\ r[i] = tasks[i]
      BY <2>1, WayOrigin
    <2>3. \A i \in 2 .. Len(s) : r[i + (Len(tasks) - 1)] = s[i]
      BY <2>1, WayOrigin
    <2>4. \A i \in DOMAIN r :
               \/ i \in 1 .. Len(tasks) /\ r[i] = tasks[i] /\ tasks[i] \in Task
               \/ \E k \in 2 .. Len(s) : i = k + (Len(tasks) - 1) /\ r[i] = s[k] /\ s[k] \in Task
      BY <2>1, WayOrigin
    <2>5. Len(tasks) - 1 = 1 /\ 1 \in 1 .. Len(tasks) /\ 2 \in 1 .. Len(tasks)
          /\ \A i \in 1 .. Len(tasks) : i \in {1, 2}
      <3>1. 2 - 1 = 1 /\ 1 \in 1 .. 2 /\ 2 \in 1 .. 2 /\ \A i \in 1 .. 2 : i \in {1, 2}
        OBVIOUS
      <3>. QED  BY <3>1, <1>4, Zenon
    <2>6. \A i \in {1, 2} : i \in DOMAIN r /\ r[i] = tasks[i]
      BY <2>2, <2>5
    <2>7. /\ \A i \in 2 .. Len(s) : r[i + 1] = s[i]
          /\ \A i \in DOMAIN r :
               \/ i \in {1, 2}
               \/ \E k \in 2 .. Len(s) : i = k + 1 /\ r[i] = s[k]
      <3>1. Len(tasks) - 1 = 1
        BY <2>5
      <3>2. \A i \in 2 .. Len(s) : r[i + 1] = s[i]
        BY <2>3, <3>1
      <3>3. ASSUME NEW i \in DOMAIN r, i \notin {1, 2}
            PROVE  \E k \in 2 .. Len(s) : i = k + 1 /\ r[i] = s[k]
        <4>1. i \notin 1 .. Len(tasks)
          BY <2>5, <3>3
        <4>2. PICK k \in 2 .. Len(s) : i = k + (Len(tasks) - 1) /\ r[i] = s[k]
          BY <2>4, <4>1
        <4>. QED  BY <4>2, <3>1
      <3>. QED  BY <3>2, <3>3
    <2>. QED  BY <2>2, <2>6, <2>7, <1>4
  <1>6. ~OfModels(Client) /\ ~OfModels(f) /\ f.do = "for" /\ f.ph = "Disconnect" /\ f.in = c
    BY <1>1, <1>2, ConstantsAssumption DEF OfModels, Client, For
  <1>7. \A t, d : Leaving(t, d)' <=> Leaving(t, d)
    BY DEF Leaving, Will, PhaseTask
  <1>. SUFFICES ASSUME NEW k \in DOMAIN r, OfModels(r[k])
                PROVE  \E S \in SUBSET Component : ToLeave' \subseteq S /\ Leads(r, k, S)'
    BY DEF Empties, OfModels
  <1>8. PICK j \in 2 .. Len(s) : k = j + 1 /\ OfModels(s[j])
    BY <1>5, <1>6
  <1>9. PICK S \in SUBSET Component : ToLeave \subseteq S /\ Leads(s, j, S)
    BY <1>5, <1>8 DEF Empties
  <1>10. PICK T : T = S \ {c}
    OBVIOUS
  <1>11. ASSUME NEW d \in T, home[d] \notin T
         PROVE  \E i \in 1 .. k : Leaving(r[i], d)
    <2>1. CASE home[d] = c
      <3>1. Leaving(f, d)
        BY <2>1, <1>6 DEF Leaving, Will, PhaseTask
      <3>. QED  BY <3>1, <1>5, <1>8
    <2>2. CASE home[d] # c
      <3>1. PICK i \in 1 .. j : Leaving(s[i], d)
        BY <2>2, <1>9, <1>10, <1>11 DEF Leads
      <3>2. i # 1
        BY <3>1, <1>1, <1>10 DEF Leaving, Will
      <3>3. i \in 2 .. Len(s) /\ i + 1 \in 1 .. k
        BY <3>2, <1>5, <1>8
      <3>. QED  BY <3>1, <3>3, <1>5
    <2>. QED  BY <2>1, <2>2
  <1>12. Leads(r, k, T)'
    BY <1>7, <1>11 DEF Leads
  <1>. QED  BY <1>1, <1>9, <1>10, <1>12

\* Nobody has to leave who had not to, as long as the tree is the same, or
\* nobody is connected.
LEMMA ToLeaveKept ==
  ASSUME UNCHANGED tree, overlap => overlap'
  PROVE  ToLeave' \subseteq ToLeave
  BY DEF tree, ToLeave, Present

LEMMA ToLeaveAdvances ==
  ASSUME OrderInv, TreeInv, NEW c, NEW ph, Advances(c, ph), overlap' = overlap,
         ph = "Connect" => c \notin Present \/ (c \in late /\ overlap)
  PROVE  ToLeave' \subseteq ToLeave \ {c}
  <1>1. /\ UNCHANGED <<home, late>> /\ comp'[c] = After[ph]
        /\ \A d \in Component : d # c => comp'[d] = comp[d]
    BY AdvancesTree DEF Advances, OrderInv, TreeType
  <1>2. ph # "Connect" => After[ph] # "Connected"
    BY DEF Advances, After, Phase
  <1>. SUFFICES ASSUME NEW d \in ToLeave'
                PROVE  d \in ToLeave /\ d # c
    OBVIOUS
  <1>3. d \in Component /\ d \in Present /\ comp'[d] = "Connected" /\ (d \notin late \/ ~overlap)
    BY <1>1 DEF ToLeave, Present
  <1>4. d # c
    BY <1>1, <1>2, <1>3
  <1>. QED  BY <1>1, <1>3, <1>4 DEF ToLeave

LEMMA WalksAllOn ==
  ASSUME OrderInv, NEW t \in Task, t.do = "walk", t.i + 1 \in DOMAIN members[t.in],
         NEW c \in Component, Leaving(t, c)
  PROVE  \/ Leaving(DoPhase(t.ph, members[t.in][t.i + 1]), c)
         \/ Leaving(Walk(t.ph, t.in, t.i + 1, t.n), c)
  <1>1. PICK next, d : next = Walk(t.ph, t.in, t.i + 1, t.n)
                       /\ d = DoPhase(t.ph, members[t.in][t.i + 1])
    OBVIOUS
  <1>2. /\ next.do = "walk" /\ next.ph = t.ph /\ next.in = t.in /\ next.i = t.i + 1 /\ next.n = t.n
        /\ d.do = "phase" /\ d.ph = t.ph /\ d.c = members[t.in][t.i + 1]
    BY <1>1 DEF Walk, DoPhase
  <1>3. t.in \in Place /\ t.i \in Nat /\ t.n \in Nat
    BY PhaseTaskIs DEF PhaseTask
  <1>4. PICK j \in DOMAIN members[t.in] : j > t.i /\ j <= t.n /\ members[t.in][j] = c
    BY DEF Leaving, Will
  <1>5. j \in Nat /\ t.ph = "Disconnect"
    BY <1>3, LenProperties DEF OrderInv, TreeType, Leaving
  <1>6. CASE j = t.i + 1
    <2>1. Leaving(d, c)
      BY <1>2, <1>4, <1>5, <1>6 DEF Leaving, Will, PhaseTask
    <2>. QED  BY <2>1, <1>1
  <1>7. CASE j # t.i + 1
    <2>1. j > t.i + 1
      BY <1>3, <1>4, <1>5, <1>7
    <2>2. Leaving(next, c)
      BY <2>1, <1>2, <1>4, <1>5 DEF Leaving, Will, PhaseTask
    <2>. QED  BY <2>2, <1>1
  <1>. QED  BY <1>6, <1>7

LEMMA EmptiesWorks ==
  ASSUME OrderInv, InitType, TreeInv, NEW a \in Actor, Work(a), PhaseTask(Head(todo[a])),
         NEW s, s = todo[a], NEW r, r = todo'[a], Empties(s), overlap' = overlap,
         LET t == Head(todo[a]) IN
         Advances(t.c, t.ph) /\ t.do \in {"phase", "enter"} => ToLeave' \subseteq ToLeave \ {t.c}
  PROVE  Empties(r)'
  <1>1. PICK t : t = s[1]
    OBVIOUS
  <1>2. t \in Task /\ PhaseTask(t) /\ t = Head(todo[a])
    BY <1>1, PhaseWorks
  <1>3. ASSUME UNCHANGED tree, Empties(r)
        PROVE  Empties(r)'
    <2>1. ToLeave' \subseteq ToLeave /\ UNCHANGED <<members, home>>
      BY <1>3, ToLeaveKept DEF tree
    <2>. QED  BY <2>1, <1>3, EmptiesStays
  <1>4. CASE r = <<>>
    BY <1>4 DEF Empties
  <1>5. CASE t.do = "for" /\ UNCHANGED tree /\ GivesWay(s, <<Walk(t.ph, t.in, 0, Len(members[t.in]))>>, r)
    <2>1. PICK w : w = Walk(t.ph, t.in, 0, Len(members[t.in]))
      OBVIOUS
    <2>2. PICK tasks : tasks = <<w>>
      OBVIOUS
    <2>3. w.do = "walk" /\ w.ph = t.ph /\ w.in = t.in /\ w.i = 0 /\ w.n = Len(members[t.in])
      BY <2>1 DEF Walk
    <2>4. ASSUME NEW c \in Component, Leaving(t, c)
          PROVE  Leaving(w, c)
      <3>1. home[c] = t.in /\ t.ph = "Disconnect" /\ t.in \in Place
        BY <2>4, <1>2, <1>5, PhaseTaskIs DEF Leaving, Will
      <3>2. PICK j \in DOMAIN members[t.in] : members[t.in][j] = c
        BY <3>1 DEF TreeInv, WellPlaced
      <3>3. j > 0 /\ j <= Len(members[t.in])
        BY <3>1, <3>2, LenProperties DEF OrderInv, TreeType
      <3>. QED  BY <3>1, <3>2, <3>3, <2>3 DEF Leaving, Will, PhaseTask
    <2>5. OfModels(w) => OfModels(t)
      BY <2>3, <1>5 DEF OfModels
    <2>6. GivesWay(s, tasks, r) /\ DOMAIN tasks = {1} /\ tasks[1] = w /\ Len(tasks) = 1
      BY <2>1, <2>2, <1>5
    <2>7. Empties(r)
      <3>1. \A c \in Component : Leaving(s[1], c) => \E i \in DOMAIN tasks : Leaving(tasks[i], c)
        BY <2>4, <2>6, <1>1
      <3>2. \A i \in DOMAIN tasks : OfModels(tasks[i]) => OfModels(s[1]) /\ i = Len(tasks)
        BY <2>5, <2>6, <1>1
      <3>. QED  BY <3>1, <3>2, <2>6, EmptiesWay
    <2>. QED  BY <2>7, <1>3, <1>5
  <1>6. CASE t.do = "walk" /\ t.i >= t.n /\ UNCHANGED tree /\ GivesWay(s, <<>>, r)
    <2>1. PICK tasks : tasks = <<>>
      OBVIOUS
    <2>2. \A c \in Component : ~Leaving(t, c)
      <3>. SUFFICES ASSUME NEW c \in Component, Leaving(t, c)
                    PROVE  FALSE
        OBVIOUS
      <3>1. t.in \in Place /\ t.i \in Nat /\ t.n \in Nat
        BY <1>2, <1>6, PhaseTaskIs
      <3>2. PICK j \in DOMAIN members[t.in] : j > t.i /\ j <= t.n
        BY <1>6 DEF Leaving, Will
      <3>3. j \in Nat
        BY <3>1, LenProperties DEF OrderInv, TreeType
      <3>. QED  BY <3>1, <3>2, <3>3, <1>6
    <2>3. Empties(r)
      BY <2>1, <2>2, <1>1, <1>6, EmptiesWay
    <2>. QED  BY <2>3, <1>3, <1>6
  <1>7. CASE /\ t.do = "walk" /\ t.i + 1 \in DOMAIN members[t.in] /\ UNCHANGED tree
             /\ LET next == Walk(t.ph, t.in, t.i + 1, t.n)
                    c == members[t.in][t.i + 1] IN
                \/ GivesWay(s, <<DoPhase(t.ph, c), next>>, r)
                \/ t.ph = "Publish" /\ GivesWay(s, <<next>>, r)
    <2>1. PICK next, d : next = Walk(t.ph, t.in, t.i + 1, t.n)
                         /\ d = DoPhase(t.ph, members[t.in][t.i + 1])
      OBVIOUS
    <2>2. PICK tasks : (tasks = <<d, next>> \/ (tasks = <<next>> /\ t.ph = "Publish"))
                       /\ GivesWay(s, tasks, r)
      BY <1>7, <2>1
    <2>3. ASSUME NEW c \in Component, Leaving(t, c)
          PROVE  \E i \in DOMAIN tasks : Leaving(tasks[i], c)
      <3>1. tasks = <<d, next>>
        BY <2>2, <2>3 DEF Leaving
      <3>2. 1 \in DOMAIN tasks /\ 2 \in DOMAIN tasks /\ tasks[1] = d /\ tasks[2] = next
        BY <3>1
      <3>3. Leaving(d, c) \/ Leaving(next, c)
        BY <2>1, <2>3, <1>2, <1>7, WalksAllOn
      <3>. QED  BY <3>2, <3>3
    <2>4. ~OfModels(d) /\ (OfModels(next) => OfModels(t))
      BY <2>1, <1>7 DEF OfModels, DoPhase, Walk
    <2>5. \A i \in DOMAIN tasks : OfModels(tasks[i]) => OfModels(s[1]) /\ i = Len(tasks)
      <3>1. CASE tasks = <<d, next>>
        <4>1. DOMAIN tasks = {1, 2} /\ tasks[1] = d /\ tasks[2] = next /\ Len(tasks) = 2
          BY <3>1
        <4>. QED  BY <4>1, <2>4, <1>1
      <3>2. CASE tasks = <<next>>
        <4>1. DOMAIN tasks = {1} /\ tasks[1] = next /\ Len(tasks) = 1
          BY <3>2
        <4>. QED  BY <4>1, <2>4, <1>1
      <3>. QED  BY <3>1, <3>2, <2>2
    <2>6. Empties(r)
      BY <2>2, <2>3, <2>5, <1>1, EmptiesWay
    <2>. QED  BY <2>6, <1>3, <1>7
  <1>8. CASE /\ t.do = "phase" /\ Behind(t.ph, t.c) /\ UNCHANGED tree
             /\ LET previous == IF t.ph = "Connect" THEN "Configure" ELSE "Publish" IN
                GivesWay(s, <<DoPhase(previous, t.c), Enter(t.ph, t.c)>>, r)
    <2>1. PICK d, e : d = DoPhase(IF t.ph = "Connect" THEN "Configure" ELSE "Publish", t.c)
                      /\ e = Enter(t.ph, t.c)
      OBVIOUS
    <2>2. PICK tasks : tasks = <<d, e>>
      OBVIOUS
    <2>3. GivesWay(s, tasks, r)
      BY <2>1, <2>2, <1>8
    <2>4. \A c : ~Leaving(t, c)
      BY <1>8 DEF Behind, Leaving
    <2>5. ~OfModels(d) /\ ~OfModels(e)
      BY <2>1 DEF OfModels, DoPhase, Enter
    <2>6. \A i \in DOMAIN tasks : ~OfModels(tasks[i])
      <3>1. DOMAIN tasks = {1, 2} /\ tasks[1] = d /\ tasks[2] = e
        BY <2>2
      <3>. QED  BY <3>1, <2>5
    <2>7. Empties(r)
      BY <2>3, <2>4, <2>6, <1>1, EmptiesWay
    <2>. QED  BY <2>7, <1>3, <1>8
  <1>9. CASE /\ t.do \in {"phase", "enter"} /\ Advances(t.c, t.ph)
             /\ GivesWay(s, <<Client, For(t.ph, t.c)>>, r)
    <2>1. ToLeave' \subseteq ToLeave \ {t.c} /\ UNCHANGED <<members, home>> /\ t.c \in Component
      BY <1>2, <1>9 DEF Advances
    <2>2. CASE t.ph = "Disconnect"
      BY <2>1, <2>2, <1>1, <1>9, EmptiesProceeds
    <2>3. CASE t.ph # "Disconnect"
      <3>1. PICK f : f = For(t.ph, t.c)
        OBVIOUS
      <3>2. PICK tasks : tasks = <<Client, f>>
        OBVIOUS
      <3>3. GivesWay(s, tasks, r)
        BY <3>1, <3>2, <1>9
      <3>4. ~OfModels(Client) /\ ~OfModels(f)
        BY <3>1, <2>3 DEF OfModels, Client, For
      <3>5. \A i \in DOMAIN tasks : ~OfModels(tasks[i])
        <4>1. DOMAIN tasks = {1, 2} /\ tasks[1] = Client /\ tasks[2] = f
          BY <3>2
        <4>. QED  BY <4>1, <3>4
      <3>6. \A c : ~Leaving(t, c)
        BY <2>3 DEF Leaving
      <3>7. Empties(r)
        BY <3>3, <3>5, <3>6, <1>1, EmptiesWay
      <3>8. ToLeave' \subseteq ToLeave
        BY <2>1
      <3>. QED  BY <3>7, <3>8, <2>1, EmptiesStays
    <2>. QED  BY <2>2, <2>3
  <1>. QED  BY <1>1, <1>4, <1>5, <1>6, <1>7, <1>8, <1>9, PhaseWorks, SMTT(40)

LEMMA KindsWithoutModels ==
  /\ Calm \subseteq NoModels /\ Publishing \subseteq NoModels
  /\ Connection \subseteq NoModels /\ Staying \subseteq NoModels
  <1>1. Calm \subseteq Publishing /\ Calm \subseteq Connection
    BY CalmIs
  <1>2. ASSUME NEW t \in Task, OfModels(t)
        PROVE  t \notin Publishing /\ t \notin Connection /\ t \notin Staying
    <2>1. PhaseTask(t) /\ t.ph = "Disconnect" /\ ~Harmless(t) /\ t.do \notin {"cycle", "again"}
      <3>1. t.do \in {"for", "walk"} /\ t.ph = "Disconnect"
        BY <1>2 DEF OfModels
      <3>2. ~Harmless(t)
        <4>1. t # Client
          BY <3>1 DEF Client
        <4>. QED  BY <3>1, <4>1 DEF Harmless, Sets
      <3>. QED  BY <3>1, <3>2 DEF PhaseTask
    <2>. QED  BY <2>1 DEF Publishing, Connection, OfPhases, Assembling, Staying, Tasks
  <1>3. Publishing \subseteq Task /\ Connection \subseteq Task /\ Staying \subseteq Task
    BY DEF Publishing, Connection, OfPhases, Staying, Tasks
  <1>. QED  BY <1>1, <1>2, <1>3 DEF NoModels

\* While the simulator is assembled, nobody exits.
LEMMA NobodyLeaves ==
  ASSUME OneAssembler, OrderInv, Underway
  PROVE  todo \in [Actor -> Seq(NoModels)]
  <1>1. todo \in [Actor -> Seq(Task)]
    BY StacksAreTasks
  <1>2. /\ Seq(Calm) \subseteq Seq(NoModels) /\ Seq(Publishing) \subseteq Seq(NoModels)
    BY KindsWithoutModels, SeqMonotonic
  <1>3. \A b \in Actor \ {Main} : todo[b] \in Seq(NoModels)
    BY <1>2 DEF Underway, Rests
  <1>4. PICK s : s = todo[Main]
    OBVIOUS
  <1>5. s \in Seq(Task) /\ Len(s) \in Nat /\ DOMAIN s = 1 .. Len(s)
    BY <1>1, <1>4, TasksInside DEF OneAssembler
  <1>6. ASSUME NEW k \in DOMAIN s, OfModels(s[k]), Commences(s) \/ Connects(s)
        PROVE  FALSE
    <2>0. s[k] \in Task /\ s[k] \notin NoModels /\ s[k] \notin Calm /\ s[k] \notin Connection
      BY <1>5, <1>6, TasksInside, KindsWithoutModels DEF NoModels
    <2>1. CASE Commences(s)
      <3>1. PICK l \in Nat :
              /\ Len(s) = l + 5 /\ UpTo(s, l, Calm)
              /\ Sets(s[l + 1], "Connecting")
              /\ s[l + 2] = For("Connect", "services") /\ s[l + 3] = For("Connect", "models")
              /\ Sets(s[l + 4], "Standby") /\ s[l + 5] = Just("initialise")
        BY <2>1 DEF Commences
      <3>2. k \notin 1 .. l
        BY <3>1, <2>0 DEF UpTo
      <3>3. k \in {l + 1, l + 2, l + 3, l + 4, l + 5}
        BY <3>1, <3>2, <1>5
      <3>4. ~OfModels(s[l + 1]) /\ ~OfModels(s[l + 2]) /\ ~OfModels(s[l + 3])
            /\ ~OfModels(s[l + 4]) /\ ~OfModels(s[l + 5])
        BY <3>1 DEF OfModels, Sets, For, Just
      <3>. QED  BY <3>3, <3>4, <1>6
    <2>2. CASE Connects(s)
      <3>1. PICK l \in Nat :
              /\ Len(s) = l + 2 /\ UpTo(s, l, Connection)
              /\ Sets(s[l + 1], "Standby") /\ s[l + 2] = Just("initialise")
        BY <2>2 DEF Connects, Finishes
      <3>2. k \notin 1 .. l
        BY <3>1, <2>0 DEF UpTo
      <3>3. k \in {l + 1, l + 2}
        BY <3>1, <3>2, <1>5
      <3>4. ~OfModels(s[l + 1]) /\ ~OfModels(s[l + 2])
        BY <3>1 DEF OfModels, Sets, Just
      <3>. QED  BY <3>3, <3>4, <1>6
    <2>. QED  BY <2>1, <2>2, <1>6
  <1>7. s \in Seq(NoModels)
    <2>1. CASE Rests(s) \/ Publishes(s)
      BY <2>1, <1>2 DEF Rests, Publishes
    <2>2. CASE Commences(s) \/ Connects(s)
      <3>1. \A i \in 1 .. Len(s) : s[i] \in NoModels
        BY <2>2, <1>5, <1>6, TasksInside DEF NoModels
      <3>. QED  BY <3>1, <1>5, LenProperties, SeqDef
    <2>. QED  BY <2>1, <2>2, <1>4 DEF Underway, Assembles
  <1>8. \A b \in Actor : todo[b] \in Seq(NoModels)
    BY <1>3, <1>4, <1>7
  <1>. QED  BY <1>1, <1>8

LEMMA NoModelsLeaves ==
  ASSUME todo' \in [Actor -> Seq(NoModels)]
  PROVE  LeaveInv'
  <1>. SUFFICES ASSUME NEW b \in Actor PROVE Empties(todo[b])'
    BY DEF LeaveInv
  <1>1. PICK s : s = todo'[b]
    OBVIOUS
  <1>2. Empties(s)'
    BY <1>1, NoModelsIsEmpty
  <1>. QED  BY <1>1, <1>2

\* Whoever is connected while somebody exits came late, and during a call.
LEMMA ConnectMeetsNoExit ==
  ASSUME OneAssembler, OrderInv, InitInv, AsmInv, ExitInv, NEW a \in Actor,
         todo[a] # <<>>, NEW t, t = Head(todo[a]), t.do \in {"phase", "enter"},
         t.ph = "Connect", Advances(t.c, t.ph)
  PROVE  \/ todo \in [Actor -> Seq(NoModels)]
         \/ overlap /\ (t.c \notin Present \/ t.c \in late)
  <1>1. CASE Underway
    BY <1>1, NobodyLeaves
  <1>2. CASE Over /\ overlap
    <2>1. Rank[comp[t.c]] = 2
      BY DEF Advances, Before, Rank
    <2>. QED  BY <2>1, <1>2 DEF Over, AllConnected
  <1>3. CASE ~overlap
    <2>1. PICK s : s = todo[a]
      OBVIOUS
    <2>2. s \in Seq(Task) /\ s # <<>> /\ t = s[1] /\ t \in Task /\ 1 \in DOMAIN s
          /\ Len(s) \in Nat /\ DOMAIN s = 1 .. Len(s)
      <3>1. s \in Seq(Task) /\ s # <<>> /\ t = s[1]
        BY <2>1, StacksAreTasks
      <3>. QED  BY <3>1, TasksInside, LenProperties, EmptySeq
    <2>3. t # Client /\ PhaseTask(t) /\ ~Sets(t, "Exiting") /\ t \notin Calm
      <3>1. t # Client /\ PhaseTask(t) /\ ~Sets(t, "Exiting")
        BY DEF Client, PhaseTask, Sets
      <3>. QED  BY <3>1, CalmIs
    <2>4. ~Idle(todo[a]) /\ ~Rests(s)
      <3>1. ~Idle(s)
        BY <2>2, <2>3 DEF Idle
      <3>2. ~Rests(s)
        BY <2>2, <2>3, ElementOfSeq DEF Rests
      <3>. QED  BY <3>1, <3>2, <2>1
    <2>5. state # "Exiting"
      <3>. SUFFICES ASSUME state = "Exiting" PROVE FALSE
        OBVIOUS
      <3>1. s \in Seq(Disconnecting)
        BY <2>1, <2>4, <1>3 DEF ExitInv, Leaves
      <3>2. t \in Disconnecting
        BY <3>1, <2>2, ElementOfSeq
      <3>. QED  BY <3>2, <2>3 DEF Disconnecting
    <2>6. ~Departs(s)
      <3>. SUFFICES ASSUME NEW k \in Nat, ExitsAfter(s, k) PROVE FALSE
        BY DEF Departs
      <3>1. CASE k = 0
        BY <3>1, <2>2, <2>3 DEF ExitsAfter
      <3>2. CASE k # 0
        <4>1. 1 \in 1 .. k
          BY <3>2
        <4>. QED  BY <4>1, <2>2, <2>3 DEF ExitsAfter, UpTo
      <3>. QED  BY <3>1, <3>2
    <2>7. s \in Seq(Staying)
      BY <2>1, <2>5, <2>6, <1>3 DEF ExitInv
    <2>8. \A b \in Actor : b # a => todo[b] \in Seq(Staying)
      BY <2>4, <1>3, OthersIdle, StacksAreTasks, IdleIs
    <2>9. Seq(Staying) \subseteq Seq(NoModels)
      BY KindsWithoutModels, SeqMonotonic
    <2>10. \A b \in Actor : todo[b] \in Seq(NoModels)
      BY <2>1, <2>7, <2>8, <2>9
    <2>. QED  BY <2>10, StacksAreTasks
  <1>. QED  BY <1>1, <1>2, <1>3 DEF AsmInv

\* An addition changes nothing for what has to leave, once Connect is over.
LEMMA EmptiesAdds ==
  ASSUME TreeInv, NEW s \in Seq(Task), Empties(s),
         NEW c, NEW p, NEW old, Enters(c, p, old), comp'[c] = "Created",
         late \subseteq late', overlap' = overlap,
         old # None => \A i \in DOMAIN s : s[i].do = "walk" => s[i].in # "services"
  PROVE  Empties(s)'
  <1>1. ASSUME NEW d \in Component, d # c, d # old
        PROVE  home'[d] = home[d] /\ comp'[d] = comp[d]
    BY <1>1 DEF Enters
  <1>2. ASSUME NEW d \in ToLeave'
        PROVE  d \in ToLeave /\ d # c /\ d # old
    <2>1. d \in Component /\ home'[d] # None /\ comp'[d] = "Connected" /\ (d \notin late' \/ ~overlap)
      BY DEF ToLeave, Present
    <2>2. d # c
      BY <2>1
    <2>3. d # old
      BY <2>1, <2>2 DEF Enters
    <2>. QED  BY <2>1, <2>2, <2>3, <1>1 DEF ToLeave, Present
  <1>3. ASSUME NEW i \in DOMAIN s, NEW d \in Component, d # c, d # old, Leaving(s[i], d)
        PROVE  Leaving(s[i], d)'
    <2>1. s[i] \in Task /\ PhaseTask(s[i])
      BY <1>3, TasksInside DEF Leaving
    <2>2. CASE s[i].do = "walk"
      <3>1. PICK j \in DOMAIN members[s[i].in] : j > s[i].i /\ j <= s[i].n /\ members[s[i].in][j] = d
        BY <2>2, <1>3 DEF Leaving, Will
      <3>2. Stays(s[i].in)
        BY <2>1, <2>2, PhaseTaskIs DEF Enters
      <3>. QED  BY <2>2, <3>1, <3>2, <1>3 DEF Stays, Leaving, Will, PhaseTask
    <2>3. CASE s[i].do # "walk"
      BY <2>3, <1>1, <1>3 DEF Leaving, Will, PhaseTask
    <2>. QED  BY <2>2, <2>3
  <1>. SUFFICES ASSUME NEW k \in DOMAIN s, OfModels(s[k])
                PROVE  \E S \in SUBSET Component : ToLeave' \subseteq S /\ Leads(s, k, S)'
    BY DEF Empties, OfModels
  <1>4. PICK S \in SUBSET Component : ToLeave \subseteq S /\ Leads(s, k, S)
    BY DEF Empties
  <1>5. PICK T : T = S \ {c, old}
    OBVIOUS
  <1>6. ASSUME NEW d \in T, home'[d] \notin T
        PROVE  \E i \in 1 .. k : Leaving(s[i], d)'
    <2>1. d \in S /\ d \in Component /\ d # c /\ d # old /\ home'[d] = home[d]
      BY <1>1, <1>5
    <2>2. home[d] \notin S
      <3>. SUFFICES ASSUME home[d] \in S PROVE FALSE
        OBVIOUS
      <3>1. home[d] \in Component /\ (home[d] = c \/ home[d] = old)
        BY <2>1, <1>5, <1>6
      <3>2. home[d] # c
        BY <2>1, <3>1 DEF TreeInv, HomesArePresent, Enters
      <3>3. home[d] # old
        <4>. SUFFICES ASSUME home[d] = old PROVE FALSE
          OBVIOUS
        <4>1. old # None
          BY <3>1, ConstantsAssumption DEF Place
        <4>2. PICK e \in Component : Replaces[e] = old
          BY <4>1 DEF Enters
        <4>3. home[d] # Replaces[e]
          BY <4>1, <4>2, <2>1 DEF TreeInv, ReplacedAreLeaves
        <4>. QED  BY <4>2, <4>3
      <3>. QED  BY <3>1, <3>2, <3>3
    <2>3. PICK i \in 1 .. k : Leaving(s[i], d)
      BY <2>1, <2>2, <1>4 DEF Leads
    <2>4. i \in DOMAIN s
      BY <2>3, LenProperties
    <2>. QED  BY <2>1, <2>3, <2>4, <1>3
  <1>7. Leads(s, k, T)'
    BY <1>6 DEF Leads
  <1>8. T \in SUBSET Component /\ ToLeave' \subseteq T
    BY <1>2, <1>4, <1>5
  <1>. QED  BY <1>7, <1>8

LEMMA LeaveAdds ==
  ASSUME OneAssembler, OrderInv, TreeInv, AsmInv, LeaveInv,
         NEW a \in Actor, NEW c, NEW p, NEW old, Adds(a, c, p, old)
  PROVE  LeaveInv'
  <1>1. UNCHANGED <<state, todo, overlap>> /\ Enters(c, p, old)
    BY DEF Adds
  <1>2. CASE Underway
    <2>1. todo' \in [Actor -> Seq(NoModels)]
      BY <1>1, <1>2, NobodyLeaves
    <2>. QED  BY <2>1, NoModelsLeaves
  <1>3. CASE Over
    <2>1. comp'[c] = "Created" /\ late' = late \union {c}
      BY <1>3 DEF Over, Adds
    <2>. SUFFICES ASSUME NEW b \in Actor PROVE Empties(todo[b])'
      BY DEF LeaveInv
    <2>2. PICK s : s = todo[b] /\ s = todo'[b]
      BY <1>1
    <2>3. s \in Seq(Task) /\ Empties(s)
      BY <2>2, StacksAreTasks DEF LeaveInv
    <2>4. old # None => \A i \in DOMAIN s : s[i].do = "walk" => s[i].in # "services"
      BY <2>2 DEF Adds
    <2>5. Empties(s)'
      BY <2>1, <2>3, <2>4, <1>1, EmptiesAdds
    <2>. QED  BY <2>2, <2>5
  <1>. QED  BY <1>2, <1>3 DEF AsmInv

\* An exit that begins leads all that is there.
LEMMA EmptiesUpon ==
  ASSUME OrderInv, TreeInv, NEW s, NEW tasks, NEW r, Upon(s, tasks, r), Empties(s),
         \/ \A i \in DOMAIN tasks : ~OfModels(tasks[i])
         \/ tasks = <<SetState("Exiting"), For("Disconnect", "services"), For("Disconnect", "models")>>
  PROVE  Empties(r)
  <1>. SUFFICES ASSUME NEW k \in DOMAIN r, OfModels(r[k])
                PROVE  \E S \in SUBSET Component : ToLeave \subseteq S /\ Leads(r, k, S)
    BY DEF Empties
  <1>1. /\ Len(s) \in Nat /\ Len(tasks) \in Nat
        /\ DOMAIN s = 1 .. Len(s) /\ DOMAIN tasks = 1 .. Len(tasks) /\ DOMAIN r = 1 .. Len(r)
        /\ \A i \in 1 .. Len(tasks) : i \in DOMAIN r /\ r[i] = tasks[i]
        /\ \A i \in 1 .. Len(s) : i + Len(tasks) \in DOMAIN r /\ r[i + Len(tasks)] = s[i]
    BY UponOrigin
  <1>2. \/ k \in 1 .. Len(tasks) /\ r[k] = tasks[k]
        \/ \E j \in 1 .. Len(s) : k = j + Len(tasks) /\ r[k] = s[j]
    <2>1. \A i \in DOMAIN r :
            \/ i \in 1 .. Len(tasks) /\ r[i] = tasks[i] /\ tasks[i] \in Task
            \/ \E j \in 1 .. Len(s) : i = j + Len(tasks) /\ r[i] = s[j] /\ s[j] \in Task
      BY UponOrigin
    <2>. QED  BY <2>1, Zenon
  <1>3. CASE \E j \in 1 .. Len(s) : k = j + Len(tasks) /\ r[k] = s[j]
    <2>1. PICK j \in 1 .. Len(s) : k = j + Len(tasks) /\ r[k] = s[j]
      BY <1>3
    <2>2. PICK S \in SUBSET Component : ToLeave \subseteq S /\ Leads(s, j, S)
      BY <2>1, <1>1 DEF Empties
    <2>3. ASSUME NEW c \in S, home[c] \notin S
          PROVE  \E i \in 1 .. k : Leaving(r[i], c)
      <3>1. PICK i \in 1 .. j : Leaving(s[i], c)
        BY <2>2, <2>3 DEF Leads
      <3>2. i \in 1 .. Len(s) /\ i + Len(tasks) \in 1 .. k
        BY <2>1, <1>1
      <3>3. r[i + Len(tasks)] = s[i]
        BY <3>2, <1>1
      <3>. QED  BY <3>1, <3>2, <3>3
    <2>. QED  BY <2>2, <2>3 DEF Leads
  <1>4. CASE k \in 1 .. Len(tasks) /\ r[k] = tasks[k]
    <2>1. tasks = <<SetState("Exiting"), For("Disconnect", "services"), For("Disconnect", "models")>>
      BY <1>1, <1>4
    <2>2. PICK x, y, z : x = SetState("Exiting") /\ y = For("Disconnect", "services")
                         /\ z = For("Disconnect", "models")
      OBVIOUS
    <2>3. Len(tasks) = 3 /\ tasks[1] = x /\ tasks[2] = y /\ tasks[3] = z
      BY <2>1, <2>2
    <2>4. ~OfModels(x) /\ ~OfModels(y)
      BY <2>2 DEF OfModels, SetState, For
    <2>5. k = 3
      BY <2>3, <2>4, <1>4
    <2>6. r[2] = y /\ r[3] = z
      BY <2>3, <1>1
    <2>7. /\ y.do = "for" /\ y.ph = "Disconnect" /\ y.in = "services"
          /\ z.do = "for" /\ z.ph = "Disconnect" /\ z.in = "models"
      BY <2>2 DEF For
    <2>8. ASSUME NEW c \in Present, home[c] \notin Present
          PROVE  \E i \in 1 .. k : Leaving(r[i], c)
      <3>1. home[c] \notin Component
        BY <2>8 DEF Present, TreeInv, HomesArePresent
      <3>2. home[c] \in {"services", "models"}
        BY <3>1 DEF Present, Place, OrderInv, TreeType
      <3>3. home[c] = "services" => Leaving(y, c)
        BY <2>7 DEF Leaving, Will, PhaseTask
      <3>4. home[c] = "models" => Leaving(z, c)
        BY <2>7 DEF Leaving, Will, PhaseTask
      <3>. QED  BY <3>2, <3>3, <3>4, <2>5, <2>6
    <2>9. Leads(r, k, Present) /\ Present \in SUBSET Component /\ ToLeave \subseteq Present
      BY <2>8 DEF Leads, Present, ToLeave
    <2>. QED  BY <2>9
  <1>. QED  BY <1>2, <1>3, <1>4

LEMMA LeaveTells ==
  ASSUME OrderInv, TreeInv, LeaveInv, NEW a \in Actor, Tells(a)
  PROVE  LeaveInv'
  <1>. DEFINE ways == <<SetState("Exiting"), For("Disconnect", "services"), For("Disconnect", "models")>>
  <1>1. PICK call, tasks : /\ Accepted(a, call, tasks) /\ tasks \in Seq(Task)
                           /\ (\A i \in DOMAIN tasks : ~OfModels(tasks[i])) \/ tasks = ways
    <2>1. CASE Exit(a)
      <3>1. Accepted(a, "Exit", ways)
        BY <2>1, OneAndTwo DEF Exit, ForAll
      <3>2. ways \in Seq(Task)
        <4>1. /\ SetState("Exiting") \in Task
              /\ For("Disconnect", "services") \in Task /\ For("Disconnect", "models") \in Task
          BY DEF SetState, For, Task, SimState, Phase, Place
        <4>. QED  BY <4>1, TripleIn
      <3>. QED  BY <3>1, <3>2
    <2>2. CASE ~Exit(a)
      <3>1. PICK call, st, tasks : Accepted(a, call, tasks) /\ CallIs(a, st, tasks)
        BY TellsIs
      <3>2. tasks \in Seq(Task) /\ \A i \in DOMAIN tasks : ~OfModels(tasks[i])
        BY <3>1, <2>2, CallIsTasks DEF OfModels, PhaseTask
      <3>. QED  BY <3>1, <3>2
    <2>. QED  BY <2>1, <2>2
  <1>. HIDE DEF ways
  <1>2. UNCHANGED tree /\ overlap => overlap' /\ todo' = [todo EXCEPT ![a] = tasks \o @]
    BY <1>1 DEF Accepted
  <1>3. UNCHANGED <<members, home>> /\ ToLeave' \subseteq ToLeave
    BY <1>1, ToLeaveKept DEF Accepted, tree
  <1>4. /\ Upon(todo[a], tasks, todo'[a])
        /\ \A b \in Actor : b # a => todo'[b] = todo[b]
    BY <1>1, PushIsUpon DEF Accepted
  <1>. SUFFICES ASSUME NEW b \in Actor PROVE Empties(todo[b])'
    BY DEF LeaveInv
  <1>5. PICK s, r : s = todo[b] /\ r = todo'[b]
    OBVIOUS
  <1>6. Empties(s)
    BY <1>5 DEF LeaveInv
  <1>7. Empties(r)
    <2>1. CASE b = a
      <3>1. Upon(s, tasks, r)
        BY <2>1, <1>4, <1>5
      <3>. QED  BY <3>1, <1>1, <1>6, EmptiesUpon DEF ways
    <2>2. CASE b # a
      BY <2>2, <1>4, <1>5, <1>6
    <2>. QED  BY <2>1, <2>2
  <1>8. Empties(r)'
    BY <1>3, <1>7, EmptiesStays
  <1>. QED  BY <1>5, <1>8

LEMMA LeaveWorks ==
  ASSUME OneAssembler, OrderInv, InitInv, TreeInv, AsmInv, ExitInv, LeaveInv,
         NEW a \in Actor, Work(a)
  PROVE  LeaveInv'
  <1>1. PICK t : t = Head(todo[a])
    OBVIOUS
  <1>2. InitType /\ overlap' = overlap /\ todo[a] # <<>>
    BY WorkOnState, WorkHasTask DEF InitInv
  <1>3. \A b \in Actor : b # a => todo'[b] = todo[b]
    BY WorkIsLocal
  <1>4. t \in Task
    BY <1>1, <1>2, StacksAreTasks, HeadTailProperties
  <1>5. \/ UNCHANGED tree
        \/ Advances(t.c, t.ph) /\ t.do \in {"phase", "enter"}
    BY <1>1, WorkOnTree DEF At
  <1>6. ASSUME todo \in [Actor -> Seq(NoModels)]
        PROVE  LeaveInv'
    <2>1. todo' \in [Actor -> Seq(NoModels)]
      BY <1>2, <1>6, NoModelsBegets, WorkAllIn
    <2>. QED  BY <2>1, NoModelsLeaves
  <1>7. ASSUME todo \notin [Actor -> Seq(NoModels)]
        PROVE  LeaveInv'
    <2>1. ASSUME Advances(t.c, t.ph), t.do \in {"phase", "enter"}
          PROVE  ToLeave' \subseteq ToLeave \ {t.c}
      <3>1. t.ph = "Connect" => t.c \notin Present \/ (t.c \in late /\ overlap)
        BY <2>1, <1>1, <1>2, <1>7, ConnectMeetsNoExit
      <3>2. PICK c, ph : c = t.c /\ ph = t.ph
        OBVIOUS
      <3>. QED  BY <3>1, <3>2, <2>1, <1>2, ToLeaveAdvances
    <2>2. ToLeave' \subseteq ToLeave /\ UNCHANGED <<members, home>>
      <3>1. CASE UNCHANGED tree
        BY <3>1, <1>2, ToLeaveKept DEF tree
      <3>2. CASE Advances(t.c, t.ph) /\ t.do \in {"phase", "enter"}
        BY <3>2, <2>1 DEF Advances
      <3>. QED  BY <3>1, <3>2, <1>5
    <2>3. ASSUME NEW b \in Actor, b # a
          PROVE  Empties(todo[b])'
      <3>1. PICK s : s = todo[b] /\ s = todo'[b]
        BY <2>3, <1>3
      <3>2. Empties(s)
        BY <3>1 DEF LeaveInv
      <3>3. Empties(s)'
        BY <3>2, <2>2, EmptiesStays
      <3>. QED  BY <3>1, <3>3
    <2>4. Empties(todo[a])'
      <3>1. PICK s, r : s = todo[a] /\ r = todo'[a]
        OBVIOUS
      <3>2. Empties(s)
        BY <3>1 DEF LeaveInv
      <3>3. CASE PhaseTask(t)
        <4>1. Empties(r)'
          BY <3>1, <3>2, <3>3, <2>1, <1>1, <1>2, EmptiesWorks
        <4>. QED  BY <4>1, <3>1
      <3>4. CASE ~PhaseTask(t)
        <4>1. t \in NoModels
          BY <3>4, <1>4 DEF NoModels, OfModels, PhaseTask
        <4>2. Throws(a) \/ \E tasks \in Seq(NoModels) : Becomes(a, tasks)
          BY <4>1, <1>1, <1>2, NoModelsBegets, WorkBecomes
        <4>3. CASE Throws(a)
          <5>1. r = <<>>
            BY <4>3, <3>1, StacksAreTasks DEF Throws
          <5>2. Empties(r)'
            BY <5>1 DEF Empties
          <5>. QED  BY <5>2, <3>1
        <4>4. ASSUME NEW tasks \in Seq(NoModels), Becomes(a, tasks)
              PROVE  Empties(todo[a])'
          <5>1. tasks \in Seq(Task)
            <6>1. NoModels \subseteq Task
              BY DEF NoModels
            <6>. QED  BY <6>1, SeqMonotonic
          <5>2. GivesWay(s, tasks, r) /\ s[1] = t
            BY <5>1, <4>4, <3>1, <1>1, <1>2, BecomesGivesWay, WayOrigin
          <5>3. \A i \in DOMAIN tasks : ~OfModels(tasks[i])
            <6>1. \A i \in DOMAIN tasks : tasks[i] \in NoModels
              BY LenProperties, ElementOfSeq
            <6>. QED  BY <6>1 DEF NoModels
          <5>4. \A c : ~Leaving(s[1], c)
            BY <5>2, <3>4 DEF Leaving
          <5>5. Empties(r)
            BY <5>2, <5>3, <5>4, <3>2, EmptiesWay
          <5>6. Empties(r)'
            BY <5>5, <2>2, EmptiesStays
          <5>. QED  BY <5>6, <3>1
        <4>. QED  BY <4>2, <4>3, <4>4
      <3>. QED  BY <3>3, <3>4
    <2>. QED  BY <2>3, <2>4 DEF LeaveInv
  <1>. QED  BY <1>6, <1>7

LEMMA LeaveNext ==
  ASSUME OneAssembler, OrderInv, InitInv, TreeInv, Onward, AsmInv, ExitInv, LeaveInv,
         [Next]_vars
  PROVE  LeaveInv'
  <1>1. ASSUME UNCHANGED <<tree, todo, overlap>>
        PROVE  LeaveInv'
    <2>. SUFFICES ASSUME NEW b \in Actor PROVE Empties(todo[b])'
      BY DEF LeaveInv
    <2>1. PICK s : s = todo[b] /\ s = todo'[b]
      BY <1>1
    <2>2. Empties(s) /\ ToLeave' \subseteq ToLeave /\ UNCHANGED <<members, home>>
      BY <2>1, <1>1, ToLeaveKept DEF LeaveInv, tree
    <2>3. Empties(s)'
      BY <2>2, EmptiesStays
    <2>. QED  BY <2>1, <2>3
  <1>2. CASE UNCHANGED vars
    BY <1>1, <1>2 DEF vars, tree
  <1>3. ASSUME NEW a \in Actor, AddInitEntryPoint(a)
        PROVE  LeaveInv'
    BY <1>1, <1>3 DEF AddInitEntryPoint
  <1>4. ASSUME NEW a \in Actor, Tells(a)
        PROVE  LeaveInv'
    BY <1>4, LeaveTells
  <1>5. ASSUME NEW a \in Actor, Add(a) \/ AddConnected(a)
        PROVE  LeaveInv'
    <2>1. PICK c, p, old : Adds(a, c, p, old)
      BY <1>5, AdditionAdds
    <2>. QED  BY <2>1, LeaveAdds
  <1>6. ASSUME NEW a \in Actor, Work(a)
        PROVE  LeaveInv'
    BY <1>6, LeaveWorks
  <1>. QED  BY <1>2, <1>3, <1>4, <1>5, <1>6, StepIs

LEMMA LeaveInit == Init => LeaveInv
  BY DEF Init, LeaveInv, Empties

\* When the models have been walked through there is nobody left to lead.
LEMMA ExitLeavesNobody ==
  ASSUME OrderInv, TreeInv, LeaveInv, NEW a \in Actor, todo[a] # <<>>,
         NEW t, t = Head(todo[a]), t.do = "walk", t.ph = "Disconnect", t.in = "models",
         t.i >= Len(members["models"])
  PROVE  ToLeave = {}
  <1>1. PICK s : s = todo[a]
    OBVIOUS
  <1>2. s \in Seq(Task) /\ s # <<>> /\ t = s[1] /\ 1 \in DOMAIN s
    BY <1>1, StacksAreTasks, LenProperties, EmptySeq
  <1>3. t \in Task /\ OfModels(t)
    BY <1>2, TasksInside DEF OfModels
  <1>4. PICK S \in SUBSET Component : ToLeave \subseteq S /\ Leads(s, 1, S)
    BY <1>1, <1>2, <1>3 DEF LeaveInv, Empties
  <1>5. \A c : ~Leaving(t, c)
    <2>. SUFFICES ASSUME NEW c, Leaving(t, c) PROVE FALSE
      OBVIOUS
    <2>1. PICK j \in DOMAIN members["models"] : j > t.i
      BY DEF Leaving, Will
    <2>2. t.i \in Nat /\ "models" \in Place
      BY <1>3, PhaseTaskIs DEF PhaseTask, Place
    <2>3. j \in Nat /\ Len(members["models"]) \in Nat /\ j <= Len(members["models"])
      BY <2>1, <2>2, LenProperties DEF OrderInv, TreeType
    <2>. QED  BY <2>1, <2>2, <2>3
  <1>6. \A c \in S : home[c] \in S
    BY <1>2, <1>4, <1>5 DEF Leads
  <1>. QED  BY <1>4, <1>6 DEF TreeInv, Acyclic

-----------------------------------------------------------------------------
(***************************************************************************)
(* The theorem.                                                            *)
(***************************************************************************)
CompleteInv ==
  /\ OrderInv /\ InitInv /\ TreeInv /\ Onward
  /\ AsmInv /\ ExitInv /\ LeaveInv

LEMMA ExitCompletes ==
  ASSUME OrderInv, TreeInv, AsmInv, ExitInv, LeaveInv
  PROVE  ExitIsComplete
  <1>. SUFFICES ASSUME NEW a \in Actor, todo[a] # <<>>, NEW t, t = Head(todo[a])
                PROVE  /\ t.do = "walk" /\ t.ph = "Disconnect" /\ t.in = "models"
                          /\ t.i >= Len(members["models"])
                          => \A c \in Present : comp[c] = "Connected" => c \in late /\ overlap
                       /\ state = "Exiting" /\ ~overlap /\ t.do = "phase"
                          => comp[t.c] = "Connected" \/ t.c \in late
    BY DEF ExitIsComplete
  <1>1. ASSUME t.do = "walk", t.ph = "Disconnect", t.in = "models", t.i >= Len(members["models"]),
               NEW c \in Present, comp[c] = "Connected"
        PROVE  c \in late /\ overlap
    <2>1. ToLeave = {}
      BY <1>1, ExitLeavesNobody
    <2>. QED  BY <2>1, <1>1 DEF ToLeave
  <1>2. ASSUME state = "Exiting", ~overlap, t.do = "phase"
        PROVE  comp[t.c] = "Connected" \/ t.c \in late
    BY <1>2, ExitMeetsConnected DEF At
  <1>. QED  BY <1>1, <1>2

\* When one actor assembles the simulator, each phase makes up for the ones
\* before it and leaves nothing behind, whatever the components and the event
\* subscribers call, whatever is added, whoever throws, and whatever the other
\* actors do meanwhile: Connect meets no component that it refuses, in Standby
\* everything is connected, an entry point is executed once, and an Exit that
\* comes to its end leaves nothing connected.
THEOREM PhasesMakeUp == OneAssembler => (Spec => []PhasesAreComplete)
  <1>. SUFFICES ASSUME OneAssembler PROVE Spec => []PhasesAreComplete
    OBVIOUS
  <1>1. Init => CompleteInv
    BY OrderInit, InitInvInit, OnwardInit, AsmInit, ExitInit, LeaveInit DEF CompleteInv
  <1>2. CompleteInv /\ [Next]_vars => CompleteInv'
    <2>. SUFFICES ASSUME CompleteInv, [Next]_vars PROVE CompleteInv'
      OBVIOUS
    <2>1. /\ OrderInv /\ InitInv /\ TreeInv /\ Onward
          /\ AsmInv /\ ExitInv /\ LeaveInv /\ InitType
      BY DEF CompleteInv, InitInv
    <2>2. OrderInv' /\ InitInv'
      BY <2>1, OrderNext, InitInvNext
    <2>3. TreeInv' /\ Onward'
      BY <2>1, OnwardNext
    <2>4. AsmInv'
      BY <2>1, AsmNext
    <2>5. ExitInv'
      BY <2>1, ExitNext
    <2>6. LeaveInv'
      BY <2>1, LeaveNext
    <2>. QED  BY <2>2, <2>3, <2>4, <2>5, <2>6 DEF CompleteInv
  <1>3. CompleteInv => ConnectNeverRefuses /\ StandbyMeansConnected /\ ExitIsComplete
    BY ConnectMakesUp, StandbyIsConnected, ExitCompletes DEF CompleteInv
  <1>4. Spec => [](ConnectNeverRefuses /\ StandbyMeansConnected /\ ExitIsComplete)
    BY <1>1, <1>2, <1>3, PTL DEF Spec
  <1>5. ConnectNeverRefuses /\ StandbyMeansConnected /\ ExitIsComplete /\ InitOnce
          => PhasesAreComplete
    BY DEF PhasesAreComplete
  <1>. QED  BY <1>4, <1>5, InitsRunOnce, PTL

=============================================================================
