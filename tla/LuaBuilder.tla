----------------------------- MODULE LuaBuilder -----------------------------
(***************************************************************************)
(* Building a simulation from a Lua table (lua/src/LuaBuilder.cpp):        *)
(* setConfiguration loads the libraries and creates the components,        *)
(* configure gives the fields their initial values, connect connects them, *)
(* and links components (kern/src/LinkRegistry.cpp). The other components  *)
(* are published in between, and some of them (FMILoad) publish more when  *)
(* they are configured, which is after the builder, the first service of   *)
(* all. The iteration order of a Lua table is not specified.               *)
(*                                                                         *)
(* A component is its path: <<"Models", "A">> for a model of the           *)
(* simulator, <<"Models", "A", "Sub", "C">> for C in container Sub of A.   *)
(***************************************************************************)
EXTENDS Publication

CONSTANTS
  Configs,   \* configurations: libraries lists those to load, types gives the
             \* type of each declared path (without the container of the
             \* simulator), values is the set of [comp, field, size] that
             \* configure finds, connections of [from, to, bulk]
  Library,   \* library -> what its factories make: [uuid, type, role, containers]
  OutputName, \* the names of fields that are output fields
  Publishers, \* bound: the components that publish something
  Kind,      \* kinds the clients register types and publish fields of
  MaxCalls   \* bound: calls of publications and of the registry

VARIABLES
  config,   \* _config
  sub,      \* component -> names of its containers
  connected, \* pairs of an output field and one that is connected to it
  links,    \* LinkRegistry::_links, as pairs of components
  phase,    \* how far the simulation is built, then the state of Simulator
  calls     \* bound on the calls so far

builderVars == <<config, sub, connected, links, phase, calls>>

NoConfig == [libraries |-> <<>>, types |-> <<>>, values |-> {}, connections |-> {}]

BuilderInit ==
  /\ types = <<>>
  /\ fields = <<>> /\ properties = <<>> /\ published = <<>> /\ guard = <<>>
  /\ escaped = {} /\ denied = NoComponent
  /\ config = NoConfig
  /\ sub = <<>> /\ connected = {} /\ links = {}
  /\ phase = "new"
  /\ calls = 0

-----------------------------------------------------------------------------

\* Each library is loaded once, and registers its factories.
Factories(libs) ==
  FlattenSeq([i \in DOMAIN libs |->
    IF libs[i] \in {libs[j] : j \in 1 .. i - 1} THEN <<>> ELSE Library[libs[i]]])

\* A library that is not found, or a factory with the uuid of another one,
\* throws.
Loadable(libs) ==
  /\ ToSet(libs) \subseteq DOMAIN Library
  /\ LET fs == Factories(libs)
     IN \A i, j \in DOMAIN fs : fs[i].uuid = fs[j].uuid => i = j

\* The first factory of a type makes its components.
HasFactory(cfg, t) == \E i \in DOMAIN Factories(cfg.libraries) : Factories(cfg.libraries)[i].type = t

Factory(cfg, t) ==
  LET fs == Factories(cfg.libraries)
  IN fs[Min({i \in DOMAIN fs : fs[i].type = t})]

\* simulatorCreateComponent: a service or a model, by what the factory made.
ContainerOf == [service |-> "Services", model |-> "Models"]

\* The declared paths a component is created for: the factory of each
\* component of the path is known, the first one makes a service or a model,
\* and each other one has a container in the component above. Nothing is
\* created under a component that was not.
Buildable(cfg) ==
  {p \in DOMAIN cfg.types :
     /\ \A i \in DOMAIN p : i % 2 = 1 =>
          /\ SubSeq(p, 1, i) \in DOMAIN cfg.types
          /\ HasFactory(cfg, cfg.types[SubSeq(p, 1, i)])
          /\ i > 1 => p[i-1] \in Factory(cfg, cfg.types[SubSeq(p, 1, i - 2)]).containers
     /\ Factory(cfg, cfg.types[SubSeq(p, 1, 1)]).role \in DOMAIN ContainerOf}

Place(cfg, p) == <<ContainerOf[Factory(cfg, cfg.types[SubSeq(p, 1, 1)]).role]>> \o p

SetConfiguration(cfg) ==
  /\ phase = "new"
  /\ config' = cfg
  /\ IF Loadable(cfg.libraries)
     THEN /\ sub' = [c \in {Place(cfg, p) : p \in Buildable(cfg)} |->
                        Factory(cfg, cfg.types[Tail(c)]).containers]
          /\ phase' = "publishing"
     ELSE UNCHANGED sub /\ phase' = "failed"
  /\ Fresh(DOMAIN sub')
  /\ UNCHANGED <<types, connected, links, calls>>

\* simdeck::StringType::UuidString.
UuidString == <<"kind", "String8">>

\* What components call in their publish and configure functions.
Publishes(c) ==
  \/ \E n \in FieldName, k \in Kind : PublishTyped(c, n, k)
  \/ \E n \in FieldName, u \in UserUuid : PublishIField(c, n, u)
  \/ \E n \in FieldName, u \in UserUuid \union {UuidString} : PublishByUuid(c, n, u)
  \/ \E n \in FieldName, k \in Kind, m \in Count : PublishArray(c, n, k, m)
  \/ PublishNothing(c)
  \/ \E n \in FieldName, u \in UserUuid : PublishProperty(c, n, u)
  \/ \E n \in FieldName, k \in Kind, m \in Count : PublishLuaValue(c, n, k, m)
  \/ Unpublish(c)

Registers ==
  /\ \E u \in UserUuid, k \in Kind, m \in Count : Clients(u, k, m)
  /\ Served
  /\ UNCHANGED <<fields, properties, published, guard, escaped>>

ClientCall ==
  /\ phase \in {"publishing", "configured"}
  /\ calls < MaxCalls
  /\ calls' = calls + 1
  /\ \/ \E c \in Component \intersect Publishers : Publishes(c)
     \/ Len(types) < MaxTypes /\ Registers
  /\ UNCHANGED <<config, sub, connected, links, phase>>

-----------------------------------------------------------------------------

\* The fields that e is about: none, or one.
Targets(e) ==
  IF e.comp \notin Component THEN {}
  ELSE {i \in DOMAIN fields[e.comp] : fields[e.comp][i].name = e.field}

\* Faulty variant: an array gets the values there are for it.
Unfit_NoSize(e) ==
  \E i \in Targets(e) : GetTypeOfUuid(fields[e.comp][i].type).kind = "None"

\* initComponents throws for a field without a kind and for an array of
\* another size.
Unfit(e) ==
  \E i \in Targets(e) :
    LET f == fields[e.comp][i]
    IN GetTypeOfUuid(f.type).kind = "None" \/ f.count # e.size

\* The other fields that are there keep their default value.
SetValues(entries) ==
  fields' = [c \in Component |-> [i \in DOMAIN fields[c] |->
    [fields[c][i] EXCEPT !.value =
       IF \E e \in entries : e.comp = c /\ i \in Targets(e)
       THEN "configured" ELSE "default"]]]

\* configure: every entry whose field exists gives it its value, the others
\* say nothing. The first unfit one throws: the entries before it, in the
\* order of the table, are applied, and Simulator::Configure does not end.
Configure ==
  /\ phase = "publishing"
  /\ LET unfit == {e \in config.values : Unfit(e)}
     IN IF unfit = {}
        THEN SetValues(config.values) /\ phase' = "configured"
        ELSE \E done \in SUBSET (config.values \ unfit) :
               SetValues(done) /\ phase' = "failed"
  /\ Served
  /\ UNCHANGED <<types, properties, published, guard, escaped, config, sub, connected,
                 links, calls>>

\* What a path leads to.
IsField(p) ==
  /\ p # <<>> /\ Front(p) \in Component
  /\ Last(p) \in NamesOf(fields[Front(p)])

IsOutput(p) == IsField(p) /\ Last(p) \in OutputName

\* A list of sources is connected from its target, which is then the output.
Ends(e) == IF e.bulk THEN <<e.to, e.from>> ELSE <<e.from, e.to>>

Joins(e) == IsOutput(Ends(e)[1]) /\ IsField(Ends(e)[2])

Linked(e) == ~Joins(e) /\ e.from \in Component /\ e.to \in Component

\* LinkRegistry::AddLink, for each of the entries.
AddLinks(entries) == links' = links \union {<<e.from, e.to>> : e \in entries}

\* connect, in Simulator::Connect: fields are connected, components linked,
\* and anything else says so and is left out. The simulation is built.
Connect ==
  /\ phase = "configured"
  /\ phase' = "Standby"
  /\ connected' = {Ends(e) : e \in {e \in config.connections : Joins(e)}}
  /\ AddLinks({e \in config.connections : Linked(e)})
  /\ Served
  /\ UNCHANGED <<types, fields, properties, published, guard, escaped, config,
                 sub, calls>>

\* A simulation that runs has the values of its configuration: every entry
\* whose field was there when configure ran is applied, whatever the order
\* of the table, and no array was given values meant for another size; every
\* connection between fields that are there is made, out of an output field;
\* a configuration that does not fit stops the building
\* (LuaBuilder::initComponents, connect).
ConfigurationIsApplied ==
  phase \notin {"new", "publishing", "failed"} =>
    /\ \A e \in config.values : \A i \in Targets(e) :
         LET f == fields[e.comp][i]
         IN /\ f.value # "default"
            /\ f.value = "configured" => f.count = e.size
    /\ config # NoConfig /\ phase # "configured" =>
         /\ \A pair \in connected : IsOutput(pair[1]) /\ IsField(pair[2])
         /\ \A e \in config.connections :
              IsOutput(e.from) /\ IsOutput(e.to) =>
                 <<e.from, e.to>> \in connected \/ <<e.to, e.from>> \in connected

=============================================================================
