------------------------------ MODULE Storage ------------------------------
(***************************************************************************)
(* Breakpoints: Simulator::Store writes the tree of components and fields  *)
(* to a file (kern/src/StorageWriter.cpp), Simulator::Restore parses one   *)
(* and restores the fields it names (kern/src/StorageReader.cpp). The      *)
(* process may die while it writes; the next one may have another tree.    *)
(*                                                                         *)
(* The file is written, and flushed, line by line, and a line is one step  *)
(* of the parser: the states of the parser between two lines are kept, the *)
(* ones inside a line are those of "name = {" and "name = value".          *)
(***************************************************************************)
EXTENDS LuaBuilder

CONSTANTS
  Misread,    \* name that begins with F -> what FIELDS_F makes of it
  LikeFields, \* the names FIELDS_F takes for "Fields"
  Odd         \* names with a character that is not a letter or a digit

VARIABLES
  stored,   \* history: the tree when Store was called
  file,     \* the lines of it, once Store has ended
  written,  \* how many of them are in the file
  at,       \* lines read by the parser
  state,    \* _State of the parser, or "done", "threw" for the reader
  parents,  \* components that are open, each with its last container
  parsed    \* the containers, components and fields found, in order

storageVars == <<stored, file, written, at, state, parents, parsed>>

NoTree == [fields |-> <<>>, sub |-> <<>>]

RootOnly == <<[comp |-> NoComponent, cont |-> NoComponent]>>

StorageInit ==
  /\ stored = NoTree
  /\ file = <<>>
  /\ written = 0
  /\ at = 0 /\ state = "NEXT_IS_CONT" /\ parents = RootOnly /\ parsed = <<>>

-----------------------------------------------------------------------------
(***************************************************************************)
(* StorageWriter.                                                          *)
(***************************************************************************)

Open(n)      == [kind |-> "open", name |-> n]
FieldLine(n) == [kind |-> "field", name |-> n]
Close        == [kind |-> "close", name |-> ""]

\* The containers of the simulator, in order.
SimContainers == <<"Models", "Services">>

ChildrenOf(tree, k) == {c \in DOMAIN tree.sub : Front(c) = k}

\* The lines of a component, given the lines of what is in it. The fields come
\* first, all of them, whether they are state or not.
storeComponent(tree, c, lines) ==
  LET names == tree.fields[c]
      conts == SetToSeq({Append(c, k) : k \in tree.sub[c]})
  IN <<Open(Last(c)), Open("Fields")>>
       \o [i \in DOMAIN names |-> FieldLine(names[i])]
       \o <<Close>>
       \o FlattenSeq([i \in DOMAIN conts |-> lines[conts[i]]])
       \o <<Close>>

storeContainer(tree, k, lines) ==
  LET comps == SetToSeq(ChildrenOf(tree, k))
  IN <<Open(Last(k))>> \o FlattenSeq([i \in DOMAIN comps |-> lines[comps[i]]]) \o <<Close>>

Containers(tree) ==
  {<<k>> : k \in ToSet(SimContainers)}
    \union UNION {{Append(c, k) : k \in tree.sub[c]} : c \in DOMAIN tree.sub}

store(tree) ==
  LET lines[n \in DOMAIN tree.sub \union Containers(tree)] ==
        IF n \in DOMAIN tree.sub THEN storeComponent(tree, n, lines)
        ELSE storeContainer(tree, n, lines)
  IN FlattenSeq([i \in DOMAIN SimContainers |-> lines[<<SimContainers[i]>>]])

\* What the components have now.
Tree == [fields |-> [c \in Component |-> [i \in DOMAIN fields[c] |-> fields[c][i].name]],
         sub    |-> sub]

\* Bounds: one file, and of a tree whose fields have built-in types and that
\* has no properties: nothing in a file depends on them.
Storable == file = <<>> /\ types = <<>> /\ \A c \in Component : properties[c] = <<>>

Store ==
  /\ phase = "Standby" /\ Storable
  /\ phase' = "Storing"
  /\ stored' = Tree
  /\ file' = store(Tree)
  /\ written' = 0
  /\ UNCHANGED <<pubVars, config, sub, connected, links, calls, at, state, parents, parsed>>

WriteLine ==
  /\ phase = "Storing"
  /\ written < Len(file)
  /\ written' = written + 1
  /\ UNCHANGED <<pubVars, builderVars, stored, file, at, state, parents, parsed>>

StoreDone ==
  /\ phase = "Storing"
  /\ written = Len(file)
  /\ phase' = "Standby"
  /\ UNCHANGED <<pubVars, config, sub, connected, links, calls, storageVars>>

-----------------------------------------------------------------------------
(***************************************************************************)
(* The parser of StorageReader.                                            *)
(***************************************************************************)

Line == file[at + 1]

Top == Last(parents)

Found(kind, path) == parsed' = Append(parsed, [kind |-> kind, path |-> path])

\* A container is added to the innermost open component.
OpenContainer(n) ==
  /\ parents' = Append(Front(parents), [Top EXCEPT !.cont = Append(Top.comp, n)])
  /\ Found("container", Append(Top.comp, n))
  /\ state' = "CONT_CONTENT"

\* A component is added to the last container, and is the innermost one.
OpenComponent(n) ==
  LET c == Append(Top.cont, n)
  IN /\ parents' = Append(parents, [comp |-> c, cont |-> NoComponent])
     /\ Found("component", c)
     /\ state' = "FIELDS_F"

MoveTo(s) == state' = s /\ UNCHANGED <<parents, parsed>>

CloseComponent(s) ==
  /\ parents' = Front(parents)
  /\ state' = s
  /\ UNCHANGED parsed

\* NEXT_IS_CONT: a container of the simulator, or another one of a component.
NextIsCont(l) ==
  CASE l.kind = "open"  -> OpenContainer(l.name)
    [] l.kind = "close" -> CloseComponent("NEXT_IS_COMP")
    [] OTHER            -> MoveTo("threw")

\* CONT_CONTENT and NEXT_IS_COMP.
ContContent(l) ==
  CASE l.kind = "open"  -> OpenComponent(l.name)
    [] l.kind = "close" -> MoveTo("NEXT_IS_CONT")
    [] OTHER            -> MoveTo("threw")

\* After the name of a component, and after its fields: they are expected, but
\* the first container may be here, without its letter F.
FieldsF(l) ==
  CASE l.kind = "close"                             -> CloseComponent("CONT_CONTENT")
    [] l.kind = "open" /\ l.name \in LikeFields     -> MoveTo("FIELDS_CONTENT")
    [] l.kind = "open" /\ l.name \in DOMAIN Misread -> OpenContainer(Misread[l.name])
    [] l.kind = "open" /\ l.name \notin DOMAIN Misread \union LikeFields
                                                    -> OpenContainer(l.name)
    [] OTHER                                        -> MoveTo("threw")

FieldsContent(l) ==
  CASE l.kind = "close" -> MoveTo("FIELDS_F")
    [] l.kind = "field" -> /\ Found("field", Append(Top.comp, l.name))
                           /\ UNCHANGED <<state, parents>>
    [] OTHER            -> MoveTo("threw")

ParseLine ==
  /\ phase = "Restoring" /\ state \notin {"done", "threw"}
  /\ at < written
  /\ at' = at + 1
  /\ IF Line.name \in Odd THEN MoveTo("threw")
     ELSE CASE state = "NEXT_IS_CONT"                    -> NextIsCont(Line)
            [] state \in {"CONT_CONTENT", "NEXT_IS_COMP"} -> ContContent(Line)
            [] state = "FIELDS_F"                        -> FieldsF(Line)
            [] state = "FIELDS_CONTENT"                  -> FieldsContent(Line)
  /\ UNCHANGED <<pubVars, builderVars, stored, file, written>>

\* Faulty variant: the end of the file ends the parsing wherever it is.
EndOfFile_Anywhere == at = written

\* The end of the file is looked at in one state only. In the others the
\* character is still the end of the last line, which they skip: the parser
\* goes round for ever.
EndOfFile == at = written /\ state = "NEXT_IS_CONT"

ParseDone ==
  /\ phase = "Restoring" /\ state \notin {"done", "threw"}
  /\ EndOfFile
  /\ state' = "done"
  /\ at' = 0
  /\ UNCHANGED <<pubVars, builderVars, stored, file, written, parents, parsed>>

-----------------------------------------------------------------------------
(***************************************************************************)
(* Restoring what was parsed; at counts the items done.                    *)
(***************************************************************************)

HasContainer(k) ==
  IF Len(k) = 1 THEN k[1] \in ToSet(SimContainers)
  ELSE Front(k) \in Component /\ Last(k) \in sub[Front(k)]

\* What restoring x needs: the component of a container (GetContainer of a
\* null pointer), the container of a component, the field and its component.
CanRestore(x) ==
  CASE x.kind = "container" -> Len(x.path) = 1 \/ Front(x.path) \in Component
    [] x.kind = "component" -> HasContainer(Front(x.path))
    [] x.kind = "field"     -> /\ Front(x.path) \in Component
                               /\ Last(x.path) \in NamesOf(fields[Front(x.path)])

\* The field reads its value from the stream, which the parser has read to
\* its end: what it gets is not what was stored.
RestoreField(x) ==
  IF x.kind = "field"
  THEN fields' = [fields EXCEPT ![Front(x.path)] =
         [i \in DOMAIN @ |-> IF @[i].name = Last(x.path)
                             THEN [@[i] EXCEPT !.value = "undefined"] ELSE @[i]]]
  ELSE UNCHANGED fields

RestoreItem ==
  /\ phase = "Restoring" /\ state = "done"
  /\ at < Len(parsed)
  /\ IF CanRestore(parsed[at + 1])
     THEN RestoreField(parsed[at + 1]) /\ at' = at + 1 /\ UNCHANGED state
     ELSE state' = "threw" /\ UNCHANGED <<fields, at>>
  /\ UNCHANGED <<types, properties, published, guard, escaped, denied, builderVars,
                 stored, file, written, parents, parsed>>

Restore ==
  /\ phase = "Standby" /\ written > 0
  /\ phase' = "Restoring"
  /\ at' = 0 /\ state' = "NEXT_IS_CONT" /\ parents' = RootOnly /\ parsed' = <<>>
  /\ UNCHANGED <<pubVars, config, sub, connected, links, calls, stored, file, written>>

\* After an exception the simulator stays in Restoring.
RestoreDone ==
  /\ phase = "Restoring" /\ state = "done" /\ at = Len(parsed)
  /\ phase' = "Standby"
  /\ at' = 0 /\ state' = "NEXT_IS_CONT" /\ parents' = RootOnly /\ parsed' = <<>>
  /\ UNCHANGED <<pubVars, config, sub, connected, links, calls, stored, file, written>>

-----------------------------------------------------------------------------

\* The process ends, while it writes or later, and another one builds its
\* simulation: the same, or one that lacks a component or a field. Bound: once,
\* and the second process is not built again call by call, nor configured.
Restart ==
  /\ phase \in {"Standby", "Storing"} /\ written > 0
  /\ config # NoConfig
  /\ config' = NoConfig
  /\ phase' = "Standby"
  /\ \E lost \in {NoComponent} \union Component :
       sub' = [c \in {c \in Component : lost = NoComponent \/ ~IsPrefix(lost, c)} |-> sub[c]]
  /\ \E less \in {{}} \union {{c} : c \in {c \in DOMAIN sub' : fields[c] # <<>>}} :
       fields' = [c \in DOMAIN sub' |-> IF c \in less THEN Tail(fields[c]) ELSE fields[c]]
  /\ properties' = [c \in DOMAIN sub' |-> <<>>]
  /\ published' = [c \in DOMAIN sub' |-> {}]
  /\ guard' = [c \in DOMAIN sub' |-> NoUuid]
  /\ escaped' = {} /\ denied' = NoComponent
  /\ UNCHANGED <<types, connected, links, calls, storageVars>>

Init == BuilderInit /\ StorageInit

Next ==
  \/ /\ \/ \E cfg \in Configs : SetConfiguration(cfg)
        \/ ClientCall
        \/ Configure
        \/ Connect
     /\ UNCHANGED storageVars
  \/ Store
  \/ WriteLine
  \/ StoreDone
  \/ Restore
  \/ ParseLine
  \/ ParseDone
  \/ RestoreItem
  \/ RestoreDone
  \/ Restart

vars == <<pubVars, builderVars, storageVars>>

\* The thread that called Store or Restore goes on until it is killed.
Spec ==
  /\ Init /\ [][Next]_vars
  /\ WF_vars(WriteLine) /\ WF_vars(StoreDone)
  /\ WF_vars(ParseLine) /\ WF_vars(ParseDone)
  /\ WF_vars(RestoreItem) /\ WF_vars(RestoreDone)

-----------------------------------------------------------------------------

\* Names the parser does not take for something else.
WellNamed(tree) ==
  \A c \in DOMAIN tree.sub :
    /\ tree.sub[c] \intersect (DOMAIN Misread \union LikeFields \union Odd) = {}
    /\ Last(c) \notin Odd
    /\ \A i \in DOMAIN tree.fields[c] : tree.fields[c][i] \notin Odd

\* All that a tree holds.
Contents(tree) ==
  LET comps == DOMAIN tree.sub
      kept(kind, paths) == {[kind |-> kind, path |-> p] : p \in paths}
  IN kept("container", {<<k>> : k \in ToSet(SimContainers)})
       \union kept("component", comps)
       \union UNION {kept("container", {Append(c, k) : k \in tree.sub[c]}) : c \in comps}
       \union UNION {kept("field", {Append(c, n) : n \in ToSet(tree.fields[c])}) : c \in comps}

\* The containers, components and names of fields the parser takes from a file
\* are the ones the simulator that wrote it held, whatever the nesting of its
\* components: all of them if the file is complete. If the writer died,
\* components and containers may be missing, but each one that was found has
\* all its fields (StorageReader::_parse, StorageWriter::storeComponent).
ReadAsWritten ==
  [][state # "done" /\ state' = "done" /\ WellNamed(stored) =>
       LET found == ToSet(parsed') IN
       /\ found \subseteq Contents(stored)
       /\ written = Len(file) => found = Contents(stored)
       /\ \A x \in found : x.kind = "component" =>
            \A n \in ToSet(stored.fields[x.path]) :
              [kind |-> "field", path |-> Append(x.path, n)] \in found]_vars

\* A simulator restored from a complete file into a tree that has all that
\* the file names is in Standby again, unless it ends first
\* (Simulator::Restore, StorageReader::restore).
RestoreReturns ==
  (/\ phase = "Restoring" /\ at = 0 /\ state = "NEXT_IS_CONT"
   /\ written = Len(file) /\ WellNamed(stored)
   /\ DOMAIN stored.sub \subseteq Component
   /\ \A c \in DOMAIN stored.sub :
        ToSet(stored.fields[c]) \subseteq NamesOf(fields[c]))
  ~> phase = "Standby"

\* No value comes back: when Restore returns, every field the file names holds
\* what was read from a stream that was at its end (StorageReader::restore, which
\* parses the whole file first, and StorageReader::Restore; the documentation
\* wants the values back, _doc/src/TODO_simphonie.md:77-82).
ValuesAreLost ==
  [][phase = "Restoring" /\ phase' = "Standby" =>
       \A x \in ToSet(parsed) : x.kind = "field" =>
         \A i \in DOMAIN fields[Front(x.path)] :
           fields[Front(x.path)][i].name = Last(x.path) =>
             fields[Front(x.path)][i].value = "undefined"]_vars

\* The tree that was stored is read back, its values are not, and the simulator
\* is in Standby after it.
OnlyTheTreeIsReadBack == ReadAsWritten /\ ValuesAreLost /\ RestoreReturns

=============================================================================
