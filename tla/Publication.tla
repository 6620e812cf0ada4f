---------------------------- MODULE Publication ----------------------------
(***************************************************************************)
(* Publication of the fields and properties of components                  *)
(* (kern/src/Publication.cpp), with the callers that keep their            *)
(* publication and use it again later (LuaModel, FMILoad). There is one    *)
(* publication per component. What becomes of a field once it has been     *)
(* added is the business of the simdeck library, which is not part of the  *)
(* repository; so is Type::Publish, of which TypePublish says what it may  *)
(* do.                                                                     *)
(***************************************************************************)
EXTENDS TypeRegistry

CONSTANTS
  FieldName,     \* names of fields and properties
  Count,         \* sizes of arrays
  TypePublish,   \* what Type::Publish does, a set for each class of types:
                 \*   "adds"       it makes the field and publishes it
                 \*   "callsBack"  it publishes by the same uuid
                 \*   "declines"   it returns nullptr
  Dynamic        \* path of a component -> it implements IDynamicInvocation

VARIABLES
  fields,      \* children of each component: its fields, in order
  properties,  \* and its properties
  published,   \* _published of each publication: what Unpublish removes
  guard,       \* _recursivePubGuard of each publication: a uuid, or NoUuid
  escaped,     \* history: an exception went through Type::Publish
  denied       \* history: the component whose last call, PublishField by
               \* uuid, returned nullptr, or NoComponent

pubVars == <<types, fields, properties, published, guard, escaped, denied>>

NoUuid == NoType.uuid
Component == DOMAIN fields
NoComponent == <<>>
Served == denied' = NoComponent

NamesOf(fs) == {fs[i].name : i \in DOMAIN fs}
ChildNames(c) == NamesOf(fields[c]) \union NamesOf(properties[c])

\* A field as published; value is where its value comes from: "initial" of the
\* component, then "configured" or the "default", then what a restore reads.
Field(n, t, count) ==
  [name |-> n, type |-> t.uuid, count |-> count, value |-> "initial"]

\* The publications of new components.
Fresh(comps) ==
  /\ fields' = [c \in comps |-> <<>>]
  /\ properties' = [c \in comps |-> <<>>]
  /\ published' = [c \in comps |-> {}]
  /\ guard' = [c \in comps |-> NoUuid]
  /\ escaped' = {}
  /\ Served

-----------------------------------------------------------------------------

\* addChild refuses a name the component has already: the field is deleted
\* and the exception goes to the caller.
Taken(c, n) == n \in ChildNames(c)

AddField(c, f) ==
  /\ fields' = [fields EXCEPT ![c] = Append(@, f)]
  /\ published' = [published EXCEPT ![c] = @ \union {f.name}]

AddChild(c, f) ==
  IF Taken(c, f.name) THEN UNCHANGED <<fields, published>> ELSE AddField(c, f)

\* PublishField of the twelve built-in types, and of a field of the caller.
PublishTyped(c, n, k) ==
  /\ Known(<<"kind", k>>)
  /\ AddChild(c, Field(n, GetTypeOfUuid(<<"kind", k>>), 1))
  /\ Served
  /\ UNCHANGED <<types, properties, guard, escaped>>

PublishIField(c, n, u) ==
  /\ Known(u)
  /\ AddChild(c, Field(n, GetTypeOfUuid(u), GetTypeOfUuid(u).count))
  /\ Served
  /\ UNCHANGED <<types, properties, guard, escaped>>

SetGuard(c, u) == guard' = [guard EXCEPT ![c] = u]

\* Faulty variant: the guard is not reset after the type has published.
LeaveGuard_Set(c, u) == SetGuard(c, u)

LeaveGuard(c, u) == SetGuard(c, NoUuid)

\* The type is asked to publish itself: it adds the field, or the field is
\* added here if the type has declined or only called back. If the name is
\* taken, the exception comes through the type in the first case, past the
\* line that resets the guard.
PublishByType(c, n, t) ==
  \E way \in TypePublish[t.class] :
    /\ AddChild(c, Field(n, t, t.count))
    /\ IF way = "adds" /\ Taken(c, n)
       THEN /\ SetGuard(c, t.uuid)
            /\ escaped' = escaped \union {c}
       ELSE /\ LeaveGuard(c, t.uuid)
            /\ UNCHANGED escaped

\* PublishField by uuid. A type that publishes itself already is not asked
\* again: nullptr, and the guard is open once more.
PublishByUuid(c, n, u) ==
  /\ CASE ~Known(u) ->
            /\ Served
            /\ UNCHANGED <<fields, published, guard, escaped>>
       [] Known(u) /\ guard[c] = u ->
            /\ denied' = c
            /\ SetGuard(c, NoUuid)
            /\ UNCHANGED <<fields, published, escaped>>
       [] OTHER ->
            /\ Served
            /\ PublishByType(c, n, GetTypeOfUuid(u))
  /\ UNCHANGED <<types, properties>>

\* Faulty variant: the size of the array is not part of its uuid.
ArrayUuid_NoCount(k, count) == <<"array", k>>

\* getArrayType: the uuid is made of the size and of that of the item type.
ArrayUuid(k, count) == <<"array", k, count>>

\* The type is registered, on demand, before the name is looked at. A kind
\* without a type is refused.
PublishArray(c, n, k, count) ==
  LET item == GetTypeOfKind(k)
      u    == ArrayUuid(k, count)
  IN /\ IF item = NoType
        THEN UNCHANGED <<types, fields, published>>
        ELSE /\ IF Known(u) THEN UNCHANGED types ELSE AddArrayType(u, item.uuid, count)
             /\ AddChild(c, Field(n, [uuid |-> u], count))
     /\ Served
     /\ UNCHANGED <<properties, guard, escaped>>

\* The forms without an address, and PublishOperation: not implemented.
PublishNothing(c) ==
  /\ Served
  /\ UNCHANGED <<types, fields, properties, published, guard, escaped>>

\* A property needs dynamic invocation and a registered type. Its name is
\* not compared with those of the other children, and it is not kept for
\* Unpublish.
PublishProperty(c, n, u) ==
  /\ IF Dynamic[c] /\ Known(u)
     THEN properties' = [properties EXCEPT ![c] = Append(@, [name |-> n, type |-> u])]
     ELSE UNCHANGED properties
  /\ Served
  /\ UNCHANGED <<types, fields, published, guard, escaped>>

\* LuaModel::publishFieldsImpl: a number or a table of numbers of the script.
PublishLuaValue(c, n, k, count) ==
  /\ k \in {"Int64", "Float64"}
  /\ IF count = 1 THEN PublishTyped(c, n, k) ELSE PublishArray(c, n, k, count)

\* What is left of fs without those of the given names.
Without(fs, names) ==
  LET left[n \in 0 .. Len(fs)] ==
        IF n = 0 THEN <<>>
        ELSE IF fs[n].name \in names THEN left[n - 1] ELSE Append(left[n - 1], fs[n])
  IN left[Len(fs)]

Unpublish(c) ==
  /\ fields' = [fields EXCEPT ![c] = Without(@, published[c])]
  /\ published' = [published EXCEPT ![c] = {}]
  /\ Served
  /\ UNCHANGED <<types, properties, guard, escaped>>

-----------------------------------------------------------------------------

\* Registry and fields agree: a uuid stands for one type, the type of every
\* field is registered, and an array field has the size and the items of its
\* type, whoever registered that type, for which field and when
\* (Publication::getArrayType, TypeRegistry::Add*).
FieldsKnowTheirType ==
  /\ \A i \in DOMAIN types :
       /\ types[i].uuid \notin DOMAIN BuiltIn
       /\ \A j \in DOMAIN types : types[i].uuid = types[j].uuid => i = j
  /\ \A c \in Component : \A i \in DOMAIN fields[c] :
       /\ Known(fields[c][i].type)
       /\ fields[c][i].count = GetTypeOfUuid(fields[c][i].type).count

\* PublishField by the uuid of a registered type gives a field or throws;
\* it is never taken for a call of the type to itself, whatever was published
\* before, unless an exception of an earlier call went through the type
\* (_recursivePubGuard, Publication.cpp:180-193).
GuardIsForRecursion ==
  denied # NoComponent => denied \in escaped

=============================================================================
