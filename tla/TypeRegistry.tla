---------------------------- MODULE TypeRegistry ----------------------------
(***************************************************************************)
(* The registry of data types (kern/src/TypeRegistry.cpp). Types are only  *)
(* ever added: the constructor registers one simple type per primitive     *)
(* kind and the string type, then any component adds its own.              *)
(*                                                                         *)
(* A uuid is <<"kind", k>> for the built-in type of kind k, <<"array", k,  *)
(* n>> for the one Publication::getArrayType computes, and an element of   *)
(* UserUuid for those of the clients. Names, limits and units of the types *)
(* are left out: nothing of the program depends on them.                   *)
(***************************************************************************)
EXTENDS Integers, Sequences, SequencesExt, FiniteSets

CONSTANTS
  UserUuid,   \* uuids the clients register types with
  MaxTypes    \* bound: types registered by clients and by array publications

ASSUME TypesAssumption ==
  /\ MaxTypes \in Nat
  /\ \A u \in UserUuid : u[1] \notin {"kind", "array", "none"}

FloatKinds   == {"Float32", "Float64"}
IntegerKinds == {"Int8", "Int16", "Int32", "Int64",
                 "UInt8", "UInt16", "UInt32", "UInt64"}

\* What a type is made of; item and count are for arrays only.
Type(u, class, kind, item, count) ==
  [uuid |-> u, class |-> class, kind |-> kind, item |-> item, count |-> count]

Simple(u, k) == Type(u, "simple", k, u, 1)

\* What the constructor registers, by uuid: the types of the kinds but the
\* two of time, and the string type.
BuiltInKinds == FloatKinds \union IntegerKinds \union {"Char8", "Bool", "String8"}

BuiltIn == [u \in {<<"kind", k>> : k \in BuiltInKinds} |->
              IF u[2] = "String8" THEN Type(u, "string", "String8", u, 1)
              ELSE Simple(u, u[2])]

VARIABLE types   \* _types after those of the constructor

-----------------------------------------------------------------------------

\* GetType returns the first type that matches, or nullptr. The built-in ones
\* come first, one of each kind, and their uuids are theirs alone.
NoType == Type(<<"none">>, "none", "None", <<"none">>, 0)

FirstOf(found) == IF found = {} THEN NoType ELSE types[Min(found)]

GetTypeOfUuid(u) ==
  IF u \in DOMAIN BuiltIn THEN BuiltIn[u]
  ELSE FirstOf({i \in DOMAIN types : types[i].uuid = u})

GetTypeOfKind(k) ==
  IF k \in BuiltInKinds THEN BuiltIn[<<"kind", k>>]
  ELSE FirstOf({i \in DOMAIN types : types[i].kind = k})

Known(u) == GetTypeOfUuid(u) # NoType

-----------------------------------------------------------------------------
(***************************************************************************)
(* The Add operations. One that throws leaves the registry as it is.       *)
(***************************************************************************)

Add(t) == types' = Append(types, t)
Refuse == UNCHANGED types

AddUnlessKnown(u, t) == IF Known(u) THEN Refuse ELSE Add(t)

AddFloatType(u, k) ==
  IF k \in FloatKinds THEN AddUnlessKnown(u, Simple(u, k)) ELSE Refuse

AddIntegerType(u, k) ==
  IF k \in IntegerKinds THEN AddUnlessKnown(u, Simple(u, k)) ELSE Refuse

AddEnumerationType(u) ==
  AddUnlessKnown(u, Type(u, "enumeration", "Int32", u, 1))

\* Without its item type nothing is registered and nullptr is returned. The
\* kind of an array is that of its items (LuaBuilder.cpp:361 counts on it).
AddArrayType(u, item, count) ==
  IF Known(item)
  THEN AddUnlessKnown(u, Type(u, "array", GetTypeOfUuid(item).kind, item, count))
  ELSE Refuse

\* Not implemented: checks the uuid, registers nothing, returns nullptr.
AddStringType(u) == Refuse

AddStructureType(u) == AddUnlessKnown(u, Type(u, "structure", "None", u, 1))

AddClassType(u) == AddUnlessKnown(u, Type(u, "class", "None", u, 1))

\* A type the client made, of any kind: the only way to have a type for the
\* kinds without a built-in one.
AddType(u, k) == AddUnlessKnown(u, Simple(u, k))

Clients(u, k, count) ==
  \/ AddFloatType(u, k)
  \/ AddIntegerType(u, k)
  \/ AddEnumerationType(u)
  \/ \E item \in UserUuid \union {<<"kind", k>>} : AddArrayType(u, item, count)
  \/ AddStringType(u)
  \/ AddStructureType(u)
  \/ AddClassType(u)
  \/ AddType(u, k)

=============================================================================
