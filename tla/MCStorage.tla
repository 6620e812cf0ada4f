----------------------------- MODULE MCStorage -----------------------------
(***************************************************************************)
(* Values of the constants of Storage and the modules below it for TLC.    *)
(***************************************************************************)
EXTENDS Storage

OneUuid == {<<"user", 1>>}
TwoKinds == {"Float64", "Duration"}
OneOrTwo == {1, 2}

\* Simple types either publish a field of theirs or call back; the others
\* know how to make their field, or decline.
Ways == [class \in {"simple", "enumeration", "array", "structure", "class", "string"} |->
           IF class \in {"simple", "enumeration"} THEN {"adds", "callsBack"}
           ELSE {"adds", "declines"}]

Makes(u, t, role, containers) ==
  [uuid |-> u, type |-> t, role |-> role, containers |-> containers]

\* A library, one with another factory for the same type, and a second copy
\* of one of the factories.
Libraries ==
  [parts |-> <<Makes(1, "Assembly", "model", {"Sub"}), Makes(2, "Tank", "model", {"Fuel"}),
               Makes(3, "Leaf", "model", {}), Makes(4, "Server", "service", {})>>,
   more  |-> <<Makes(5, "Leaf", "service", {"Sub"}), Makes(6, "Thing", "neither", {})>>,
   copy  |-> <<Makes(3, "Leaf", "model", {})>>]

FromTo(from, to, bulk) == [from |-> from, to |-> to, bulk |-> bulk]

\* A model with a sub-component, next to another one, values for both a field
\* that must be an array and one that must not, and connections.
Nested ==
  [libraries |-> <<"parts", "parts">>,
   types  |-> (<<"A">> :> "Assembly") @@ (<<"A", "Sub", "C">> :> "Leaf")
                @@ (<<"B">> :> "Leaf"),
   values |-> {[comp |-> <<"Models", "A">>, field |-> "x", size |-> 1],
               [comp |-> <<"Models", "A", "Sub", "C">>, field |-> "y", size |-> 2]},
   connections |-> {FromTo(<<"Models", "A", "x">>, <<"Models", "A", "Sub", "C", "y">>, FALSE),
                    FromTo(<<"Models", "A", "y">>, <<"Models", "A", "Sub", "C", "x">>, TRUE),
                    FromTo(<<"Models", "A">>, <<"Models", "B">>, FALSE)}]

\* Declarations that come to nothing, a service, and a container whose name
\* begins with F.
Mixed ==
  [libraries |-> <<"parts", "more">>,
   types  |-> (<<"T">> :> "Tank") @@ (<<"T", "Fuel", "C">> :> "Leaf")
                @@ (<<"S">> :> "Server") @@ (<<"O">> :> "Thing")
                @@ (<<"U">> :> "Unheard") @@ (<<"U", "Sub", "C">> :> "Leaf"),
   values |-> {},
   connections |-> {FromTo(<<"Models", "T">>, <<"Models", "O">>, FALSE)}]

Broken == [Mixed EXCEPT !.libraries = <<"parts", "copy">>]

SomeConfigs == {Nested, Mixed, Broken}

Dynamics == [c \in {<<"Models", "A">>, <<"Models", "A", "Sub", "C">>, <<"Models", "B">>,
                    <<"Models", "T">>, <<"Models", "T", "Fuel", "C">>,
                    <<"Services", "S">>} |-> c # <<"Models", "B">>]

SomePublish == {<<"Models", "A">>, <<"Models", "A", "Sub", "C">>, <<"Services", "S">>}

ReadWithoutF == [Fuel |-> "uel"]

=============================================================================
