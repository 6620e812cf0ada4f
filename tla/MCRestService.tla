--------------------------- MODULE MCRestService ---------------------------
(***************************************************************************)
(* Two HTTP threads, a component with one field and a part with one, and   *)
(* times in units of 1, 2, 4 and 8 from -32 to 31.                         *)
(***************************************************************************)
EXTENDS RestService, TLC

SomePaths ==
  {<<"model">>, <<"model", "fields">>, <<"model", "fields", "x">>,
   <<"model", "fields", "wrong">>, <<"model", "part">>,
   <<"model", "part", "entrypoints">>, <<"nothing">>}

SomeFields ==
  (<<"model">> :> [names |-> {"x"}, count |-> 1]) @@
  (<<"model", "part">> :> [names |-> {"x"}, count |-> 1])

Units == [s |-> 8, ms |-> 4, us |-> 2, ns |-> 1]

Body(immediate, offset, cycle, repeat) ==
  [immediate |-> immediate, offset |-> offset, cycle |-> cycle, repeat |-> repeat]

SomeBodies ==
  {Body(TRUE, <<>>, <<>>, -1),
   Body(FALSE, <<>>, [ns |-> 3], -1),
   Body(FALSE, [s |-> 3, us |-> 1], [ms |-> 5], 2),
   Body(FALSE, [us |-> 4], [s |-> 5], 0),
   Body(FALSE, [ns |-> -1], [ms |-> -5], 0),
   Body(FALSE, <<>>, [ms |-> -5], 1)}

=============================================================================
