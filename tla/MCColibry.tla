----------------------------- MODULE MCColibry -----------------------------
(***************************************************************************)
(* One periodic and one immediate schedule, and two events, which the      *)
(* EventTrigger emits when its expression becomes true and false. The      *)
(* recorder has an array, a text and a structure for fields.               *)
(***************************************************************************)
EXTENDS Colibry, TLC

CONSTANTS s1, i1, n1, t1, u1

Built == {{"meta", "trigger"}, {"control"}, {"synchronizer"}, {"recorder"}}

TriggerEmits == [becomeTrue |-> "go", becomeFalse |-> "halt"]

SomeOffsets == {1, Never}

SomeRepeats == {-1, 1}

Script == s1 :> NewSchedule(FALSE, 1, 2, -1)

Handlers ==
  {[go |-> {Handler("activate", s1, 0, 0)}, halt |-> {Handler("deactivate", s1, 0, 0)}],
   [go |-> {Handler("change", s1, 3, 0)}, halt |-> {Handler("deactivate", s1, 0, 0)}]}

Shapes == n1 :> "array" @@ t1 :> "text" @@ u1 :> "structure"

Ports == {<<>>, <<n1, u1>>, <<t1, n1>>, <<n1>>}

=============================================================================
