------------------------------- MODULE MCFMI -------------------------------
(***************************************************************************)
(* An exported simulation with three models for TLC: a cyclic one, one     *)
(* that is activated once, and an FMILoad with a unit of four variables.   *)
(***************************************************************************)
EXTENDS FMIBridge

FourVariables ==
  [in    |-> [causality |-> "input", variability |-> "continuous", initial |-> "absent"],
   gain  |-> [causality |-> "parameter", variability |-> "fixed", initial |-> "absent"],
   out   |-> [causality |-> "output", variability |-> "discrete", initial |-> "absent"],
   wrong |-> [causality |-> "input", variability |-> "constant", initial |-> "absent"]]

SomeSettings == [stopTime : {NotSet, 4}, stepSize : {NotSet, 2}]

ThreeModels == {"cyclic", "once", "load"}
Offsets     == [cyclic |-> 0, once |-> 1, load |-> 1]
Periods     == [cyclic |-> 3, once |-> 0, load |-> 2]

=============================================================================
