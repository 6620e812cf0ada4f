------------------------------ MODULE FMILoad ------------------------------
(***************************************************************************)
(* A model that imports a functional mock-up unit (fmi/src/FMILoad.cpp):   *)
(* how configure reads the description of the unit and instantiates it,    *)
(* how the init entry point resets it and how doStep drives it. Each       *)
(* operator is one handler, used by the simulation that holds the model.   *)
(*                                                                         *)
(* The unit is external: it behaves as a co-simulation slave of FMI 2.0,   *)
(* the state machine FMILoad.hpp refers to, whose output is a copy of its  *)
(* input. FMILoad calls the accessors of the wrong type (it tests strcmp   *)
(* the wrong way round); the unit is taken to ignore the type, as          *)
(* FMIBridge does, and the values are integers that the conversions keep.  *)
(* Which calls it allows is recorded and never enforced: what a unit does  *)
(* with a call that its state forbids is its own affair.                   *)
(***************************************************************************)
EXTENDS Integers

CONSTANTS
  Var,         \* the ScalarVariables of the description
  Attributes,  \* [causality, variability, initial] of each, as written
  Values,      \* values of the variables
  Settings,    \* what the user publishes and the default experiment says
  Statuses     \* what fmi2DoStep of the unit may return

NotSet == -1   \* -1.0, the initial value of the published settings

Experiment == [stopTime : Nat \union {NotSet}, stepSize : Nat \union {NotSet}]

ASSUME FMILoadAssumption ==
  /\ Settings \subseteq Experiment
  /\ Statuses \subseteq {"OK", "Warning", "Discard", "Pending", "Error"}
  /\ Values \subseteq Int /\ 0 \in Values

VARIABLES
  loader,      \* "published", "configured", "ready", "failed", "crashed", "deleted"
  setting,     \* the published fields stopTime and stepSize
  curComTime,  \* _curComTime
  field,       \* values of the published fields of the variables
  unit,        \* where the unit is in the state machine of the standard
  unitTime,    \* the time up to which the unit has been simulated
  value,       \* values of the variables inside the unit
  misuse,      \* history: the states of the unit in which a call was made that
               \* the standard forbids there; "set" if variables were read
               \* after they were set and before a step
  trouble      \* history: what went wrong, the unit's statuses but OK

loadVars == <<loader, setting, curComTime, field, unit, unitTime, value,
              misuse, trouble>>

\* The start values of the unit.
Start == [x \in Var |-> 0]

LoadInit ==
  /\ loader = "published"
  /\ setting \in Settings
  /\ curComTime = 0
  /\ field = Start
  /\ unit = "none"
  /\ unitTime = 0
  /\ value = Start
  /\ misuse = {}
  /\ trouble = {}

-----------------------------------------------------------------------------
(***************************************************************************)
(* The description of the variables.                                       *)
(***************************************************************************)

\* The default of the attribute initial: pages 48 and 49 of the standard.
DefaultInitial(c, v) ==
  CASE \/ v = "constant" /\ c \in {"output", "local"}
       \/ v \in {"fixed", "tunable"} /\ c = "parameter"           -> "exact"
    [] \/ v \in {"fixed", "tunable"} /\ c \in {"local", "calculatedParameter"}
       \/ v \in {"discrete", "continuous"} /\ c \in {"output", "local"}
                                                             -> "calculated"
    [] \/ v = "continuous" /\ c = "independent"
       \/ v \in {"discrete", "continuous"} /\ c = "input"     -> "undefined"
    [] OTHER                                                       -> "none"

Causality(x)   == Attributes[x].causality
Variability(x) == Attributes[x].variability
Initial(x) ==
  IF Attributes[x].initial # "absent" THEN Attributes[x].initial
  ELSE DefaultInitial(Causality(x), Variability(x))

\* _vars: a variable whose attributes have no sense is left out.
Exchanged == {x \in Var : Initial(x) \in {"exact", "approx", "calculated", "undefined"}}

InputOrTunable ==
  {x \in Exchanged : \/ Causality(x) = "input"
                     \/ Causality(x) = "parameter" /\ Variability(x) = "tunable"}

\* All that setup sends in its three rounds.
SentBySetup ==
  InputOrTunable \union
  {x \in Exchanged : /\ Variability(x) # "constant"
                     /\ Initial(x) \in {"exact", "approx"}}

\* The unit once the fields of xs are sent, by setVariables; f are the
\* fields once all the variables are read, by getVariables.
Sent(v, f, xs) == [x \in Var |-> IF x \in xs THEN f[x] ELSE v[x]]
Read(v, f)     == [x \in Var |-> IF x \in Exchanged THEN v[x] ELSE f[x]]

-----------------------------------------------------------------------------
(***************************************************************************)
(* The handlers.                                                           *)
(***************************************************************************)

\* Whether a unit in state u is an instance that calls may be made on.
Live(u) == u \in {"instantiated", "stepMode", "stepInProgress", "stepFailed"}

\* setup on a unit that is in state u, with the values v, sending xs: only
\* a unit that was just instantiated or reset can be set up.
Setup(u, v, xs) ==
  /\ misuse' = misuse \union ({u} \ {"instantiated"})
  /\ unit' = IF Live(u) THEN "stepMode" ELSE u
  /\ value' = Sent(v, field, xs)
  /\ field' = Read(Sent(v, field, xs), field)
  /\ unitTime' = 0
  /\ curComTime' = 0

\* configure when a file, an attribute, the library or one of its functions
\* is missing: an exception that is thrown as a pointer. Without a
\* DefaultExperiment the empty list of nodes is dereferenced, which ends the
\* process.
ConfigureFails ==
  /\ loader = "published"
  /\ loader' \in {"failed", "crashed"}
  /\ UNCHANGED <<setting, curComTime, field, unit, unitTime, value, misuse, trouble>>

\* configure: the settings the user left out are taken from the default
\* experiment d, the unit is instantiated and set up a first time, only to
\* read the values of its variables. A missing step size becomes 1.
Configure(d) ==
  /\ loader = "published"
  /\ loader' = "configured"
  /\ LET pick(own, default) == IF own = NotSet THEN default ELSE own
     IN  setting' =
           [stopTime |-> pick(setting.stopTime, d.stopTime),
            stepSize |-> pick(pick(setting.stepSize, d.stepSize), 1)]
  /\ Setup("instantiated", Start, {})
  /\ UNCHANGED trouble

\* Faulty variant: the unit is set up again without having been reset.
Reset_NotReset ==
  /\ loader' = "ready"
  /\ Setup(unit, value, SentBySetup)
  /\ UNCHANGED <<setting, trouble>>

\* reset, the init entry point: fmi2Reset, then setup with the values that
\* the fields were given since configure.
Reset ==
  /\ loader' = "ready"
  /\ Setup(IF Live(unit) THEN "instantiated" ELSE unit, Start, SentBySetup)
  /\ UNCHANGED <<setting, trouble>>

\* The unit simulates from its own time on: its outputs follow its inputs.
Simulated(v) ==
  [x \in Var |-> IF Causality(x) = "output" /\ \E i \in Var : Causality(i) = "input"
                 THEN v[CHOOSE i \in Var : Causality(i) = "input"] ELSE v[x]]

\* doStep is refused when the next point would reach stopTime. A stopTime
\* that is not set is -1.0, which every point has reached.
StepRefused == curComTime + setting.stepSize >= setting.stopTime

\* What doStep does with the answer of the unit: only OK moves its time. An
\* Error is thrown (see DoStep of the simulation); Discard terminates the
\* co-simulation, which frees the instance but keeps the handle. After
\* Pending the unit goes on with its step.
StepAnswered(status) ==
  /\ curComTime' = IF status = "OK" THEN curComTime + setting.stepSize
                                    ELSE curComTime
  /\ unit' = CASE status = "Discard" -> "freed"
               [] status = "Error"   -> "stepFailed"
               [] status = "Pending" /\ unit = "stepMode" -> "stepInProgress"
               [] OTHER              -> unit

\* doStepEP: the inputs are sent and all the variables are read, then the
\* unit steps. A warning is a step that was done. The setters are called
\* even if there is nothing to send, so the reading always follows them.
DoStepEP(status) ==
  IF StepRefused THEN status = "OK" /\ UNCHANGED loadVars
  ELSE /\ misuse' = misuse \union ({unit} \ {"stepMode"})
                           \union {"set" : x \in Exchanged}
       /\ LET sent == Sent(value, field, InputOrTunable)
          IN  /\ field' = Read(sent, field)
              /\ value' = IF status \in {"OK", "Warning"} THEN Simulated(sent) ELSE sent
       /\ unitTime' = IF status \in {"OK", "Warning"} THEN unitTime + setting.stepSize
                                                      ELSE unitTime
       /\ trouble' = IF status = "OK" THEN trouble ELSE trouble \union {status}
       /\ StepAnswered(status)
       /\ UNCHANGED <<loader, setting>>

\* The unit ends a pending step on a thread of its own and calls back
\* stepFinished, which does nothing: curComTime stays.
StepFinished ==
  /\ unit = "stepInProgress"
  /\ unit' = "stepMode"
  /\ unitTime' = unitTime + setting.stepSize
  /\ value' = Simulated(value)
  /\ UNCHANGED <<loader, setting, curComTime, field, misuse, trouble>>

\* Another model writes an input or a parameter.
WriteField ==
  /\ \E x \in Exchanged, n \in Values :
       /\ Causality(x) \in {"input", "parameter"}
       /\ field[x] # n
       /\ field' = [field EXCEPT ![x] = n]
  /\ UNCHANGED <<loader, setting, curComTime, unit, unitTime, value, misuse, trouble>>

\* The destructor frees the instance. Before configure the handle has no
\* value that was given to it: the call is made, or it is not.
Destroy ==
  /\ loader' = "deleted"
  /\ IF unit = "none"
     THEN /\ misuse' \in {misuse, misuse \union {"none"}}
          /\ trouble' = trouble \union {"neverConfigured"}
          /\ UNCHANGED unit
     ELSE /\ misuse' = misuse \union ({unit} \intersect {"freed", "stepInProgress"})
          /\ unit' = "freed"
          /\ UNCHANGED trouble
  /\ UNCHANGED <<setting, curComTime, field, unitTime, value>>

-----------------------------------------------------------------------------
(***************************************************************************)
(* Properties.                                                             *)
(***************************************************************************)

\* The calls that FMILoad makes although the standard forbids them: it reads
\* the variables after it has set them and before the step (doStep); it does
\* not wait for a step that is pending; it keeps the handle of the instance
\* that it frees after a discarded step (terminate), and the one that it
\* never got if it is deleted before it is configured.
Tolerated ==
  {"set"} \union (IF "Pending" \in trouble THEN {"stepInProgress"} ELSE {})
          \union (IF "Discard" \in trouble THEN {"freed"} ELSE {})
          \union (IF "neverConfigured" \in trouble THEN {"none"} ELSE {})

\* But for those, the calls follow the state machine of the FMI standard: a
\* unit is set up once per instantiation or reset and steps only once it is
\* initialised, no call comes after an error, and nothing is called on a
\* unit that has been freed in any other way.
OnlyKnownMisuse == misuse \subseteq Tolerated

\* The communication point that FMILoad gives to the next step is the time
\* the unit has reached, as long as the unit raised no warning and left no
\* step pending (those steps were done but are not counted).
PointsAgree ==
  unit = "stepMode" /\ trouble \intersect {"Warning", "Pending"} = {}
    => curComTime = unitTime

\* FMILoad and the unit keep in step, in the time and, but for the named
\* calls, in the state.
UnitIsInStep == OnlyKnownMisuse /\ PointsAgree

=============================================================================
