----------------------------- MODULE MCLifecycle -----------------------------
(***************************************************************************)
(* Values for TLC. One service, which a later one may replace, a model     *)
(* with a submodel, and a component that may come as a service or as a     *)
(* second submodel.                                                        *)
(***************************************************************************)
EXTENDS Lifecycle, TLC

CONSTANTS s1, s2, m1, m2, x, e1, e2, main, panel, engine

MCFirst == [p \in Place |-> CASE p = "services" -> <<s1>>
                              [] p = "models" -> <<m1>>
                              [] p = m1 -> <<m2>>
                              [] OTHER -> <<>>]
MCPlaces == [c \in Component |-> IF c = s2 THEN {"services"}
                                 ELSE IF c = x THEN {"services", m1}
                                 ELSE {}]
MCReplaces == [c \in Component |-> IF c = s2 THEN s1 ELSE None]

MCUserCalls == [a \in Actor |->
  CASE a = main -> {"Publish", "Configure", "Connect", "Initialise", "Store", "Restore",
                    "Reconnect", "Exit", "Add"}
    [] a = panel -> {"Run", "Abort"}
    [] a = engine -> {"Stop"}]
MCClientCalls == {"Add", "AddConnected", "AddInit", "Run", "Exit", "Throw"}

MCSubscribed == {<<"Leave", "Standby">>, <<"Enter", "Standby">>,
                 <<"Enter", "Initialising">>}

\* What the proof of PhasesAreComplete assumes of the calls.
ASSUME CallsAssumption == OneAssembler

MCSymmetry == Permutations({e1, e2})
=============================================================================
