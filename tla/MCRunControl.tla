---------------------------- MODULE MCRunControl ----------------------------
(***************************************************************************)
(* Values of the constants of RunControl for TLC.                          *)
(***************************************************************************)
EXTENDS RunControl

CONSTANTS front, panel

\* The main program runs and aborts the simulation and adds events; a panel
\* (the REST front end, say) stops and aborts it.
TwoUsers == {front, panel}
Roles == [u \in TwoUsers |-> IF u = front THEN {"Run", "Abort", "Add"}
                                     ELSE {"Hold", "Abort"}]

=============================================================================
