------------------------------ MODULE MCBarrier ------------------------------
(***************************************************************************)
(* Values of the constants of Barrier for TLC.                             *)
(***************************************************************************)
EXTENDS Barrier

CONSTANTS t1, t2, t3

ThreeThreads == {t1, t2, t3}
=============================================================================
