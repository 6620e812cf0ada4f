------------------------------ MODULE MCSimSync ------------------------------
(***************************************************************************)
(* SimSync for TLC. The fields of the slave agree with those of the master *)
(* in one direction; in the other one they do after the first field only,  *)
(* and the slave expects more than it is sent.                             *)
(***************************************************************************)
EXTENDS SimSync

FieldsOut == [master |-> <<2, 1>>, slave |-> <<1, 2>>]
FieldsIn  == [master |-> <<1, 2>>, slave |-> <<2, 3>>]

=============================================================================
