---------------------------- MODULE MCCommStream ----------------------------
(* Instances of CommStream for TLC.                                         *)
EXTENDS CommStream
=============================================================================
