----------------------------- MODULE MCCommSetup -----------------------------
(* Instances of CommSetup for TLC.                                          *)
EXTENDS CommSetup
=============================================================================
