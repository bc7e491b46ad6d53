--------------------------- MODULE MCCommWorkQueue ---------------------------
(* An instance of CommWorkQueue for TLC; its names are model values.        *)
EXTENDS CommWorkQueue
=============================================================================
