----------------------------- MODULE MCLogOutput -----------------------------
(* An instance of LogOutput for TLC, with the components that are treated   *)
(* apart.                                                                   *)
EXTENDS LogOutput, TLC

CONSTANTS t1, t2

Components3 == <<"LOG", "LOG_EMERG", "STDOUT">>
Symmetry == Permutations(Threads)
=============================================================================
