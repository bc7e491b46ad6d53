---------------------------- MODULE MCCommServer ----------------------------
(* Instances of CommServer for TLC.                                         *)
EXTENDS CommServer, TLC

\* Clients are interchangeable: sound for the safety properties.  Workers
\* and descriptors are numbered and ordered by the code.
ClientSymmetry == Permutations(Clients)
=============================================================================
