------------------------------ MODULE MCCommTurn ------------------------------
(* An instance of CommTurn for TLC: a server is named by the number of its *)
(* workers.                                                                *)
EXTENDS CommTurn

CONSTANTS s1, s3

UnequalServers == [s \in {s1, s3} |-> IF s = s1 THEN 1 ELSE 3]
=============================================================================
