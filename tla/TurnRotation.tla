----------------------------- MODULE TurnRotation -----------------------------
(***************************************************************************)
(* What comm_get_worker_index promises the workers: there is one turn, it  *)
(* starts at index 0, and only a worker with that index passes it on, to   *)
(* the next index of its own server, in one step.                          *)
(***************************************************************************)
EXTENDS Integers

CONSTANTS Servers, num_workers

VARIABLE turn

Init == turn = 0

\* A worker of server s that has the turn takes it.
Take(s) ==
    /\ turn < num_workers[s]
    /\ turn' = (turn + 1) % num_workers[s]

Next == \E s \in Servers : Take(s)

Spec == Init /\ [][Next]_turn
=============================================================================
