------------------------------- MODULE CommTurn -------------------------------
(***************************************************************************)
(* comm_server.c: cur_worker_index, whose turn it is to get a socket, and  *)
(* global_cur_worker_lock, which guards it.  Both are global: all servers  *)
(* of a process share them, although each server counts its own workers,   *)
(* and each comm_server_init initialises the mutex again.                  *)
(*                                                                         *)
(* One action per access to cur_worker_index, as the build (no             *)
(* optimisation) makes them.  The mutex is modelled from how the C library *)
(* implements it: 0 is free, 1 locked, 2 locked with threads that may      *)
(* sleep; an unlock wakes a sleeper only if the value was 2.               *)
(***************************************************************************)
EXTENDS Integers

CONSTANTS Servers,      \* the servers the process starts
          num_workers,  \* each server's comm_serv_info_t.num_workers
          QuietStart,   \* is comm_server_init called only while no worker
                        \* of another server holds or waits for the mutex?
          Failing,      \* may a worker fail to start, and exit?
          MaxIndex      \* bound: the largest index that is incremented

ASSUME ParametersAssumption ==
    /\ num_workers \in [Servers -> Nat \ {0}]
    /\ QuietStart \in BOOLEAN
    /\ Failing \in BOOLEAN
    /\ MaxIndex \in Nat

\* A worker is named by its server and its worker_index.
Workers == UNION {{s} \X (0..(num_workers[s] - 1)) : s \in Servers}
Server(w) == w[1]
Index(w) == w[2]

VARIABLES
    cur_worker_index,
    mutex,     \* global_cur_worker_lock
    started,   \* the servers whose comm_server_init has begun
    created,   \* how many workers each has created
    pc,        \* where each worker is
    register   \* what it loaded to compute the next index from

vars == <<cur_worker_index, mutex, started, created, pc, register>>
serverVars == <<started, created>>

Waiting == {"contend", "asleep"}
Inside == {"compare", "increment", "store_sum", "modulo", "store_next",
           "unlock"}
\* The index is one too high, or is being brought into range.
Wrapping == {"modulo", "store_next"}

Init ==
    /\ cur_worker_index = 0
    /\ mutex = 0
    /\ started = {}
    /\ created = [s \in Servers |-> 0]
    /\ pc = [w \in Workers |-> "none"]
    /\ register = [w \in Workers |-> 0]

Goto(w, label) == pc' = [pc EXCEPT ![w] = label]

-----------------------------------------------------------------------------
(* comm_server_init                                                        *)

Quiet == \A w \in Workers : pc[w] \notin Inside \cup Waiting

\* pthread_mutex_init: the value is cleared, whoever holds the mutex; the
\* threads that sleep on it sleep on.
InitMutex(s) ==
    /\ s \notin started
    /\ QuietStart => Quiet
    /\ started' = started \cup {s}
    /\ mutex' = 0
    /\ UNCHANGED <<cur_worker_index, created, pc, register>>

\* Mutant of CreateWorker: the loop runs once too often.
CreateOneTooMany(s) ==
    /\ s \in started
    /\ created[s] <= num_workers[s]
    /\ Goto(<<s, created[s]>>, "start")
    /\ created' = [created EXCEPT ![s] = @ + 1]
    /\ UNCHANGED <<cur_worker_index, mutex, started, register>>

CreateWorker(s) ==
    /\ s \in started
    /\ created[s] < num_workers[s]
    /\ Goto(<<s, created[s]>>, "start")
    /\ created' = [created EXCEPT ![s] = @ + 1]
    /\ UNCHANGED <<cur_worker_index, mutex, started, register>>

-----------------------------------------------------------------------------
(* comm_worker_run, from its start to comm_get_worker_index                *)

\* epoll_create1 and calloc succeed.
Start(w) ==
    /\ pc[w] = "start"
    /\ Goto(w, "idle")
    /\ UNCHANGED <<cur_worker_index, mutex, serverVars, register>>

\* One of them fails, and the worker returns.
Exit(w) ==
    /\ Failing
    /\ pc[w] = "start"
    /\ Goto(w, "exited")
    /\ UNCHANGED <<cur_worker_index, mutex, serverVars, register>>

-----------------------------------------------------------------------------
(* The mutex                                                               *)

\* Mutant of Lock: the call to pthread_mutex_lock is missing.
LockMissing(w) ==
    /\ pc[w] = "idle"
    /\ Goto(w, "compare")
    /\ UNCHANGED <<cur_worker_index, mutex, serverVars, register>>

\* pthread_mutex_lock: the first attempt.
Lock(w) ==
    /\ pc[w] = "idle"
    /\ mutex' = IF mutex = 0 THEN 1 ELSE mutex
    /\ Goto(w, IF mutex = 0 THEN "compare" ELSE "contend")
    /\ UNCHANGED <<cur_worker_index, serverVars, register>>

\* The next attempts put 2 for what they find, and sleep unless it was 0.
Contend(w) ==
    /\ pc[w] = "contend"
    /\ mutex' = 2
    /\ Goto(w, IF mutex = 0 THEN "compare" ELSE "asleep")
    /\ UNCHANGED <<cur_worker_index, serverVars, register>>

\* pthread_mutex_unlock, when worker v is to be woken.
UnlockAndWake(w, v) ==
    /\ pc[w] = "unlock"
    /\ mutex = 2
    /\ pc[v] = "asleep"
    /\ mutex' = 0
    /\ pc' = [pc EXCEPT ![w] = "idle", ![v] = "contend"]
    /\ UNCHANGED <<cur_worker_index, serverVars, register>>

\* pthread_mutex_unlock, when nobody is.
UnlockOnly(w) ==
    /\ pc[w] = "unlock"
    /\ mutex # 2 \/ \A v \in Workers : pc[v] # "asleep"
    /\ mutex' = 0
    /\ Goto(w, "idle")
    /\ UNCHANGED <<cur_worker_index, serverVars, register>>

Unlock(w) == UnlockOnly(w) \/ \E v \in Workers : UnlockAndWake(w, v)

-----------------------------------------------------------------------------
(* comm_get_worker_index, inside                                           *)

\* Mutant of Compare: any worker that asks takes the turn.
CompareIgnoresIndex(w) ==
    /\ pc[w] = "compare"
    /\ Goto(w, "increment")
    /\ UNCHANGED <<cur_worker_index, mutex, serverVars, register>>

\* Mutant of Compare: the early return forgets to unlock.
CompareReturnsLocked(w) ==
    /\ pc[w] = "compare"
    /\ Goto(w, IF Index(w) = cur_worker_index THEN "increment" ELSE "idle")
    /\ UNCHANGED <<cur_worker_index, mutex, serverVars, register>>

\* Is it this worker's turn?
Compare(w) ==
    /\ pc[w] = "compare"
    /\ Goto(w, IF Index(w) = cur_worker_index THEN "increment" ELSE "unlock")
    /\ UNCHANGED <<cur_worker_index, mutex, serverVars, register>>

\* cur_worker_index = cur_worker_index + 1, the load and the store.
LoadIndex(w) ==
    /\ pc[w] = "increment"
    /\ cur_worker_index <= MaxIndex
    /\ register' = [register EXCEPT ![w] = cur_worker_index + 1]
    /\ Goto(w, "store_sum")
    /\ UNCHANGED <<cur_worker_index, mutex, serverVars>>

StoreSum(w) ==
    /\ pc[w] = "store_sum"
    /\ cur_worker_index' = register[w]
    /\ Goto(w, "modulo")
    /\ UNCHANGED <<mutex, serverVars, register>>

\* Mutant of LoadSum: the sum is taken modulo one more than the workers.
LoadSumWrapsLate(w) ==
    /\ pc[w] = "modulo"
    /\ register' = [register EXCEPT ![w] =
                        cur_worker_index % (num_workers[Server(w)] + 1)]
    /\ Goto(w, "store_next")
    /\ UNCHANGED <<cur_worker_index, mutex, serverVars>>

\* cur_worker_index = cur_worker_index % num_workers, the load and the store.
LoadSum(w) ==
    /\ pc[w] = "modulo"
    /\ register' = [register EXCEPT ![w] =
                        cur_worker_index % num_workers[Server(w)]]
    /\ Goto(w, "store_next")
    /\ UNCHANGED <<cur_worker_index, mutex, serverVars>>

StoreNext(w) ==
    /\ pc[w] = "store_next"
    /\ cur_worker_index' = register[w]
    /\ Goto(w, "unlock")
    /\ UNCHANGED <<mutex, serverVars, register>>

-----------------------------------------------------------------------------
WorkerStep(w) ==
    \/ Start(w) \/ Lock(w) \/ Contend(w) \/ Unlock(w)
    \/ Compare(w) \/ LoadIndex(w) \/ StoreSum(w) \/ LoadSum(w) \/ StoreNext(w)

Next ==
    \/ \E s \in Servers : InitMutex(s) \/ CreateWorker(s)
    \/ \E w \in Workers : WorkerStep(w) \/ Exit(w)

Spec == Init /\ [][Next]_vars

\* Whether a server is started is the application's choice.  Then threads are
\* scheduled: comm_server_init goes on, and so does each worker, which asks
\* again after every poll (epoll_wait has a time limit).  Nobody is
\* kept from the mutex for ever: it is held for a few instructions, between
\* which each worker polls, and sleepers are woken in order.
Acquire(w) == mutex = 0 /\ (Lock(w) \/ Contend(w))
Awoken(v) == \E w \in Workers : UnlockAndWake(w, v)

Fairness ==
    /\ \A s \in Servers : WF_vars(CreateWorker(s))
    /\ \A w \in Workers :
        WF_vars(WorkerStep(w)) /\ SF_vars(Acquire(w)) /\ SF_vars(Awoken(w))

FairSpec == Spec /\ Fairness

-----------------------------------------------------------------------------
(* Properties                                                              *)

TypeOK ==
    /\ cur_worker_index \in Nat
    /\ mutex \in 0..2
    /\ started \subseteq Servers
    /\ created \in [Servers -> Nat]
    /\ \A s \in Servers : created[s] <= num_workers[s]
    /\ pc \in [Workers -> Inside \cup Waiting
                          \cup {"none", "start", "idle", "exited"}]
    /\ register \in [Workers -> Nat]

\* The turn is at an index that some server has, except while a worker is
\* between the two assignments of comm_get_worker_index.  It holds for any
\* servers, of any sizes, and even when a later comm_server_init takes the
\* mutex from a worker's hands: no lost update leaves an index that nobody
\* has, with which every worker of the process would wait for ever.
TurnInRange ==
    \/ \E w \in Workers : pc[w] \in Wrapping
    \/ cur_worker_index = 0
    \/ \E s \in Servers : cur_worker_index < num_workers[s]

\* comm_get_worker_index runs in one worker at a time, provided that servers
\* are started while no worker is in it.
OneInside ==
    \A v, w \in Workers : pc[v] \in Inside /\ pc[w] \in Inside => v = w

\* The turn as the promise sees it: it moves when the new index is stored.
turnBar ==
    IF \E w \in Workers : pc[w] \in Wrapping
    THEN Index(CHOOSE w \in Workers : pc[w] \in Wrapping)
    ELSE cur_worker_index

Promise == INSTANCE TurnRotation WITH turn <- turnBar

\* comm_get_worker_index makes the turn rotate as TurnRotation says: it moves
\* by one, modulo the size of the server whose worker had it, and never twice
\* for one worker's call.
ImplementsRotation == Promise!Spec

TakesTurn(w) == pc[w] = "store_next" /\ pc'[w] = "unlock"

\* Each index of a started server has a worker that runs, of any server.
EveryIndexRuns ==
    /\ started # {}
    /\ \A s \in started : \A i \in 0..(num_workers[s] - 1) :
        \E w \in Workers : Index(w) = i /\ pc[w] \notin {"none", "exited"}

\* The turn is taken again and again, if from some time on each index has a
\* worker that runs, for any number of servers that share the turn.  Since it
\* rotates, with one server every worker gets it again and again.
TurnKeepsMoving ==
    <>[]EveryIndexRuns => []<><<\E w \in Workers : TakesTurn(w)>>_vars

\* A worker that failed to start, or was never created, leaves its index
\* behind in the rotation.  The turn stops there and nowhere else: it moves
\* for ever, or comes to an index that no running worker of any server has;
\* one that does takes it on, even the worker of another server.
TurnStopsWhereNobodyRuns ==
    \/ []<><<\E w \in Workers : TakesTurn(w)>>_vars
    \/ <>[](\A w \in Workers : Index(w) = cur_worker_index =>
                pc[w] \in {"none", "exited"})
=============================================================================
