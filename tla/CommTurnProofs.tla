---------------------------- MODULE CommTurnProofs ----------------------------
(***************************************************************************)
(* Proofs about CommTurn, for any servers of any sizes.                    *)
(***************************************************************************)
EXTENDS CommTurn, TLAPS

\* What a worker that has loaded the sum modulo its server's size holds.
RegisterInRange ==
    \A w \in Workers :
        pc[w] = "store_next" => register[w] < num_workers[Server(w)]

\* A worker that comm_server_init has not created does nothing.
CreatedInOrder ==
    \A w \in Workers : Index(w) >= created[Server(w)] => pc[w] = "none"

RangeInv == TypeOK /\ CreatedInOrder /\ RegisterInRange /\ TurnInRange

\* A free mutex has nobody inside.
FreeIsEmpty == mutex = 0 => \A w \in Workers : pc[w] \notin Inside

\* How far the worker inside has come with cur_worker_index.
IndexInStep ==
    \A w \in Workers :
        /\ pc[w] \in {"increment", "store_sum"} =>
                cur_worker_index = Index(w)
        /\ pc[w] = "store_sum" => register[w] = Index(w) + 1
        /\ pc[w] = "modulo" => cur_worker_index = Index(w) + 1
        /\ pc[w] = "store_next" =>
                register[w] = (Index(w) + 1) % num_workers[Server(w)]

QuietInv == TypeOK /\ CreatedInOrder /\ FreeIsEmpty /\ OneInside /\ IndexInStep

-----------------------------------------------------------------------------
\* What a worker's name says of it.
LEMMA WorkerFacts ==
    ASSUME NEW w \in Workers
    PROVE  /\ Server(w) \in Servers
           /\ Index(w) \in Nat
           /\ num_workers[Server(w)] \in Nat \ {0}
           /\ Index(w) < num_workers[Server(w)]
<1>1. PICK s \in Servers : w \in {s} \X (0..(num_workers[s] - 1))
  BY DEF Workers
<1>2. num_workers[s] \in Nat \ {0}
  BY ParametersAssumption
<1>3. w[1] = s /\ w[2] \in 0..(num_workers[s] - 1)
  BY <1>1
<1> QED
  BY <1>2, <1>3 DEF Server, Index

\* The worker created next is one of its server's workers.
LEMMA NextWorker ==
    ASSUME NEW s \in Servers, created[s] \in Nat, created[s] < num_workers[s]
    PROVE  <<s, created[s]>> \in Workers
<1>1. num_workers[s] \in Nat \ {0}
  BY ParametersAssumption
<1>2. created[s] \in 0..(num_workers[s] - 1)
  BY <1>1
<1> QED
  BY <1>2 DEF Workers

\* A remainder is below the divisor.
LEMMA RemainderBelow ==
    ASSUME NEW k \in Nat, NEW n \in Nat \ {0}
    PROVE  k % n \in Nat /\ k % n < n
OBVIOUS

-----------------------------------------------------------------------------
\* Types are kept.
LEMMA TypeStep == TypeOK /\ [Next]_vars => TypeOK'
<1> SUFFICES ASSUME TypeOK, [Next]_vars PROVE TypeOK'
  OBVIOUS
<1> USE DEF TypeOK, Inside, Waiting, serverVars, Goto
<1>1. ASSUME NEW s \in Servers, InitMutex(s) PROVE TypeOK'
  BY <1>1 DEF InitMutex
<1>2. ASSUME NEW s \in Servers, CreateWorker(s) PROVE TypeOK'
  <2>1. num_workers[s] \in Nat \ {0}
    BY ParametersAssumption
  <2>2. created' \in [Servers -> Nat]
        /\ \A t \in Servers : created'[t] <= num_workers[t]
    BY <1>2, <2>1 DEF CreateWorker
  <2>3. pc' \in [Workers -> Inside \cup Waiting
                            \cup {"none", "start", "idle", "exited"}]
    BY <1>2 DEF CreateWorker
  <2> QED
    BY <1>2, <2>2, <2>3 DEF CreateWorker
<1>3. ASSUME NEW w \in Workers, Start(w) \/ Exit(w) PROVE TypeOK'
  BY <1>3 DEF Start, Exit
<1>4. ASSUME NEW w \in Workers, Lock(w) PROVE TypeOK'
  BY <1>4 DEF Lock
<1>5. ASSUME NEW w \in Workers, Contend(w) PROVE TypeOK'
  BY <1>5 DEF Contend
<1>6. ASSUME NEW w \in Workers, Unlock(w) PROVE TypeOK'
  <2>1. CASE UnlockOnly(w)
    BY <2>1 DEF UnlockOnly
  <2>2. ASSUME NEW v \in Workers, UnlockAndWake(w, v) PROVE TypeOK'
    BY <2>2 DEF UnlockAndWake
  <2> QED
    BY <1>6, <2>1, <2>2 DEF Unlock
<1>7. ASSUME NEW w \in Workers, Compare(w) PROVE TypeOK'
  BY <1>7 DEF Compare
<1>8. ASSUME NEW w \in Workers, LoadIndex(w) PROVE TypeOK'
  BY <1>8 DEF LoadIndex
<1>9. ASSUME NEW w \in Workers, StoreSum(w) PROVE TypeOK'
  BY <1>9 DEF StoreSum
<1>10. ASSUME NEW w \in Workers, LoadSum(w) PROVE TypeOK'
  <2>1. cur_worker_index % num_workers[Server(w)] \in Nat
    BY WorkerFacts, RemainderBelow
  <2> QED
    BY <1>10, <2>1 DEF LoadSum
<1>11. ASSUME NEW w \in Workers, StoreNext(w) PROVE TypeOK'
  BY <1>11 DEF StoreNext
<1>12. CASE UNCHANGED vars
  BY <1>12 DEF vars
<1> QED
  BY <1>1, <1>2, <1>3, <1>4, <1>5, <1>6, <1>7, <1>8, <1>9, <1>10, <1>11,
     <1>12 DEF Next, WorkerStep

\* The types hold of every state.
THEOREM TypeCorrect == Spec => []TypeOK
<1>1. Init => TypeOK
  <2>1. \A s \in Servers : num_workers[s] \in Nat
    BY ParametersAssumption
  <2> QED
    BY <2>1 DEF Init, TypeOK
<1> QED
  BY <1>1, TypeStep, PTL DEF Spec

-----------------------------------------------------------------------------
\* Workers are created in the order of their indices.
LEMMA CreatedStep ==
    TypeOK /\ CreatedInOrder /\ [Next]_vars => CreatedInOrder'
<1> SUFFICES ASSUME TypeOK, CreatedInOrder, [Next]_vars PROVE CreatedInOrder'
  OBVIOUS
<1>1. ASSUME created' = created,
             \A w \in Workers : pc[w] = "none" => pc'[w] = "none"
      PROVE  CreatedInOrder'
  BY <1>1 DEF CreatedInOrder
<1> USE DEF serverVars, Goto, TypeOK
<1>2. ASSUME NEW s \in Servers, InitMutex(s) PROVE CreatedInOrder'
  BY <1>1, <1>2 DEF InitMutex
<1>3. ASSUME NEW s \in Servers, CreateWorker(s) PROVE CreatedInOrder'
  <2>1. <<s, created[s]>> \in Workers
    BY <1>3, NextWorker DEF CreateWorker
  <2> SUFFICES ASSUME NEW w \in Workers, Index(w) >= created'[Server(w)]
               PROVE  pc'[w] = "none"
    BY DEF CreatedInOrder
  <2>2. w # <<s, created[s]>>
    BY <1>3 DEF CreateWorker, Index, Server
  <2>3. Index(w) >= created[Server(w)]
    BY <1>3, WorkerFacts DEF CreateWorker
  <2> QED
    BY <1>3, <2>2, <2>3 DEF CreateWorker, CreatedInOrder
<1>4. ASSUME NEW w \in Workers, WorkerStep(w) \/ Exit(w)
      PROVE  CreatedInOrder'
  BY <1>1, <1>4 DEF WorkerStep, Start, Exit, Lock, Contend, Unlock, UnlockOnly,
     UnlockAndWake, Compare, LoadIndex, StoreSum, LoadSum, StoreNext
<1>5. CASE UNCHANGED vars
  BY <1>1, <1>5 DEF vars
<1> QED
  BY <1>2, <1>3, <1>4, <1>5 DEF Next

\* CreateWorker starts a worker that was not there.
LEMMA NewWorkerIdle ==
    ASSUME TypeOK, CreatedInOrder, NEW s \in Servers,
           created[s] < num_workers[s]
    PROVE  <<s, created[s]>> \in Workers /\ pc[<<s, created[s]>>] = "none"
<1>1. created[s] \in Nat /\ <<s, created[s]>> \in Workers
  BY NextWorker DEF TypeOK
<1> QED
  BY <1>1 DEF CreatedInOrder, Index, Server

-----------------------------------------------------------------------------
\* Only StoreNext leaves the two assignments, with an index in range.
LEMMA RangeStep == RangeInv /\ [Next]_vars => RangeInv'
<1> SUFFICES ASSUME RangeInv, [Next]_vars PROVE RangeInv'
  OBVIOUS
<1>0. TypeOK' /\ TypeOK /\ CreatedInOrder' /\ CreatedInOrder
  BY TypeStep, CreatedStep DEF RangeInv
<1>1. ASSUME UNCHANGED <<cur_worker_index, register>>,
             \A w \in Workers : pc[w] = "store_next" \/ pc'[w] # "store_next",
             \A w \in Workers : pc[w] \in Wrapping => pc'[w] \in Wrapping
      PROVE  RangeInv'
  BY <1>0, <1>1 DEF RangeInv, RegisterInRange, TurnInRange
<1> USE DEF serverVars, Goto, Wrapping
<1>2. ASSUME NEW s \in Servers, InitMutex(s) PROVE RangeInv'
  BY <1>1, <1>2 DEF InitMutex
<1>3. ASSUME NEW s \in Servers, CreateWorker(s) PROVE RangeInv'
  BY <1>0, <1>1, <1>3, NewWorkerIdle DEF CreateWorker, TypeOK
<1>4. ASSUME NEW w \in Workers, Start(w) \/ Exit(w) PROVE RangeInv'
  BY <1>0, <1>1, <1>4 DEF Start, Exit, TypeOK
<1>5. ASSUME NEW w \in Workers, Lock(w) \/ Contend(w) PROVE RangeInv'
  BY <1>0, <1>1, <1>5 DEF Lock, Contend, TypeOK
<1>6. ASSUME NEW w \in Workers, Unlock(w) PROVE RangeInv'
  BY <1>0, <1>1, <1>6 DEF Unlock, UnlockOnly, UnlockAndWake, TypeOK
<1>7. ASSUME NEW w \in Workers, Compare(w) PROVE RangeInv'
  BY <1>0, <1>1, <1>7 DEF Compare, TypeOK
<1>8. ASSUME NEW w \in Workers, LoadIndex(w) PROVE RangeInv'
  BY <1>0, <1>8 DEF LoadIndex, TypeOK, RangeInv, RegisterInRange, TurnInRange
<1>9. ASSUME NEW w \in Workers, StoreSum(w) PROVE RangeInv'
  BY <1>0, <1>9 DEF StoreSum, TypeOK, RangeInv, RegisterInRange, TurnInRange
<1>10. ASSUME NEW w \in Workers, LoadSum(w) PROVE RangeInv'
  <2>1. cur_worker_index % num_workers[Server(w)] < num_workers[Server(w)]
    BY <1>0, WorkerFacts, RemainderBelow DEF TypeOK
  <2> QED
    BY <1>0, <1>10, <2>1
       DEF LoadSum, TypeOK, RangeInv, RegisterInRange, TurnInRange
<1>11. ASSUME NEW w \in Workers, StoreNext(w) PROVE RangeInv'
  <2>1. cur_worker_index' < num_workers[Server(w)] /\ Server(w) \in Servers
    BY <1>11, WorkerFacts DEF StoreNext, RangeInv, RegisterInRange
  <2>2. RegisterInRange'
    BY <1>0, <1>11 DEF StoreNext, RangeInv, RegisterInRange, TypeOK
  <2> QED
    BY <1>0, <2>1, <2>2 DEF RangeInv, TurnInRange
<1>12. CASE UNCHANGED vars
  BY <1>1, <1>12 DEF vars
<1> QED
  BY <1>2, <1>3, <1>4, <1>5, <1>6, <1>7, <1>8, <1>9, <1>10, <1>11, <1>12
     DEF Next, WorkerStep

\* Whatever servers are started, and whenever, the turn stays at an index that
\* some server has.  QuietStart is not assumed.
THEOREM RangeCorrect == Spec => []TurnInRange
<1>1. Init => RangeInv
  <2>1. \A s \in Servers : num_workers[s] \in Nat
    BY ParametersAssumption
  <2> QED
    BY <2>1
       DEF Init, RangeInv, TypeOK, CreatedInOrder, RegisterInRange, TurnInRange
<1>2. RangeInv => TurnInRange
  BY DEF RangeInv
<1> QED
  BY <1>1, <1>2, RangeStep, PTL DEF Spec

-----------------------------------------------------------------------------
\* With quiet starts the mutex excludes, and the index follows the worker.
LEMMA QuietStep == QuietStart /\ QuietInv /\ [Next]_vars => QuietInv'
<1> SUFFICES ASSUME QuietStart, QuietInv, [Next]_vars PROVE QuietInv'
  OBVIOUS
<1>0. TypeOK' /\ TypeOK /\ CreatedInOrder' /\ CreatedInOrder
  BY TypeStep, CreatedStep DEF QuietInv
<1> USE DEF Inside, Waiting, serverVars, Goto
<1>1. ASSUME NEW s \in Servers, InitMutex(s) PROVE QuietInv'
  BY <1>0, <1>1
     DEF InitMutex, Quiet, QuietInv, FreeIsEmpty, OneInside, IndexInStep
<1>2. ASSUME NEW s \in Servers, CreateWorker(s) PROVE QuietInv'
  BY <1>0, <1>2, NewWorkerIdle DEF CreateWorker, TypeOK, QuietInv, FreeIsEmpty,
     OneInside, IndexInStep
<1>3. ASSUME NEW w \in Workers, Start(w) \/ Exit(w) PROVE QuietInv'
  BY <1>0, <1>3 DEF Start, Exit, TypeOK, QuietInv, FreeIsEmpty, OneInside,
     IndexInStep
<1>4. ASSUME NEW w \in Workers, Lock(w) \/ Contend(w) PROVE QuietInv'
  BY <1>0, <1>4 DEF Lock, Contend, TypeOK, QuietInv, FreeIsEmpty, OneInside,
     IndexInStep
<1>5. ASSUME NEW w \in Workers, Unlock(w) PROVE QuietInv'
  <2>1. \A v \in Workers : pc'[v] \notin Inside
    BY <1>0, <1>5 DEF Unlock, UnlockOnly, UnlockAndWake, TypeOK, QuietInv,
       OneInside
  <2> QED
    BY <1>0, <2>1 DEF QuietInv, FreeIsEmpty, OneInside, IndexInStep
<1>6. ASSUME NEW w \in Workers, pc[w] \in Inside, pc'[w] \in Inside,
             mutex' = mutex,
             \A v \in Workers : v # w => pc'[v] = pc[v],
             pc'[w] \in {"increment", "store_sum"} =>
                cur_worker_index' = Index(w),
             pc'[w] = "store_sum" => register'[w] = Index(w) + 1,
             pc'[w] = "modulo" => cur_worker_index' = Index(w) + 1,
             pc'[w] = "store_next" =>
                register'[w] = (Index(w) + 1) % num_workers[Server(w)]
      PROVE  QuietInv'
  BY <1>0, <1>6 DEF QuietInv, FreeIsEmpty, OneInside, IndexInStep
<1>7. ASSUME NEW w \in Workers, Compare(w) PROVE QuietInv'
  BY <1>0, <1>6, <1>7 DEF Compare, TypeOK
<1>8. ASSUME NEW w \in Workers, LoadIndex(w) PROVE QuietInv'
  BY <1>0, <1>6, <1>8 DEF LoadIndex, TypeOK, QuietInv, IndexInStep
<1>9. ASSUME NEW w \in Workers, StoreSum(w) PROVE QuietInv'
  BY <1>0, <1>6, <1>9 DEF StoreSum, TypeOK, QuietInv, IndexInStep
<1>10. ASSUME NEW w \in Workers, LoadSum(w) PROVE QuietInv'
  BY <1>0, <1>6, <1>10 DEF LoadSum, TypeOK, QuietInv, IndexInStep
<1>11. ASSUME NEW w \in Workers, StoreNext(w) PROVE QuietInv'
  BY <1>0, <1>6, <1>11 DEF StoreNext, TypeOK, QuietInv, IndexInStep
<1>12. CASE UNCHANGED vars
  BY <1>0, <1>12 DEF vars, QuietInv, FreeIsEmpty, OneInside, IndexInStep
<1> QED
  BY <1>1, <1>2, <1>3, <1>4, <1>5, <1>7, <1>8, <1>9, <1>10, <1>11, <1>12
     DEF Next, WorkerStep

LEMMA QuietInit == Init => QuietInv
<1>1. \A s \in Servers : num_workers[s] \in Nat
  BY ParametersAssumption
<1> QED
  BY <1>1 DEF Init, QuietInv, TypeOK, CreatedInOrder, FreeIsEmpty, OneInside,
     IndexInStep, Inside

\* If servers are started while no worker is in comm_get_worker_index, one
\* worker at a time is in it.
THEOREM ExclusionCorrect == QuietStart /\ Spec => []OneInside
<1> SUFFICES ASSUME QuietStart PROVE Spec => []OneInside
  OBVIOUS
<1>1. QuietInv /\ [Next]_vars => QuietInv'
  BY QuietStep
<1>2. QuietInv => OneInside
  BY DEF QuietInv
<1> QED
  BY <1>1, <1>2, QuietInit, PTL DEF Spec

-----------------------------------------------------------------------------
\* The turn of the promise while a worker is between the assignments.
LEMMA TurnOfWrapping ==
    ASSUME OneInside, NEW w \in Workers, pc[w] \in Wrapping
    PROVE  turnBar = Index(w)
BY DEF OneInside, turnBar, Inside, Wrapping

LEMMA TurnOtherwise ==
    ASSUME \A w \in Workers : pc[w] \notin Wrapping
    PROVE  turnBar = cur_worker_index
BY DEF turnBar

\* StoreNext is Take; every other step leaves the promise's turn alone.
LEMMA RotationStep ==
    QuietInv /\ QuietInv' /\ [Next]_vars => [Promise!Next]_turnBar
<1> SUFFICES ASSUME QuietInv, QuietInv', [Next]_vars
             PROVE  [Promise!Next]_turnBar
  OBVIOUS
<1>0. TypeOK /\ OneInside /\ OneInside' /\ IndexInStep /\ CreatedInOrder
  BY DEF QuietInv
<1> USE DEF serverVars, Goto, Wrapping
<1>1. ASSUME cur_worker_index' = cur_worker_index,
             \A w \in Workers : pc[w] \in Wrapping <=> pc'[w] \in Wrapping
      PROVE  turnBar' = turnBar
  <2>1. CASE \A w \in Workers : pc[w] \notin Wrapping
    BY <1>1, <2>1 DEF turnBar
  <2>2. ASSUME NEW w \in Workers, pc[w] \in Wrapping
        PROVE  turnBar' = turnBar
    <3>1. turnBar = Index(w)
      BY <1>0, <2>2, TurnOfWrapping
    <3>2. \A v \in Workers : pc'[v] \in Wrapping => v = w
      BY <1>0, <1>1, <2>2 DEF OneInside, Inside
    <3>3. pc'[w] \in Wrapping
      BY <1>1, <2>2
    <3>4. turnBar' = Index(w)
      BY <3>2, <3>3 DEF turnBar
    <3> QED
      BY <3>1, <3>4
  <2> QED
    BY <2>1, <2>2
<1>2. ASSUME NEW s \in Servers, InitMutex(s) PROVE turnBar' = turnBar
  BY <1>1, <1>2 DEF InitMutex
<1>3. ASSUME NEW s \in Servers, CreateWorker(s) PROVE turnBar' = turnBar
  BY <1>0, <1>1, <1>3, NewWorkerIdle DEF CreateWorker, TypeOK
<1>4. ASSUME NEW w \in Workers, Start(w) \/ Exit(w)
      PROVE  turnBar' = turnBar
  BY <1>0, <1>1, <1>4 DEF Start, Exit, TypeOK
<1>5. ASSUME NEW w \in Workers, Lock(w) \/ Contend(w)
      PROVE  turnBar' = turnBar
  BY <1>0, <1>1, <1>5 DEF Lock, Contend, TypeOK
<1>6. ASSUME NEW w \in Workers, Unlock(w) PROVE turnBar' = turnBar
  BY <1>0, <1>1, <1>6 DEF Unlock, UnlockOnly, UnlockAndWake, TypeOK
<1>7. ASSUME NEW w \in Workers, Compare(w) \/ LoadIndex(w) \/ LoadSum(w)
      PROVE  turnBar' = turnBar
  BY <1>0, <1>1, <1>7 DEF Compare, LoadIndex, LoadSum, TypeOK
<1>8. ASSUME NEW w \in Workers, StoreSum(w) PROVE turnBar' = turnBar
  <2>1. pc[w] = "store_sum" /\ pc' = [pc EXCEPT ![w] = "modulo"]
        /\ cur_worker_index = Index(w)
    BY <1>0, <1>8 DEF StoreSum, IndexInStep
  <2>2. \A v \in Workers : pc[v] \notin Wrapping
    BY <1>0, <2>1 DEF OneInside, Inside
  <2>3. \A v \in Workers : pc'[v] \in Wrapping <=> v = w
    BY <1>0, <2>1, <2>2 DEF TypeOK
  <2>4. turnBar' = Index(w)
    BY <2>3 DEF turnBar
  <2> QED
    BY <2>1, <2>2, <2>4, TurnOtherwise
<1>9. ASSUME NEW w \in Workers, StoreNext(w) PROVE Promise!Next
  <2>1. pc[w] = "store_next" /\ pc' = [pc EXCEPT ![w] = "unlock"]
        /\ cur_worker_index' = (Index(w) + 1) % num_workers[Server(w)]
    BY <1>0, <1>9 DEF StoreNext, IndexInStep
  <2>2. turnBar = Index(w)
    BY <1>0, <2>1, TurnOfWrapping
  <2>3. \A v \in Workers : pc'[v] \notin Wrapping
    BY <1>0, <2>1 DEF OneInside, Inside, TypeOK
  <2>4. turnBar' = cur_worker_index'
    BY <2>3 DEF turnBar
  <2>5. Server(w) \in Servers /\ Index(w) < num_workers[Server(w)]
    BY WorkerFacts
  <2> QED
    BY <2>1, <2>2, <2>4, <2>5 DEF Promise!Next, Promise!Take
<1>10. CASE UNCHANGED vars
  BY <1>1, <1>10 DEF vars
<1> QED
  BY <1>2, <1>3, <1>4, <1>5, <1>6, <1>7, <1>8, <1>9, <1>10
     DEF Next, WorkerStep

\* With quiet starts comm_get_worker_index rotates one turn, for any servers.
THEOREM RotationCorrect == QuietStart /\ Spec => ImplementsRotation
<1> SUFFICES ASSUME QuietStart PROVE Spec => ImplementsRotation
  OBVIOUS
<1>1. Init => Promise!Init
  BY DEF Init, turnBar, Promise!Init, Wrapping
<1>2. QuietInv /\ [Next]_vars => QuietInv'
  BY QuietStep
<1> QED
  BY <1>1, <1>2, QuietInit, RotationStep, PTL
     DEF Spec, ImplementsRotation, Promise!Spec
=============================================================================
