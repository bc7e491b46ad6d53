------------------------- MODULE CommWorkQueueProofs -------------------------
(***************************************************************************)
(* Proofs about CommWorkQueue: IInv is an inductive invariant, so the      *)
(* linked lists of comm_work_queue.c hold the queue, and every entry has   *)
(* one owner, for any number of threads, entries and sockets; and the      *)
(* refinement of FifoQueue.                                                *)
(*                                                                         *)
(* The three steps that change the queue's content or move it between the  *)
(* lists (CasIn, Pop, Move) have lemmas of their own.                      *)
(***************************************************************************)
EXTENDS CommWorkQueue, SequenceTheorems, TLAPS

\* Initially the queue is empty and no entry is allocated.
LEMMA InitIInv == Init => IInv
<1> SUFFICES ASSUME Init PROVE IInv
  OBVIOUS
<1> USE NULLAssumption
<1>1. fifo = << >> /\ Len(fifo) = 0 /\ fifo \in Seq(Entries)
  BY EmptySeq DEF Init
<1>2. TypeOK
  BY <1>1 DEF Init, TypeOK, Pointer, InsertPcs, GetPcs
<1>3. ListsRepresentQueue
  BY <1>1 DEF Init, ListsRepresentQueue, OutRep, InRep, MoveRep
<1>4. EntryHasOneOwner
  BY <1>1 DEF Init, EntryHasOneOwner, Inserting, Taken, Queued
<1>5. ThreadsInStep
  BY NULLAssumption DEF Init, ThreadsInStep, Locked
<1> QED BY <1>2, <1>3, <1>4, <1>5 DEF IInv

\* A compare-and-swap of queue_in that inserts, or fails.
LEMMA CasInStep ==
    ASSUME IInv, NEW p \in Inserters, CasIn(p)
    PROVE  IInv'
<1> USE NULLAssumption
<1>1. CASE queue_in # in_queue[p]
  <2>1. /\ UNCHANGED <<root, next, socket_fd, allocated, entry, in_queue,
                       getterVars, history>>
        /\ insert_pc' = [insert_pc EXCEPT ![p] = "read"]
        /\ insert_pc[p] = "cas"
    BY <1>1 DEF CasIn, root, getterVars, history
  <2>2. TypeOK'
    BY <2>1 DEF IInv, TypeOK, InsertPcs, root, getterVars, history
  <2>3. ListsRepresentQueue'
    BY <2>1 DEF IInv, ListsRepresentQueue, OutRep, InRep, MoveRep, root,
                getterVars, history
  <2>4. EntryHasOneOwner'
    <3>1. \A q \in Inserters : \A x : Inserting(q, x)' <=> Inserting(q, x)
      BY <2>1 DEF IInv, TypeOK, Inserting
    <3>2. \A g \in Getters : \A x : Taken(g, x)' <=> Taken(g, x)
      BY <2>1 DEF Taken, getterVars
    <3>3. \A x : Queued(x)' <=> Queued(x)
      BY <2>1 DEF Queued, history
    <3> QED BY <2>1, <3>1, <3>2, <3>3 DEF IInv, EntryHasOneOwner
  <2>5. ThreadsInStep'
    BY <2>1 DEF IInv, TypeOK, ThreadsInStep, root, getterVars, history
  <2> QED BY <2>2, <2>3, <2>4, <2>5 DEF IInv
<1>2. CASE queue_in = in_queue[p]
  <2> DEFINE e == entry[p]
  <2>1. /\ UNCHANGED <<queue_out, lock, next, socket_fd, allocated, in_queue,
                       getterVars, moving, ready>>
        /\ insert_pc' = [insert_pc EXCEPT ![p] = "idle"]
        /\ entry' = [entry EXCEPT ![p] = NULL]
        /\ queue_in' = e
        /\ fifo' = Append(fifo, e)
        /\ insert_pc[p] = "cas"
    BY <1>2 DEF CasIn
  <2>2. e \in Entries /\ next[e] = queue_in
    BY <1>2, <2>1 DEF IInv, TypeOK, Pointer, ThreadsInStep
  <2>3. fifo \in Seq(Entries) /\ Len(fifo) \in Nat
    BY LenProperties DEF IInv, TypeOK
  <2>4. /\ fifo' \in Seq(Entries)
        /\ Len(fifo') = Len(fifo) + 1
        /\ \A i \in 1..Len(fifo) : fifo'[i] = fifo[i]
        /\ fifo'[Len(fifo) + 1] = e
    BY <2>1, <2>2, <2>3, AppendProperties
  <2> HIDE DEF e
  <2>5. TypeOK'
    BY <2>1, <2>2, <2>4 DEF IInv, TypeOK, InsertPcs, Pointer, getterVars
  <2>6. Inserting(p, e) /\ ~ Queued(e)
    BY <2>1, <2>2 DEF IInv, EntryHasOneOwner, Inserting, e
  <2>7. ListsRepresentQueue'
    <3>1. /\ moving \in Nat /\ ready \in Nat /\ moving + ready <= Len(fifo)
          /\ \A i \in 1..Len(fifo) : fifo[i] # e /\ fifo[i] # NULL
      BY <2>3, <2>6, ElementOfSeq DEF IInv, TypeOK, ListsRepresentQueue, Queued
    <3>2. (moving + ready <= Len(fifo)
             /\ \A i, j \in 1..Len(fifo) : fifo[i] = fifo[j] => i = j)'
      BY <2>1, <2>3, <2>4, <3>1 DEF IInv, ListsRepresentQueue
    <3>3. OutRep'
      BY <2>1, <2>3, <2>4, <3>1 DEF IInv, ListsRepresentQueue, OutRep
    <3>4. InRep'
      BY <2>1, <2>2, <2>3, <2>4, <3>1 DEF IInv, ListsRepresentQueue, InRep
    <3>5. MoveRep'
      BY <2>1, <2>3, <2>4, <3>1 
         DEF IInv, ListsRepresentQueue, MoveRep, getterVars
    <3> QED BY <3>2, <3>3, <3>4, <3>5 DEF ListsRepresentQueue
  <2>8. EntryHasOneOwner'
    <3>1. \A x : Queued(x)' <=> Queued(x) \/ x = e
      BY <2>3, <2>4 DEF Queued
    <3>2. \A q \in Inserters, x \in Entries :
             Inserting(q, x)' <=> Inserting(q, x) /\ q # p
      BY <2>1, <2>2 DEF IInv, TypeOK, Inserting
    <3>3. \A g \in Getters : \A x : Taken(g, x)' <=> Taken(g, x)
      BY <2>1 DEF Taken, getterVars
    <3>4. \A x \in Entries : Inserting(p, x) <=> x = e
      BY <2>1 DEF Inserting, e
    <3> QED BY <2>1, <2>2, <2>6, <3>1, <3>2, <3>3, <3>4
            DEF IInv, EntryHasOneOwner
  <2>9. ThreadsInStep'
    BY <2>1 DEF IInv, TypeOK, ThreadsInStep, getterVars
  <2> QED BY <2>5, <2>7, <2>8, <2>9 DEF IInv
<1> QED BY <1>1, <1>2

\* One iteration of the loop that reverses the detached list.
LEMMA MoveStep ==
    ASSUME IInv, NEW g \in Getters, Move(g)
    PROVE  IInv'
<1> USE NULLAssumption
<1> DEFINE e == head[g]
<1>1. /\ UNCHANGED <<queue_in, lock, socket_fd, allocated, inserterVars, fifo>>
      /\ next' = [next EXCEPT ![e] = queue_out]
      /\ queue_out' = e
      /\ head' = [head EXCEPT ![g] = next[e]]
      /\ get_pc' = [get_pc EXCEPT ![g] =
                      IF next[e] = NULL THEN "pop" ELSE "move"]
      /\ moving' = moving - 1
      /\ ready' = ready + 1
      /\ get_pc[g] = "move"
  BY DEF Move
<1>2. /\ fifo \in Seq(Entries)
      /\ moving \in Nat /\ ready \in Nat
      /\ Len(fifo) \in Nat
      /\ moving > 0 /\ moving + ready <= Len(fifo)
      /\ e = fifo[moving]
      /\ e \in Entries
      /\ next[e] = IF moving = 1 THEN NULL ELSE fifo[moving - 1]
      /\ \A i \in 1..Len(fifo) : fifo[i] \in Entries /\ fifo[i] # NULL
      /\ \A i \in 1..Len(fifo) : fifo[i] = e <=> i = moving
  BY <1>1, LenProperties, ElementOfSeq
     DEF IInv, TypeOK, ListsRepresentQueue, MoveRep
<1>3. next[e] \in Pointer /\ queue_out \in Pointer
  BY <1>2 DEF IInv, TypeOK
<1>4. \A h \in Getters : get_pc[h] \in Locked => h = g
  BY <1>1 DEF IInv, ThreadsInStep, Locked
<1>5. \A x : next'[x] = IF x = e THEN queue_out ELSE next[x]
  BY <1>1, <1>2 DEF IInv, TypeOK
<1> HIDE DEF e
<1>6. TypeOK'
  BY <1>1, <1>2, <1>3 DEF IInv, TypeOK, GetPcs, Pointer, inserterVars
<1>7. ListsRepresentQueue'
  <2>1. OutRep'
    BY <1>1, <1>2, <1>5 DEF IInv, ListsRepresentQueue, OutRep
  <2>2. InRep'
    <3>1. moving' + ready' = moving + ready
      BY <1>1, <1>2
    <3>2. \A i \in (moving + ready + 1)..Len(fifo) :
             /\ i \in 1..Len(fifo)
             /\ next'[fifo[i]] = next[fifo[i]]
      BY <1>2, <1>5
    <3> QED BY <1>1, <3>1, <3>2 DEF IInv, ListsRepresentQueue, InRep
  <2>3. MoveRep'
    <3>1. \A i \in 1..moving' :
             next'[fifo[i]] = IF i = 1 THEN NULL ELSE fifo[i - 1]
      BY <1>1, <1>2, <1>5 DEF IInv, ListsRepresentQueue, MoveRep
    <3>2. \A h \in Getters : get_pc'[h] = "move" => h = g
      BY <1>1, <1>4 DEF IInv, TypeOK, Locked
    <3>3. head'[g] = next[e] /\ (get_pc'[g] = "move" <=> next[e] # NULL)
      BY <1>1 DEF IInv, TypeOK
    <3>4. next[e] # NULL <=> moving' > 0
      BY <1>1, <1>2
    <3>5. moving' > 0 => next[e] = fifo[moving']
      BY <1>1, <1>2
    <3> QED BY <1>1, <3>1, <3>2, <3>3, <3>4, <3>5 DEF MoveRep
  <2> QED BY <1>1, <1>2, <2>1, <2>2, <2>3 DEF IInv, ListsRepresentQueue
<1>8. EntryHasOneOwner'
  <2>1. \A q \in Inserters : \A x : Inserting(q, x)' <=> Inserting(q, x)
    BY <1>1 DEF Inserting, inserterVars
  <2>2. \A h \in Getters : \A x : Taken(h, x)' <=> Taken(h, x)
    BY <1>1 DEF IInv, TypeOK, Taken
  <2>3. \A x : Queued(x)' <=> Queued(x)
    BY <1>1 DEF Queued
  <2> QED BY <1>1, <2>1, <2>2, <2>3 DEF IInv, EntryHasOneOwner
<1>9. ThreadsInStep'
  <2>1. \A p \in Inserters : insert_pc[p] = "cas" => entry[p] # e
    BY <1>2 DEF IInv, EntryHasOneOwner, Inserting, Queued
  <2> QED
    BY <1>1, <1>2, <1>4, <1>5, <2>1
       DEF IInv, TypeOK, ThreadsInStep, Locked, inserterVars
<1> QED BY <1>6, <1>7, <1>8, <1>9 DEF IInv

\* The oldest entry is taken from queue_out, or there is none.
LEMMA PopStep ==
    ASSUME IInv, NEW g \in Getters, Pop(g)
    PROVE  IInv'
<1> USE NULLAssumption
<1>1. /\ UNCHANGED <<queue_in, lock, next, socket_fd, allocated,
                     inserterVars, moving>>
      /\ get_pc' = [get_pc EXCEPT ![g] = "unlock"]
      /\ get_pc[g] = "pop"
  BY DEF Pop
<1>2. \A h \in Getters : get_pc[h] \in Locked => h = g
  BY <1>1 DEF IInv, ThreadsInStep, Locked
<1>3. /\ fifo \in Seq(Entries)
      /\ moving = 0 /\ ready \in Nat
      /\ Len(fifo) \in Nat
      /\ ready <= Len(fifo)
      /\ \A i \in 1..Len(fifo) : fifo[i] \in Entries /\ fifo[i] # NULL
      /\ \A i, j \in 1..Len(fifo) : fifo[i] = fifo[j] => i = j
  BY <1>1, <1>2, LenProperties, ElementOfSeq
     DEF IInv, TypeOK, ListsRepresentQueue, MoveRep, Locked
<1>4. CASE queue_out = NULL
  <2>1. UNCHANGED <<head, queue_out, fifo, ready>>
    BY <1>4 DEF Pop
  <2>2. ready = 0 /\ head[g] = NULL
    BY <1>1, <1>3, <1>4 DEF IInv, ListsRepresentQueue, OutRep, ThreadsInStep
  <2>3. TypeOK'
    BY <1>1, <2>1 DEF IInv, TypeOK, GetPcs, inserterVars
  <2>4. ListsRepresentQueue'
    BY <1>1, <1>3, <2>1
       DEF IInv, TypeOK, ListsRepresentQueue, OutRep, InRep, MoveRep
  <2>5. EntryHasOneOwner'
    <3>1. \A q \in Inserters : \A x : Inserting(q, x)' <=> Inserting(q, x)
      BY <1>1 DEF Inserting, inserterVars
    <3>2. \A h \in Getters, x \in Entries : Taken(h, x)' <=> Taken(h, x)
      BY <1>1, <2>1, <2>2 DEF IInv, TypeOK, Taken
    <3>3. \A x : Queued(x)' <=> Queued(x)
      BY <2>1 DEF Queued
    <3> QED BY <1>1, <3>1, <3>2, <3>3 DEF IInv, EntryHasOneOwner
  <2>6. ThreadsInStep'
    BY <1>1, <1>2, <2>1
       DEF IInv, TypeOK, ThreadsInStep, Locked, inserterVars
  <2> QED BY <2>3, <2>4, <2>5, <2>6 DEF IInv
<1>5. CASE queue_out # NULL
  <2> DEFINE e == queue_out
  <2>1. /\ head' = [head EXCEPT ![g] = e]
        /\ queue_out' = next[e]
        /\ fifo' = Tail(fifo)
        /\ ready' = ready - 1
    BY <1>5 DEF Pop
  <2>2. ready > 0 /\ e = fifo[1] /\ e \in Entries /\ fifo # << >>
    BY <1>3, <1>5, EmptySeq DEF IInv, ListsRepresentQueue, OutRep
  <2>3. /\ fifo' \in Seq(Entries)
        /\ Len(fifo') = Len(fifo) - 1
        /\ \A i \in 1..Len(fifo') : fifo'[i] = fifo[i + 1]
    BY <1>3, <2>1, <2>2, HeadTailProperties
  <2> HIDE DEF e
  <2>4. TypeOK'
    BY <1>1, <1>3, <2>1, <2>2, <2>3
       DEF IInv, TypeOK, GetPcs, Pointer, inserterVars
  <2>5. ListsRepresentQueue'
    <3>1. (moving + ready <= Len(fifo)
             /\ \A i, j \in 1..Len(fifo) : fifo[i] = fifo[j] => i = j)'
      BY <1>1, <1>3, <2>1, <2>2, <2>3
    <3>2. OutRep'
      <4>1. \A i \in 1..ready :
               next[fifo[i]] = IF i = ready THEN NULL ELSE fifo[i + 1]
        BY <1>3 DEF IInv, ListsRepresentQueue, OutRep
      <4> QED BY <1>1, <1>3, <2>1, <2>2, <2>3, <4>1 DEF OutRep
    <3>3. InRep'
      <4>1. \A i \in (ready + 1)..Len(fifo) :
               next[fifo[i]] = IF i = ready + 1 THEN NULL ELSE fifo[i - 1]
        BY <1>3 DEF IInv, ListsRepresentQueue, InRep
      <4>2. queue_in = IF Len(fifo) = ready THEN NULL ELSE fifo[Len(fifo)]
        BY <1>3 DEF IInv, ListsRepresentQueue, InRep
      <4>3. /\ queue_in' = queue_in /\ next' = next
            /\ moving' = 0 /\ ready' = ready - 1
        BY <1>1, <1>3, <2>1
      <4>4. ASSUME NEW i \in (ready' + 1)..Len(fifo')
            PROVE  next[fifo'[i]] = IF i = ready' + 1 THEN NULL
                                    ELSE fifo'[i - 1]
        <5>1. /\ i + 1 \in (ready + 1)..Len(fifo)
              /\ fifo'[i] = fifo[i + 1]
              /\ i # ready' + 1 => fifo'[i - 1] = fifo[i]
          BY <1>3, <2>2, <2>3, <4>3
        <5>2. next[fifo[i + 1]] = IF i + 1 = ready + 1 THEN NULL
                                  ELSE fifo[(i + 1) - 1]
          BY <4>1, <5>1
        <5> QED BY <1>3, <4>3, <5>1, <5>2
      <4>5. queue_in = IF Len(fifo') = ready' THEN NULL ELSE fifo'[Len(fifo')]
        <5>1. CASE Len(fifo) = ready
          BY <1>3, <2>3, <4>2, <4>3, <5>1
        <5>2. CASE Len(fifo) # ready
          <6>1. /\ Len(fifo') # ready'
                /\ fifo'[Len(fifo')] = fifo[Len(fifo)]
            BY <1>3, <2>2, <2>3, <4>3, <5>2
          <6> QED BY <4>2, <5>2, <6>1
        <5> QED BY <5>1, <5>2
      <4>6. ready' \in Nat /\ Len(fifo') \in Nat
        BY <1>3, <2>2, <2>3, <4>3
      <4> QED BY <4>3, <4>4, <4>5, <4>6 DEF InRep
    <3>4. MoveRep'
      BY <1>1, <1>2, <1>3, <2>1, <2>2, <2>3
         DEF IInv, TypeOK, ListsRepresentQueue, MoveRep, Locked
    <3> QED BY <3>1, <3>2, <3>3, <3>4 DEF ListsRepresentQueue
  <2>6. EntryHasOneOwner'
    <3>1. \A q \in Inserters : \A x : Inserting(q, x)' <=> Inserting(q, x)
      BY <1>1 DEF Inserting, inserterVars
    <3>2. \A h \in Getters, x \in Entries :
             Taken(h, x)' <=> Taken(h, x) \/ (h = g /\ x = e)
      BY <1>1, <2>1 DEF IInv, TypeOK, Taken
    <3>3. \A x : Queued(x) <=> Queued(x)' \/ x = e
      <4>1. ASSUME NEW x, Queued(x) PROVE Queued(x)' \/ x = e
        <5>1. PICK i \in 1..Len(fifo) : fifo[i] = x
          BY <4>1 DEF Queued
        <5>2. CASE i # 1
          <6>1. i - 1 \in 1..Len(fifo') /\ fifo'[i - 1] = x
            BY <1>3, <2>3, <5>1, <5>2
          <6> QED BY <6>1 DEF Queued
        <5> QED BY <2>2, <5>1, <5>2
      <4>2. ASSUME NEW x, Queued(x)' PROVE Queued(x)
        <5>1. PICK i \in 1..Len(fifo') : fifo'[i] = x
          BY <4>2 DEF Queued
        <5>2. i + 1 \in 1..Len(fifo) /\ fifo[i + 1] = x
          BY <1>3, <2>3, <5>1
        <5> QED BY <5>2 DEF Queued
      <4>3. Queued(e)
        BY <1>3, <2>2 DEF Queued
      <4> QED BY <4>1, <4>2, <4>3
    <3>4. \A x : Queued(x)' => x # e
      BY <1>3, <2>2, <2>3 DEF Queued
    <3>5. \A x : ~ Taken(g, x)
      BY <1>1 DEF Taken
    <3> QED BY <1>1, <2>2, <3>1, <3>2, <3>3, <3>4, <3>5
            DEF IInv, EntryHasOneOwner
  <2>7. ThreadsInStep'
    BY <1>1, <1>2, <2>1
       DEF IInv, TypeOK, ThreadsInStep, Locked, inserterVars
  <2> QED BY <2>4, <2>5, <2>6, <2>7 DEF IInv
<1> QED BY <1>4, <1>5

\* Every step of a thread, and stuttering, keeps the invariant.
LEMMA StepIInv ==
    ASSUME IInv, [Next]_vars
    PROVE  IInv'
<1> USE NULLAssumption
<1> USE DEF IInv
<1>1. ASSUME NEW p \in Inserters, NEW e \in Entries, NEW s \in Sockets,
            NEW v \in Pointer, NewEntry(p, e, s, v)
      PROVE  IInv'
  <2>1. TypeOK'
    BY <1>1
       DEF NewEntry, TypeOK, Pointer, InsertPcs, GetPcs, root, inserterVars,
           getterVars, history
  <2>2. ListsRepresentQueue'
    BY <1>1
       DEF NewEntry, TypeOK, Pointer, InsertPcs, GetPcs, root, inserterVars,
           getterVars, history, ListsRepresentQueue, OutRep, InRep, MoveRep,
           EntryHasOneOwner, Inserting, Taken, Queued
  <2>3. EntryHasOneOwner'
    BY <1>1
       DEF NewEntry, TypeOK, Pointer, InsertPcs, GetPcs, root, inserterVars,
           getterVars, history, EntryHasOneOwner, Inserting, Taken, Queued
  <2>4. ThreadsInStep'
    BY <1>1
       DEF NewEntry, TypeOK, Pointer, InsertPcs, GetPcs, root, inserterVars,
           getterVars, history, ThreadsInStep, Locked, ListsRepresentQueue,
           OutRep, InRep, MoveRep, EntryHasOneOwner, Inserting, Taken, Queued
  <2> QED BY <2>1, <2>2, <2>3, <2>4
<1>2. ASSUME NEW p \in Inserters, ReadIn(p)
      PROVE  IInv'
  <2>1. TypeOK'
    BY <1>2
       DEF ReadIn, TypeOK, Pointer, InsertPcs, GetPcs, root, inserterVars,
           getterVars, history
  <2>2. ListsRepresentQueue'
    BY <1>2
       DEF ReadIn, TypeOK, Pointer, InsertPcs, GetPcs, root, inserterVars,
           getterVars, history, ListsRepresentQueue, OutRep, InRep, MoveRep,
           EntryHasOneOwner, Inserting, Taken, Queued
  <2>3. EntryHasOneOwner'
    BY <1>2
       DEF ReadIn, TypeOK, Pointer, InsertPcs, GetPcs, root, inserterVars,
           getterVars, history, EntryHasOneOwner, Inserting, Taken, Queued
  <2>4. ThreadsInStep'
    BY <1>2
       DEF ReadIn, TypeOK, Pointer, InsertPcs, GetPcs, root, inserterVars,
           getterVars, history, ThreadsInStep, Locked, ListsRepresentQueue,
           OutRep, InRep, MoveRep, EntryHasOneOwner, Inserting, Taken, Queued
  <2> QED BY <2>1, <2>2, <2>3, <2>4
<1>3. ASSUME NEW g \in Getters, Lock(g)
      PROVE  IInv'
  <2>1. TypeOK'
    BY <1>3
       DEF Lock, TypeOK, Pointer, InsertPcs, GetPcs, root, inserterVars,
           getterVars, history
  <2>2. ListsRepresentQueue'
    BY <1>3
       DEF Lock, TypeOK, Pointer, InsertPcs, GetPcs, root, inserterVars,
           getterVars, history, ListsRepresentQueue, OutRep, InRep, MoveRep,
           EntryHasOneOwner, Inserting, Taken, Queued
  <2>3. EntryHasOneOwner'
    BY <1>3
       DEF Lock, TypeOK, Pointer, InsertPcs, GetPcs, root, inserterVars,
           getterVars, history, EntryHasOneOwner, Inserting, Taken, Queued
  <2>4. ThreadsInStep'
    BY <1>3
       DEF Lock, TypeOK, Pointer, InsertPcs, GetPcs, root, inserterVars,
           getterVars, history, ThreadsInStep, Locked, ListsRepresentQueue,
           OutRep, InRep, MoveRep, EntryHasOneOwner, Inserting, Taken, Queued
  <2> QED BY <2>1, <2>2, <2>3, <2>4
<1>4. ASSUME NEW g \in Getters, CheckOut(g)
      PROVE  IInv'
  <2>1. TypeOK'
    BY <1>4
       DEF CheckOut, TypeOK, Pointer, InsertPcs, GetPcs, root, inserterVars,
           getterVars, history
  <2>2. ListsRepresentQueue'
    BY <1>4
       DEF CheckOut, TypeOK, Pointer, InsertPcs, GetPcs, root, inserterVars,
           getterVars, history, ListsRepresentQueue, OutRep, InRep, MoveRep,
           EntryHasOneOwner, Inserting, Taken, Queued
  <2>3. EntryHasOneOwner'
    BY <1>4
       DEF CheckOut, TypeOK, Pointer, InsertPcs, GetPcs, root, inserterVars,
           getterVars, history, EntryHasOneOwner, Inserting, Taken, Queued
  <2>4. ThreadsInStep'
    BY <1>4
       DEF CheckOut, TypeOK, Pointer, InsertPcs, GetPcs, root, inserterVars,
           getterVars, history, ThreadsInStep, Locked, ListsRepresentQueue,
           OutRep, InRep, MoveRep, EntryHasOneOwner, Inserting, Taken, Queued
  <2> QED BY <2>1, <2>2, <2>3, <2>4
<1>5. ASSUME NEW g \in Getters, ReadHead(g)
      PROVE  IInv'
  <2>1. TypeOK'
    BY <1>5
       DEF ReadHead, TypeOK, Pointer, InsertPcs, GetPcs, root, inserterVars,
           getterVars, history
  <2>2. ListsRepresentQueue'
    BY <1>5
       DEF ReadHead, TypeOK, Pointer, InsertPcs, GetPcs, root, inserterVars,
           getterVars, history, ListsRepresentQueue, OutRep, InRep, MoveRep,
           EntryHasOneOwner, Inserting, Taken, Queued
  <2>3. EntryHasOneOwner'
    BY <1>5
       DEF ReadHead, TypeOK, Pointer, InsertPcs, GetPcs, root, inserterVars,
           getterVars, history, EntryHasOneOwner, Inserting, Taken, Queued
  <2>4. ThreadsInStep'
    BY <1>5
       DEF ReadHead, TypeOK, Pointer, InsertPcs, GetPcs, root, inserterVars,
           getterVars, history, ThreadsInStep, Locked, ListsRepresentQueue,
           OutRep, InRep, MoveRep, EntryHasOneOwner, Inserting, Taken, Queued
  <2> QED BY <2>1, <2>2, <2>3, <2>4
<1>6. ASSUME NEW g \in Getters, Detach(g)
      PROVE  IInv'
  <2>1. TypeOK'
    BY <1>6
       DEF Detach, TypeOK, Pointer, InsertPcs, GetPcs, root, inserterVars,
           getterVars, history
  <2>2. ListsRepresentQueue'
    BY <1>6
       DEF Detach, TypeOK, Pointer, InsertPcs, GetPcs, root, inserterVars,
           getterVars, history, ListsRepresentQueue, OutRep, InRep, MoveRep,
           EntryHasOneOwner, Inserting, Taken, Queued, ThreadsInStep, Locked
  <2>3. EntryHasOneOwner'
    BY <1>6
       DEF Detach, TypeOK, Pointer, InsertPcs, GetPcs, root, inserterVars,
           getterVars, history, EntryHasOneOwner, Inserting, Taken, Queued
  <2>4. ThreadsInStep'
    BY <1>6
       DEF Detach, TypeOK, Pointer, InsertPcs, GetPcs, root, inserterVars,
           getterVars, history, ThreadsInStep, Locked, ListsRepresentQueue,
           OutRep, InRep, MoveRep, EntryHasOneOwner, Inserting, Taken, Queued
  <2> QED BY <2>1, <2>2, <2>3, <2>4
<1>7. ASSUME NEW g \in Getters, Unlock(g)
      PROVE  IInv'
  <2>1. TypeOK'
    BY <1>7
       DEF Unlock, TypeOK, Pointer, InsertPcs, GetPcs, root, inserterVars,
           getterVars, history
  <2>2. ListsRepresentQueue'
    BY <1>7
       DEF Unlock, TypeOK, Pointer, InsertPcs, GetPcs, root, inserterVars,
           getterVars, history, ListsRepresentQueue, OutRep, InRep, MoveRep,
           EntryHasOneOwner, Inserting, Taken, Queued
  <2>3. EntryHasOneOwner'
    BY <1>7
       DEF Unlock, TypeOK, Pointer, InsertPcs, GetPcs, root, inserterVars,
           getterVars, history, EntryHasOneOwner, Inserting, Taken, Queued
  <2>4. ThreadsInStep'
    BY <1>7
       DEF Unlock, TypeOK, Pointer, InsertPcs, GetPcs, root, inserterVars,
           getterVars, history, ThreadsInStep, Locked, ListsRepresentQueue,
           OutRep, InRep, MoveRep, EntryHasOneOwner, Inserting, Taken, Queued
  <2> QED BY <2>1, <2>2, <2>3, <2>4
<1>8. ASSUME NEW g \in Getters, Release(g)
      PROVE  IInv'
  <2>1. TypeOK'
    BY <1>8
       DEF Release, TypeOK, Pointer, InsertPcs, GetPcs, root, inserterVars,
           getterVars, history
  <2>2. ListsRepresentQueue'
    BY <1>8
       DEF Release, TypeOK, Pointer, InsertPcs, GetPcs, root, inserterVars,
           getterVars, history, ListsRepresentQueue, OutRep, InRep, MoveRep,
           EntryHasOneOwner, Inserting, Taken, Queued
  <2>3. EntryHasOneOwner'
    BY <1>8
       DEF Release, TypeOK, Pointer, InsertPcs, GetPcs, root, inserterVars,
           getterVars, history, EntryHasOneOwner, Inserting, Taken, Queued
  <2>4. ThreadsInStep'
    BY <1>8
       DEF Release, TypeOK, Pointer, InsertPcs, GetPcs, root, inserterVars,
           getterVars, history, ThreadsInStep, Locked, ListsRepresentQueue,
           OutRep, InRep, MoveRep, EntryHasOneOwner, Inserting, Taken, Queued
  <2> QED BY <2>1, <2>2, <2>3, <2>4
<1>9. CASE UNCHANGED vars
  <2>1. TypeOK'
    BY <1>9
       DEF vars, root, inserterVars, getterVars, history, TypeOK
  <2>2. ListsRepresentQueue'
    BY <1>9
       DEF vars, root, inserterVars, getterVars, history, ListsRepresentQueue,
           OutRep, InRep, MoveRep
  <2>3. EntryHasOneOwner'
    BY <1>9
       DEF vars, root, inserterVars, getterVars, history, EntryHasOneOwner,
           Inserting, Taken, Queued
  <2>4. ThreadsInStep'
    BY <1>9
       DEF vars, root, inserterVars, getterVars, history, ThreadsInStep, Locked
  <2> QED BY <2>1, <2>2, <2>3, <2>4
<1> QED
  BY <1>1, <1>2, <1>3, <1>4, <1>5, <1>6, <1>7, <1>8, <1>9,
     CasInStep, MoveStep, PopStep
     DEF Next, InsertStep, GetStep

\* The inductive invariant holds in every reachable state.
THEOREM InductiveInvariant == Spec => []IInv
<1>1. Init => IInv
  BY InitIInv
<1>2. IInv /\ [Next]_vars => IInv'
  BY StepIInv
<1> QED BY <1>1, <1>2, PTL DEF Spec

\* Type correctness of comm_queue_t, its entries and the threads' locals.
THEOREM TypeCorrect == Spec => []TypeOK
<1>1. IInv => TypeOK
  BY DEF IInv
<1> QED BY <1>1, InductiveInvariant, PTL

\* The two lists hold exactly the queued connections, in insertion order:
\* no interleaving of the lock-free inserts with the gets loses, duplicates
\* or reorders one.
THEOREM ListsCorrect == Spec => []ListsRepresentQueue
<1>1. IInv => ListsRepresentQueue
  BY DEF IInv
<1> QED BY <1>1, InductiveInvariant, PTL

\* Every entry has one owner from malloc to free: none leaks, is freed twice
\* or is used after it is freed.
THEOREM OwnershipCorrect == Spec => []EntryHasOneOwner
<1>1. IInv => EntryHasOneOwner
  BY DEF IInv
<1> QED BY <1>1, InductiveInvariant, PTL

-----------------------------------------------------------------------------
(***************************************************************************)
(* comm_queue_insert and comm_queue_get, access by access, implement the   *)
(* FIFO queue of FifoQueue with atomic calls:                              *)
(*                                                                         *)
(*   NewEntry                          is Offer,                           *)
(*   a compare-and-swap that inserts   is Insert,                          *)
(*   Lock                              is Call,                            *)
(*   a detach of the empty list        is FindEmpty,                       *)
(*   a pop of an entry                 is Take,                            *)
(*   Release                           is Return,                          *)
(*                                                                         *)
(* and every other step leaves the abstract queue as it is.                *)
(***************************************************************************)

\* An allocated entry carries a socket.
SocketKnown == \A e \in allocated : socket_fd[e] \in Sockets

\* A function on 1..n is a sequence of length n.
LEMMA FunctionIsSeq ==
    ASSUME NEW S, NEW n \in Nat, NEW f \in [1..n -> S]
    PROVE  f \in Seq(S) /\ Len(f) = n
<1>1. f \in Seq(S)
  BY SeqDef
<1>2. Len(f) \in Nat /\ 1..Len(f) = 1..n
  BY <1>1, LenProperties
<1> QED BY <1>1, <1>2

\* Only NewEntry gives an entry a socket and only Release takes it away.
LEMMA SocketStep ==
    ASSUME IInv, SocketKnown, [Next]_vars
    PROVE  SocketKnown'
<1>1. ASSUME NEW p \in Inserters, NEW e \in Entries, NEW s \in Sockets,
             NEW v \in Pointer, NewEntry(p, e, s, v)
      PROVE  SocketKnown'
  BY <1>1 DEF NewEntry, SocketKnown, IInv, TypeOK
<1>2. ASSUME NEW g \in Getters, Release(g)
      PROVE  SocketKnown'
  BY <1>2 DEF Release, SocketKnown, IInv, TypeOK
<1>3. ASSUME UNCHANGED <<allocated, socket_fd>>
      PROVE  SocketKnown'
  BY <1>3 DEF SocketKnown
<1>4. ASSUME NEW p \in Inserters, InsertStep(p)
      PROVE  UNCHANGED <<allocated, socket_fd>>
  BY <1>4 DEF InsertStep, ReadIn, CasIn
<1>5. ASSUME NEW g \in Getters, GetStep(g), ~ Release(g)
      PROVE  UNCHANGED <<allocated, socket_fd>>
  BY <1>5 DEF GetStep, Lock, CheckOut, ReadHead, Detach, Move, Pop, Unlock
<1>6. UNCHANGED vars => UNCHANGED <<allocated, socket_fd>>
  BY DEF vars
<1> QED BY <1>1, <1>2, <1>3, <1>4, <1>5, <1>6 DEF Next

\* The abstract queue is a sequence of the queued entries' sockets.
LEMMA QueueBar ==
    ASSUME IInv, SocketKnown
    PROVE  /\ queueBar \in Seq(Sockets)
           /\ Len(queueBar) = Len(fifo)
           /\ \A i \in 1..Len(fifo) : queueBar[i] = socket_fd[fifo[i]]
<1>1. Len(fifo) \in Nat
  BY LenProperties DEF IInv, TypeOK
<1>2. \A i \in 1..Len(fifo) : socket_fd[fifo[i]] \in Sockets
  BY <1>1, ElementOfSeq
     DEF IInv, TypeOK, EntryHasOneOwner, Queued, SocketKnown
<1>3. queueBar \in [1..Len(fifo) -> Sockets]
  BY <1>2 DEF queueBar
<1>4. queueBar \in Seq(Sockets) /\ Len(queueBar) = Len(fifo)
  BY <1>1, <1>3, FunctionIsSeq
<1>5. \A i \in 1..Len(fifo) : queueBar[i] = socket_fd[fifo[i]]
  BY DEF queueBar
<1> QED BY <1>4, <1>5

\* The acceptor's malloc and the start of its insert: Offer.
LEMMA NewEntryOffers ==
    ASSUME IInv, NEW p \in Inserters, NEW e \in Entries, NEW s \in Sockets,
           NEW v \in Pointer, NewEntry(p, e, s, v)
    PROVE  Fifo!Offer(p, s)
<1>1. /\ insert_pc[p] = "idle"
      /\ e \notin allocated
      /\ socket_fd' = [socket_fd EXCEPT ![e] = s]
      /\ entry' = [entry EXCEPT ![p] = e]
      /\ insert_pc' = [insert_pc EXCEPT ![p] = "read"]
      /\ UNCHANGED <<queue_out, get_pc, head, fifo>>
  BY DEF NewEntry, root, getterVars, history
<1>2. offeredBar[p] = NULL
  BY <1>1 DEF offeredBar
<1>3. offeredBar' = [offeredBar EXCEPT ![p] = s]
  <2>1. \A q \in Inserters :
           insert_pc[q] # "idle" => entry[q] \in Entries /\ entry[q] # e
    BY <1>1 DEF IInv, TypeOK, ThreadsInStep, EntryHasOneOwner, Inserting,
                Pointer
  <2> QED BY <1>1, <2>1 DEF offeredBar, IInv, TypeOK
<1>4. UNCHANGED queueBar
  <2>1. \A i \in 1..Len(fifo) : fifo[i] \in Entries /\ fifo[i] # e
    BY <1>1, LenProperties, ElementOfSeq
       DEF IInv, TypeOK, EntryHasOneOwner, Queued
  <2>2. \A i \in 1..Len(fifo) : socket_fd'[fifo[i]] = socket_fd[fifo[i]]
    BY <1>1, <2>1 DEF IInv, TypeOK
  <2> QED BY <1>1, <2>2 DEF queueBar
<1>5. UNCHANGED answerBar
  BY <1>1 DEF answerBar, Answered
<1>6. UNCHANGED takenBar
  <2>1. \A g \in Getters : get_pc[g] \in {"unlock", "got"} /\ head[g] # NULL
            => head[g] \in Entries /\ head[g] # e
    BY <1>1 DEF IInv, TypeOK, EntryHasOneOwner, Taken, Pointer
  <2> QED BY <1>1, <2>1 DEF takenBar, IInv, TypeOK
<1> QED BY <1>2, <1>3, <1>4, <1>5, <1>6 DEF Fifo!Offer

\* A compare-and-swap of queue_in that inserts is Insert; one that fails
\* leaves the abstract queue as it is.
LEMMA CasInInserts ==
    ASSUME IInv, SocketKnown, IInv', SocketKnown',
           NEW p \in Inserters, CasIn(p)
    PROVE  Fifo!Insert(p) \/ UNCHANGED Fifo!vars
<1>1. /\ insert_pc[p] = "cas"
      /\ UNCHANGED <<queue_out, socket_fd, get_pc, head>>
  BY DEF CasIn, getterVars
<1>2. UNCHANGED <<answerBar, takenBar>>
  BY <1>1 DEF answerBar, Answered, takenBar
<1>3. CASE queue_in # in_queue[p]
  <2>1. /\ UNCHANGED <<fifo, entry>>
        /\ insert_pc' = [insert_pc EXCEPT ![p] = "read"]
    BY <1>3 DEF CasIn
  <2>2. UNCHANGED offeredBar
    BY <1>1, <2>1 DEF offeredBar, IInv, TypeOK
  <2>3. UNCHANGED queueBar
    BY <1>1, <2>1 DEF queueBar
  <2> QED BY <1>2, <2>2, <2>3 DEF Fifo!vars
<1>4. CASE queue_in = in_queue[p]
  <2>1. /\ fifo' = Append(fifo, entry[p])
        /\ insert_pc' = [insert_pc EXCEPT ![p] = "idle"]
        /\ entry' = [entry EXCEPT ![p] = NULL]
    BY <1>4 DEF CasIn
  <2>2. entry[p] \in Entries /\ entry[p] \in allocated
    BY <1>1 DEF IInv, TypeOK, ThreadsInStep, EntryHasOneOwner, Inserting,
                Pointer
  <2>3. offeredBar[p] = socket_fd[entry[p]] /\ offeredBar[p] \in Sockets
    BY <1>1, <2>2 DEF offeredBar, SocketKnown
  <2>4. offeredBar' = [offeredBar EXCEPT ![p] = NULL]
    BY <1>1, <2>1 DEF offeredBar, IInv, TypeOK
  <2>5. queueBar' = Append(queueBar, offeredBar[p])
    <3> DEFINE q == Append(queueBar, offeredBar[p])
    <3>1. /\ fifo \in Seq(Entries) /\ Len(fifo) \in Nat
      BY LenProperties DEF IInv, TypeOK
    <3>2. /\ Len(fifo') = Len(fifo) + 1
          /\ \A i \in 1..Len(fifo) : fifo'[i] = fifo[i]
          /\ fifo'[Len(fifo) + 1] = entry[p]
      BY <2>1, <2>2, <3>1, AppendProperties
    <3>3. /\ queueBar \in Seq(Sockets)
          /\ Len(queueBar) = Len(fifo)
          /\ \A i \in 1..Len(fifo) : queueBar[i] = socket_fd[fifo[i]]
      BY QueueBar
    <3>4. /\ q \in Seq(Sockets)
          /\ Len(q) = Len(fifo) + 1
          /\ \A i \in 1..Len(fifo) : q[i] = queueBar[i]
          /\ q[Len(fifo) + 1] = offeredBar[p]
      BY <2>3, <3>3, AppendProperties
    <3>5. queueBar' = [i \in 1..(Len(fifo) + 1) |-> socket_fd[fifo'[i]]]
      BY <1>1, <3>2 DEF queueBar
    <3> HIDE DEF q
    <3>6. q = [i \in 1..Len(q) |-> q[i]]
      BY <3>4, SeqDef, LenProperties
    <3>7. \A i \in 1..(Len(fifo) + 1) : q[i] = socket_fd[fifo'[i]]
      BY <2>3, <3>1, <3>2, <3>3, <3>4
    <3> QED BY <3>4, <3>5, <3>6, <3>7 DEF q
  <2>6. offeredBar[p] # NULL
    BY <2>3, NULLAssumption
  <2> QED BY <1>2, <2>4, <2>5, <2>6 DEF Fifo!Insert
<1> QED BY <1>3, <1>4

\* The steps of an insert and of a get that take no effect.
LEMMA StutteringSteps ==
    ASSUME IInv, UNCHANGED <<fifo, socket_fd>>,
           \/ \E p \in Inserters : ReadIn(p)
           \/ \E g \in Getters : \/ CheckOut(g) \/ ReadHead(g)
                                \/ Move(g) \/ Unlock(g)
    PROVE  UNCHANGED Fifo!vars
<1>1. UNCHANGED queueBar
  BY DEF queueBar
<1>2. ASSUME NEW p \in Inserters, ReadIn(p)
      PROVE  UNCHANGED <<offeredBar, answerBar, takenBar>>
  BY <1>2 DEF ReadIn, root, getterVars, offeredBar, answerBar, Answered,
              takenBar, IInv, TypeOK
<1>3. ASSUME NEW g \in Getters,
             CheckOut(g) \/ ReadHead(g) \/ Move(g) \/ Unlock(g)
      PROVE  UNCHANGED <<offeredBar, answerBar, takenBar>>
  <2>1. UNCHANGED <<insert_pc, entry>>
    BY <1>3 DEF CheckOut, ReadHead, Move, Unlock, inserterVars
  <2>2. \A h \in Getters :
           get_pc[h] = "pop" /\ get_pc[g] \in Locked => h = g
    BY DEF IInv, ThreadsInStep, Locked
  <2>3. UNCHANGED takenBar
    BY <1>3 DEF CheckOut, ReadHead, Move, Unlock, root, takenBar, IInv, TypeOK
  <2>4. CASE CheckOut(g) \/ ReadHead(g) \/ Unlock(g)
    <3>1. UNCHANGED answerBar
      BY <2>4 DEF CheckOut, ReadHead, Unlock, root, answerBar, Answered, IInv,
                  TypeOK
    <3> QED BY <2>1, <2>3, <3>1 DEF offeredBar
  <2>5. CASE Move(g)
    <3>1. moving > 0 /\ head[g] = fifo[moving]
      BY <2>5 DEF Move, IInv, ListsRepresentQueue, MoveRep
    <3>2. fifo \in Seq(Entries) /\ moving \in 1..Len(fifo)
      BY <3>1, LenProperties DEF IInv, TypeOK, ListsRepresentQueue
    <3>3. head[g] # NULL
      BY <3>1, <3>2, ElementOfSeq, NULLAssumption
    <3>4. UNCHANGED answerBar
      BY <2>2, <2>5, <3>3
         DEF Move, answerBar, Answered, Locked, IInv, TypeOK
    <3> QED BY <2>1, <2>3, <3>4 DEF offeredBar
  <2> QED BY <1>3, <2>4, <2>5
<1> QED BY <1>1, <1>2, <1>3 DEF Fifo!vars

\* Taking the mutex is Call.
LEMMA LockCalls ==
    ASSUME IInv, NEW g \in Getters, Lock(g)
    PROVE  Fifo!Call(g)
<1>1. UNCHANGED <<queueBar, offeredBar>>
  BY DEF Lock, inserterVars, history, queueBar, offeredBar
<1>2. UNCHANGED takenBar
  BY DEF Lock, takenBar, IInv, TypeOK
<1>3. answerBar[g] = "idle"
  BY DEF Lock, answerBar
<1>4. answerBar' = [answerBar EXCEPT ![g] = "called"]
  BY DEF Lock, answerBar, Answered, IInv, TypeOK
<1> QED BY <1>1, <1>2, <1>3, <1>4 DEF Fifo!Call

\* A detach of the empty list is FindEmpty: the abstract queue is empty at
\* that instant.
LEMMA DetachFindsEmpty ==
    ASSUME IInv, SocketKnown, NEW g \in Getters, Detach(g)
    PROVE  Fifo!FindEmpty(g) \/ UNCHANGED Fifo!vars
<1>1. /\ get_pc[g] = "swap"
      /\ UNCHANGED <<queue_out, socket_fd, insert_pc, entry, head, fifo>>
  BY DEF Detach, inserterVars
<1>2. UNCHANGED <<queueBar, offeredBar>>
  BY <1>1 DEF queueBar, offeredBar
<1>3. UNCHANGED takenBar
  BY <1>1 DEF Detach, takenBar, IInv, TypeOK
<1>4. CASE queue_in # head[g] \/ head[g] # NULL
  <2>1. UNCHANGED answerBar
    BY <1>1, <1>4 DEF Detach, answerBar, Answered, IInv, TypeOK
  <2> QED BY <1>2, <1>3, <2>1 DEF Fifo!vars
<1>5. CASE queue_in = NULL /\ head[g] = NULL
  <2>1. get_pc' = [get_pc EXCEPT ![g] = "pop"]
    BY <1>5 DEF Detach
  <2>2. ready = 0 /\ moving = 0
    BY <1>1 DEF IInv, TypeOK, ListsRepresentQueue, MoveRep, ThreadsInStep,
                Locked
  <2>3. queue_out = NULL
    BY <2>2 DEF IInv, ListsRepresentQueue, OutRep
  <2>4. Len(fifo) = 0
    BY <1>5, <2>2, LenProperties, ElementOfSeq, NULLAssumption
       DEF IInv, TypeOK, ListsRepresentQueue, InRep
  <2>5. queueBar = << >>
    BY <2>4, QueueBar, EmptySeq
  <2>6. answerBar[g] = "called"
    BY <1>1 DEF answerBar, Answered
  <2>7. answerBar' = [answerBar EXCEPT ![g] = "empty"]
    BY <1>1, <2>1, <2>3 DEF answerBar, Answered, IInv, TypeOK
  <2> QED BY <1>2, <1>3, <2>5, <2>6, <2>7 DEF Fifo!FindEmpty
<1> QED BY <1>4, <1>5

\* A pop of an entry is Take: the socket is that of the oldest entry.
LEMMA PopTakes ==
    ASSUME IInv, SocketKnown, NEW g \in Getters, Pop(g)
    PROVE  Fifo!Take(g) \/ UNCHANGED Fifo!vars
<1>1. /\ get_pc[g] = "pop"
      /\ get_pc' = [get_pc EXCEPT ![g] = "unlock"]
      /\ UNCHANGED <<socket_fd, insert_pc, entry, moving>>
  BY DEF Pop, inserterVars
<1>2. UNCHANGED offeredBar
  BY <1>1 DEF offeredBar
<1>3. \A h \in Getters : get_pc[h] \in Locked => h = g
  BY <1>1 DEF IInv, ThreadsInStep, Locked
<1>4. moving = 0 /\ ready \in Nat
  BY <1>1, <1>3 DEF IInv, TypeOK, ListsRepresentQueue, MoveRep, Locked
<1>5. CASE queue_out = NULL
  <2>1. UNCHANGED <<head, queue_out, fifo>>
    BY <1>5 DEF Pop
  <2>2. ready = 0
    BY <1>4, <1>5, LenProperties, ElementOfSeq, NULLAssumption
       DEF IInv, TypeOK, ListsRepresentQueue, OutRep
  <2>3. head[g] = NULL
    BY <1>1, <2>2 DEF IInv, ThreadsInStep
  <2>4. UNCHANGED queueBar
    BY <1>1, <2>1 DEF queueBar
  <2>5. UNCHANGED <<answerBar, takenBar>>
    BY <1>1, <1>5, <2>1, <2>3 DEF answerBar, Answered, takenBar, IInv, TypeOK
  <2> QED BY <1>2, <2>4, <2>5 DEF Fifo!vars
<1>6. CASE queue_out # NULL
  <2>1. /\ head' = [head EXCEPT ![g] = queue_out]
        /\ fifo' = Tail(fifo)
    BY <1>6 DEF Pop
  <2>2. /\ fifo \in Seq(Entries) /\ Len(fifo) \in Nat
        /\ Len(fifo) > 0 /\ fifo # << >>
        /\ queue_out = fifo[1]
    BY <1>4, <1>6, LenProperties, EmptySeq
       DEF IInv, TypeOK, ListsRepresentQueue, OutRep
  <2>3. /\ queueBar \in Seq(Sockets)
        /\ Len(queueBar) = Len(fifo)
        /\ \A i \in 1..Len(fifo) : queueBar[i] = socket_fd[fifo[i]]
    BY QueueBar
  <2>4. queueBar # << >>
    BY <2>2, <2>3, EmptySeq
  <2>5. Head(queueBar) = socket_fd[queue_out]
    BY <2>2, <2>3
  <2>6. answerBar[g] = "called"
    BY <1>1, <1>6 DEF answerBar, Answered
  <2>7. answerBar' = [answerBar EXCEPT ![g] = "socket"]
    BY <1>1, <1>3, <1>6, <2>1 DEF answerBar, Answered, Locked, IInv, TypeOK
  <2>8. takenBar' = [takenBar EXCEPT ![g] = Head(queueBar)]
    BY <1>1, <1>6, <2>1, <2>5 DEF takenBar, IInv, TypeOK
  <2>9. queueBar' = Tail(queueBar)
    <3> DEFINE q == Tail(queueBar)
    <3>1. /\ Len(fifo') = Len(fifo) - 1
          /\ \A i \in 1..Len(fifo') : fifo'[i] = fifo[i + 1]
      BY <2>1, <2>2, HeadTailProperties
    <3>2. /\ q \in Seq(Sockets)
          /\ Len(q) = Len(fifo) - 1
          /\ \A i \in 1..Len(q) : q[i] = queueBar[i + 1]
      BY <2>3, <2>4, HeadTailProperties
    <3>3. queueBar' = [i \in 1..(Len(fifo) - 1) |-> socket_fd[fifo'[i]]]
      BY <1>1, <3>1 DEF queueBar
    <3> HIDE DEF q
    <3>4. q = [i \in 1..Len(q) |-> q[i]]
      BY <3>2, LenProperties
    <3>5. ASSUME NEW i \in 1..(Len(fifo) - 1)
          PROVE  q[i] = socket_fd[fifo'[i]]
      <4>1. i \in 1..Len(q) /\ i + 1 \in 1..Len(fifo)
        BY <2>2, <3>2
      <4>2. q[i] = queueBar[i + 1] /\ fifo'[i] = fifo[i + 1]
        BY <3>1, <3>2, <4>1
      <4> QED BY <2>3, <4>1, <4>2
    <3> QED BY <3>2, <3>3, <3>4, <3>5 DEF q
  <2> QED BY <1>2, <2>4, <2>6, <2>7, <2>8, <2>9 DEF Fifo!Take
<1> QED BY <1>5, <1>6

\* The worker's free of its entry is Return.
LEMMA ReleaseReturns ==
    ASSUME IInv, NEW g \in Getters, Release(g)
    PROVE  Fifo!Return(g)
<1>1. /\ get_pc[g] = "got"
      /\ socket_fd' = [e \in Entries |-> IF e = head[g] THEN NULL
                                         ELSE socket_fd[e]]
      /\ head' = [head EXCEPT ![g] = NULL]
      /\ get_pc' = [get_pc EXCEPT ![g] = "idle"]
      /\ UNCHANGED <<queue_out, insert_pc, entry, fifo>>
  BY DEF Release, root, inserterVars, history
<1>2. \A e \in Entries : e # head[g] => socket_fd'[e] = socket_fd[e]
  BY <1>1
<1>3. answerBar[g] \in {"empty", "socket"}
  BY <1>1 DEF answerBar, Answered
<1>4. answerBar' = [answerBar EXCEPT ![g] = "idle"]
  BY <1>1 DEF answerBar, Answered, IInv, TypeOK
<1>5. takenBar' = [takenBar EXCEPT ![g] = NULL]
  <2>1. \A h \in Getters :
           h # g /\ get_pc[h] \in {"unlock", "got"} /\ head[h] # NULL
              => head[h] \in Entries /\ head[h] # head[g]
    BY <1>1 DEF IInv, TypeOK, EntryHasOneOwner, Taken, Pointer
  <2> QED BY <1>1, <1>2, <2>1 DEF takenBar, IInv, TypeOK
<1>6. UNCHANGED queueBar
  <2>1. \A i \in 1..Len(fifo) : fifo[i] \in Entries /\ fifo[i] # head[g]
    BY <1>1, LenProperties, ElementOfSeq
       DEF IInv, TypeOK, EntryHasOneOwner, Taken, Queued
  <2>2. \A i \in 1..Len(fifo) : socket_fd'[fifo[i]] = socket_fd[fifo[i]]
    BY <1>2, <2>1
  <2> QED BY <1>1, <2>2 DEF queueBar
<1>7. UNCHANGED offeredBar
  <2>1. \A p \in Inserters : insert_pc[p] # "idle" =>
           entry[p] \in Entries /\ entry[p] # head[g]
    BY <1>1 DEF IInv, TypeOK, ThreadsInStep, EntryHasOneOwner, Inserting,
                Taken, Pointer
  <2> QED BY <1>1, <1>2, <2>1 DEF offeredBar
<1> QED BY <1>3, <1>4, <1>5, <1>6, <1>7 DEF Fifo!Return

\* Every step of the linked lists is a step of the abstract queue, or leaves
\* it as it is.
LEMMA StepSimulates ==
    ASSUME IInv, SocketKnown, IInv', SocketKnown', [Next]_vars
    PROVE  [Fifo!Next]_Fifo!vars
<1>1. ASSUME NEW p \in Inserters, NEW e \in Entries, NEW s \in Sockets,
             NEW v \in Pointer, NewEntry(p, e, s, v)
      PROVE  Fifo!Next
  BY <1>1, NewEntryOffers DEF Fifo!Next
<1>2. ASSUME NEW p \in Inserters, InsertStep(p)
      PROVE  [Fifo!Next]_Fifo!vars
  <2>1. ReadIn(p) => UNCHANGED <<fifo, socket_fd>>
    BY DEF ReadIn, history
  <2> QED BY <1>2, <2>1, CasInInserts, StutteringSteps
          DEF InsertStep, Fifo!Next
<1>3. ASSUME NEW g \in Getters, GetStep(g)
      PROVE  [Fifo!Next]_Fifo!vars
  <2>1. CheckOut(g) \/ ReadHead(g) \/ Move(g) \/ Unlock(g)
           => UNCHANGED <<fifo, socket_fd>>
    BY DEF CheckOut, ReadHead, Move, Unlock, history
  <2>2. CASE CheckOut(g) \/ ReadHead(g) \/ Move(g) \/ Unlock(g)
    BY <2>1, <2>2, StutteringSteps
  <2>3. CASE Lock(g) \/ Detach(g) \/ Pop(g) \/ Release(g)
    BY <2>3, LockCalls, DetachFindsEmpty, PopTakes, ReleaseReturns
       DEF Fifo!Next
  <2> QED BY <1>3, <2>2, <2>3 DEF GetStep
<1>4. CASE UNCHANGED vars
  BY <1>4 DEF vars, root, inserterVars, getterVars, history, Fifo!vars,
              queueBar, offeredBar, answerBar, Answered, takenBar
<1> QED BY <1>1, <1>2, <1>3, <1>4 DEF Next

\* comm_queue_insert and comm_queue_get implement a FIFO queue: each takes
\* effect at one instant, a get returns the oldest connection, and it returns
\* NULL only if the queue is empty at that instant.
THEOREM QueueImplementsFifo == Spec => ImplementsFifo
<1>1. Init => Fifo!Init
  <2> SUFFICES ASSUME Init PROVE Fifo!Init
    OBVIOUS
  <2>1. IInv /\ SocketKnown /\ Len(fifo) = 0
    BY InitIInv, EmptySeq DEF Init, SocketKnown
  <2>2. queueBar = << >>
    BY <2>1, QueueBar, EmptySeq
  <2> QED BY <2>2 DEF Init, Fifo!Init, offeredBar, answerBar, takenBar
<1>2. Init => SocketKnown
  BY DEF Init, SocketKnown
<1>3. IInv /\ SocketKnown /\ [Next]_vars => SocketKnown'
  BY SocketStep
<1>4. IInv /\ SocketKnown /\ IInv' /\ SocketKnown' /\ [Next]_vars
         => [Fifo!Next]_Fifo!vars
  BY StepSimulates
<1> QED
  BY <1>1, <1>2, <1>3, <1>4, InductiveInvariant, PTL
     DEF Spec, ImplementsFifo, Fifo!Spec
=============================================================================
