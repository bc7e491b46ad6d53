---------------------------- MODULE CommWorkQueue ----------------------------
(***************************************************************************)
(* comm_work_queue.c at the level of its memory accesses: the hand-off of  *)
(* accepted sockets from the acceptor thread to the worker threads.        *)
(*                                                                         *)
(* comm_queue_insert pushes on the list queue_in with a compare-and-swap   *)
(* and takes no lock.  comm_queue_get pops the list queue_out under the    *)
(* mutex; when queue_out is empty it detaches the whole of queue_in with a *)
(* compare-and-swap and reverses it, entry by entry, onto queue_out.       *)
(*                                                                         *)
(* Entries are addresses: the acceptor mallocs one per connection and the  *)
(* worker that gets it frees it, so an address comes back while another    *)
(* thread may still hold a stale copy of it.                               *)
(*                                                                         *)
(* fifo, moving and ready are history variables that no guard reads: the   *)
(* queue's entries in the order their inserts took effect, and how many of *)
(* the oldest are being moved and are on queue_out.                        *)
(***************************************************************************)
EXTENDS Naturals, Sequences

CONSTANTS Inserters,   \* threads that insert (the acceptor of each server)
          Getters,     \* threads that get (the workers)
          Entries,     \* addresses malloc can return
          Sockets,     \* socket descriptors
          NULL

ASSUME NULLAssumption ==
    NULL \notin Entries \cup Sockets \cup Inserters \cup Getters

VARIABLES queue_in, queue_out,   \* root->queue_in, root->queue_out
          lock,                  \* the getter that holds root->lock, or NULL
          next, socket_fd,       \* the fields of each entry
          allocated,             \* the entries malloc has handed out
          insert_pc, entry, in_queue,   \* each inserter: pc and locals
          get_pc, head,                 \* each getter: pc and local
          fifo, moving, ready           \* history variables

root == <<queue_in, queue_out, lock>>
inserterVars == <<insert_pc, entry, in_queue>>
getterVars == <<get_pc, head>>
history == <<fifo, moving, ready>>
vars == <<root, next, socket_fd, allocated, inserterVars, getterVars, history>>

Pointer == Entries \cup {NULL}
InsertPcs == {"idle", "read", "cas"}
GetPcs == {"idle", "check", "read", "swap", "move", "pop", "unlock", "got"}

\* The pcs between pthread_mutex_lock and pthread_mutex_unlock.
Locked == {"check", "read", "swap", "move", "pop", "unlock"}

\* The entries a thread owns on its own: not yet inserted, or already taken.
Inserting(p, e) == insert_pc[p] # "idle" /\ entry[p] = e
Taken(g, e) == get_pc[g] \in {"unlock", "got"} /\ head[g] = e
Queued(e) == \E i \in 1..Len(fifo) : fifo[i] = e

Init ==
    /\ queue_in = NULL
    /\ queue_out = NULL
    /\ lock = NULL
    /\ next = [e \in Entries |-> NULL]
    /\ socket_fd = [e \in Entries |-> NULL]
    /\ allocated = {}
    /\ insert_pc = [p \in Inserters |-> "idle"]
    /\ entry = [p \in Inserters |-> NULL]
    /\ in_queue = [p \in Inserters |-> NULL]
    /\ get_pc = [g \in Getters |-> "idle"]
    /\ head = [g \in Getters |-> NULL]
    /\ fifo = << >>
    /\ moving = 0
    /\ ready = 0

-----------------------------------------------------------------------------
(* comm_queue_insert, called by comm_serv_thread                           *)

\* The acceptor has a new socket s and mallocs an entry for it.  Its memset
\* of sizeof(pointer) bytes leaves entry->next as malloc returned it: any
\* value v.  An fd number is not handed out while it is open.
NewEntry(p, e, s, v) ==
    /\ insert_pc[p] = "idle"
    /\ e \notin allocated
    /\ s \notin {socket_fd[f] : f \in allocated}
    /\ allocated' = allocated \cup {e}
    /\ socket_fd' = [socket_fd EXCEPT ![e] = s]
    /\ next' = [next EXCEPT ![e] = v]
    /\ entry' = [entry EXCEPT ![p] = e]
    /\ insert_pc' = [insert_pc EXCEPT ![p] = "read"]
    /\ UNCHANGED <<root, in_queue, getterVars, history>>

\* in_queue = root->queue_in; entry->next = in_queue (a private store)
ReadIn(p) ==
    /\ insert_pc[p] = "read"
    /\ in_queue' = [in_queue EXCEPT ![p] = queue_in]
    /\ next' = [next EXCEPT ![entry[p]] = queue_in]
    /\ insert_pc' = [insert_pc EXCEPT ![p] = "cas"]
    /\ UNCHANGED <<root, socket_fd, allocated, entry, getterVars, history>>

\* Mutant of CasIn: a plain store in place of the compare-and-swap.
StoreIn(p) ==
    /\ insert_pc[p] = "cas"
    /\ queue_in' = entry[p]
    /\ fifo' = Append(fifo, entry[p])
    /\ insert_pc' = [insert_pc EXCEPT ![p] = "idle"]
    /\ entry' = [entry EXCEPT ![p] = NULL]
    /\ UNCHANGED <<queue_out, lock, next, socket_fd, allocated, in_queue,
                   getterVars, moving, ready>>

\* Mutant of CasIn: queue_in is read once, before the loop, so that a failed
\* compare-and-swap is retried with the stale value.
CasInStale(p) ==
    /\ insert_pc[p] = "cas"
    /\ \/ /\ queue_in = in_queue[p]
          /\ queue_in' = entry[p]
          /\ fifo' = Append(fifo, entry[p])
          /\ insert_pc' = [insert_pc EXCEPT ![p] = "idle"]
          /\ entry' = [entry EXCEPT ![p] = NULL]
       \/ /\ queue_in # in_queue[p]
          /\ UNCHANGED <<queue_in, fifo, insert_pc, entry>>
    /\ UNCHANGED <<queue_out, lock, next, socket_fd, allocated, in_queue,
                   getterVars, moving, ready>>

\* __sync_bool_compare_and_swap(&root->queue_in, in_queue, entry): the entry
\* is inserted, or the loop goes round.
CasIn(p) ==
    /\ insert_pc[p] = "cas"
    /\ \/ /\ queue_in = in_queue[p]
          /\ queue_in' = entry[p]
          /\ fifo' = Append(fifo, entry[p])
          /\ insert_pc' = [insert_pc EXCEPT ![p] = "idle"]
          /\ entry' = [entry EXCEPT ![p] = NULL]
       \/ /\ queue_in # in_queue[p]
          /\ insert_pc' = [insert_pc EXCEPT ![p] = "read"]
          /\ UNCHANGED <<queue_in, fifo, entry>>
    /\ UNCHANGED <<queue_out, lock, next, socket_fd, allocated, in_queue,
                   getterVars, moving, ready>>

-----------------------------------------------------------------------------
(* comm_queue_get, called by comm_worker_run                               *)

\* Mutant of Lock: the mutex is not taken.
EnterUnlocked(g) ==
    /\ get_pc[g] = "idle"
    /\ lock' = g
    /\ head' = [head EXCEPT ![g] = NULL]
    /\ get_pc' = [get_pc EXCEPT ![g] = "check"]
    /\ UNCHANGED <<queue_in, queue_out, next, socket_fd, allocated,
                   inserterVars, history>>

\* The call: head = NULL, then pthread_mutex_lock(&root->lock).
Lock(g) ==
    /\ get_pc[g] = "idle"
    /\ lock = NULL
    /\ lock' = g
    /\ head' = [head EXCEPT ![g] = NULL]
    /\ get_pc' = [get_pc EXCEPT ![g] = "check"]
    /\ UNCHANGED <<queue_in, queue_out, next, socket_fd, allocated,
                   inserterVars, history>>

\* Mutant of CheckOut: the test is negated, so queue_in is never detached.
CheckOutNegated(g) ==
    /\ get_pc[g] = "check"
    /\ get_pc' = [get_pc EXCEPT ![g] =
                    IF queue_out = NULL THEN "pop" ELSE "read"]
    /\ UNCHANGED <<root, next, socket_fd, allocated, inserterVars, head,
                   history>>

\* if(!root->queue_out)
CheckOut(g) ==
    /\ get_pc[g] = "check"
    /\ get_pc' = [get_pc EXCEPT ![g] =
                    IF queue_out = NULL THEN "read" ELSE "pop"]
    /\ UNCHANGED <<root, next, socket_fd, allocated, inserterVars, head,
                   history>>

\* head = root->queue_in
ReadHead(g) ==
    /\ get_pc[g] = "read"
    /\ head' = [head EXCEPT ![g] = queue_in]
    /\ get_pc' = [get_pc EXCEPT ![g] = "swap"]
    /\ UNCHANGED <<root, next, socket_fd, allocated, inserterVars, history>>

\* __sync_bool_compare_and_swap(&root->queue_in, head, NULL): the whole list
\* is detached, or the loop goes round.  while(head) ends at once on NULL.
Detach(g) ==
    /\ get_pc[g] = "swap"
    /\ \/ /\ queue_in = head[g]
          /\ queue_in' = NULL
          /\ moving' = Len(fifo)
          /\ get_pc' = [get_pc EXCEPT ![g] =
                          IF head[g] = NULL THEN "pop" ELSE "move"]
       \/ /\ queue_in # head[g]
          /\ get_pc' = [get_pc EXCEPT ![g] = "read"]
          /\ UNCHANGED <<queue_in, moving>>
    /\ UNCHANGED <<queue_out, lock, next, socket_fd, allocated, inserterVars,
                   head, fifo, ready>>

\* Mutant of Move: the detached list is put on queue_out as it is, newest
\* entry first.
MoveUnreversed(g) ==
    /\ get_pc[g] = "move"
    /\ queue_out' = head[g]
    /\ head' = [head EXCEPT ![g] = NULL]
    /\ get_pc' = [get_pc EXCEPT ![g] = "pop"]
    /\ moving' = 0
    /\ ready' = ready + moving
    /\ UNCHANGED <<queue_in, lock, next, socket_fd, allocated, inserterVars,
                   fifo>>

\* One iteration of while(head): next = head->next;
\* head->next = root->queue_out; root->queue_out = head; head = next.
Move(g) ==
    /\ get_pc[g] = "move"
    /\ next' = [next EXCEPT ![head[g]] = queue_out]
    /\ queue_out' = head[g]
    /\ head' = [head EXCEPT ![g] = next[head[g]]]
    /\ get_pc' = [get_pc EXCEPT ![g] =
                    IF next[head[g]] = NULL THEN "pop" ELSE "move"]
    /\ moving' = moving - 1
    /\ ready' = ready + 1
    /\ UNCHANGED <<queue_in, lock, socket_fd, allocated, inserterVars, fifo>>

\* if(root->queue_out) { head = root->queue_out; root->queue_out = head->next }
Pop(g) ==
    /\ get_pc[g] = "pop"
    /\ \/ /\ queue_out # NULL
          /\ head' = [head EXCEPT ![g] = queue_out]
          /\ queue_out' = next[queue_out]
          /\ fifo' = Tail(fifo)
          /\ ready' = ready - 1
       \/ /\ queue_out = NULL
          /\ UNCHANGED <<head, queue_out, fifo, ready>>
    /\ get_pc' = [get_pc EXCEPT ![g] = "unlock"]
    /\ UNCHANGED <<queue_in, lock, next, socket_fd, allocated, inserterVars,
                   moving>>

\* pthread_mutex_unlock(&root->lock); return head
Unlock(g) ==
    /\ get_pc[g] = "unlock"
    /\ lock' = NULL
    /\ get_pc' = [get_pc EXCEPT ![g] = "got"]
    /\ UNCHANGED <<queue_in, queue_out, next, socket_fd, allocated,
                   inserterVars, head, history>>

\* The worker has used queue_entry->socket_fd and frees the entry, on the
\* path where epoll_ctl failed as on the other.  free clobbers the entry's
\* fields: NULL stands for what they hold until malloc returns it again.
Release(g) ==
    /\ get_pc[g] = "got"
    /\ allocated' = allocated \ {head[g]}
    /\ next' = [e \in Entries |-> IF e = head[g] THEN NULL ELSE next[e]]
    /\ socket_fd' =
          [e \in Entries |-> IF e = head[g] THEN NULL ELSE socket_fd[e]]
    /\ head' = [head EXCEPT ![g] = NULL]
    /\ get_pc' = [get_pc EXCEPT ![g] = "idle"]
    /\ UNCHANGED <<root, inserterVars, history>>

-----------------------------------------------------------------------------

InsertStep(p) == ReadIn(p) \/ CasIn(p)

GetStep(g) ==
    \/ Lock(g) \/ CheckOut(g) \/ ReadHead(g) \/ Detach(g)
    \/ Move(g) \/ Pop(g) \/ Unlock(g) \/ Release(g)

Next ==
    \/ \E p \in Inserters :
          \/ \E e \in Entries, s \in Sockets, v \in Pointer :
                NewEntry(p, e, s, v)
          \/ InsertStep(p)
    \/ \E g \in Getters : GetStep(g)

Spec == Init /\ [][Next]_vars

\* Every thread inside a call keeps being scheduled, and a worker calls
\* comm_queue_get again and again (it does whenever its turn comes round).
Fairness ==
    /\ \A p \in Inserters : WF_vars(InsertStep(p))
    /\ \A g \in Getters : WF_vars(GetStep(g))

FairSpec == Spec /\ Fairness

-----------------------------------------------------------------------------
(* Properties                                                              *)

\* Type invariant: what each variable of comm_queue_t, of its entries and of
\* the threads' locals can hold.
TypeOK ==
    /\ queue_in \in Pointer
    /\ queue_out \in Pointer
    /\ lock \in Getters \cup {NULL}
    /\ next \in [Entries -> Pointer]
    /\ socket_fd \in [Entries -> Sockets \cup {NULL}]
    /\ allocated \in SUBSET Entries
    /\ insert_pc \in [Inserters -> InsertPcs]
    /\ entry \in [Inserters -> Pointer]
    /\ in_queue \in [Inserters -> Pointer]
    /\ get_pc \in [Getters -> GetPcs]
    /\ head \in [Getters -> Pointer]
    /\ fifo \in Seq(Entries)
    /\ moving \in Nat
    /\ ready \in Nat

\* queue_out links the ready entries, oldest first.
OutRep ==
    /\ queue_out = IF ready = 0 THEN NULL ELSE fifo[moving + 1]
    /\ \A i \in (moving + 1)..(moving + ready) :
          next[fifo[i]] = IF i = moving + ready THEN NULL ELSE fifo[i + 1]

\* queue_in links the entries not yet detached, newest first.
InRep ==
    /\ queue_in = IF Len(fifo) = moving + ready THEN NULL ELSE fifo[Len(fifo)]
    /\ \A i \in (moving + ready + 1)..Len(fifo) :
          next[fifo[i]] = IF i = moving + ready + 1 THEN NULL ELSE fifo[i - 1]

\* The list a getter has detached and not yet moved, newest first.
MoveRep ==
    /\ \A i \in 1..moving :
          next[fifo[i]] = IF i = 1 THEN NULL ELSE fifo[i - 1]
    /\ \A g \in Getters :
          get_pc[g] = "move" => moving > 0 /\ head[g] = fifo[moving]
    /\ moving > 0 => \E g \in Getters : get_pc[g] = "move"

\* The two linked lists, and the list in transit between them, hold exactly
\* the queued entries, each once, in the order their inserts took effect:
\* no interleaving of pushes, detaches and moves, and no reuse of a freed
\* address, loses, duplicates or reorders a connection.
ListsRepresentQueue ==
    /\ moving + ready <= Len(fifo)
    /\ \A i, j \in 1..Len(fifo) : fifo[i] = fifo[j] => i = j
    /\ OutRep
    /\ InRep
    /\ MoveRep

\* Every entry that malloc returned is owned by exactly one thread or by the
\* queue until it is freed: none leaks, none is freed twice, none is used
\* after it is freed (two threads never own the same one).
EntryHasOneOwner ==
    \A e \in Entries :
        /\ e \in allocated <=> \/ \E p \in Inserters : Inserting(p, e)
                              \/ Queued(e)
                              \/ \E g \in Getters : Taken(g, e)
        /\ \A p, q \in Inserters : Inserting(p, e) /\ Inserting(q, e) => p = q
        /\ \A g, h \in Getters : Taken(g, e) /\ Taken(h, e) => g = h
        /\ \A p \in Inserters : Inserting(p, e) => ~ Queued(e)
        /\ \A g \in Getters : Taken(g, e) => ~ Queued(e)
        /\ \A p \in Inserters, g \in Getters :
              Inserting(p, e) => ~ Taken(g, e)

\* The threads' locals agree with the memory: the mutex is held by the getter
\* inside it; the entry being inserted is the inserter's own and still links
\* to what the inserter read; nothing is left to move or to return when a
\* getter goes to queue_in; and comm_queue_get returns NULL if it found
\* nothing.
ThreadsInStep ==
    /\ \A p \in Inserters :
          /\ insert_pc[p] # "idle" => entry[p] # NULL
          /\ insert_pc[p] = "cas" => next[entry[p]] = in_queue[p]
    /\ \A g \in Getters :
          /\ lock = g <=> get_pc[g] \in Locked
          /\ get_pc[g] \in {"read", "swap"} => ready = 0
          /\ get_pc[g] = "pop" /\ ready = 0 => head[g] = NULL

\* The inductive invariant.
IInv == TypeOK /\ ListsRepresentQueue /\ EntryHasOneOwner /\ ThreadsInStep

\* A get has taken effect: it has popped, or found nothing to pop.
Answered(g) ==
    get_pc[g] \in {"unlock", "got"} \/ (get_pc[g] = "pop" /\ queue_out = NULL)

\* What comm_queue_t promises: the queue, each inserter's socket and each
\* getter's answer, read off the memory.
answerBar ==
    [g \in Getters |->
        IF get_pc[g] = "idle" THEN "idle"
        ELSE IF ~ Answered(g) THEN "called"
        ELSE IF get_pc[g] = "pop" \/ head[g] = NULL THEN "empty"
        ELSE "socket"]

takenBar ==
    [g \in Getters |->
        IF get_pc[g] \in {"unlock", "got"} /\ head[g] # NULL
        THEN socket_fd[head[g]] ELSE NULL]

offeredBar ==
    [p \in Inserters |->
        IF insert_pc[p] = "idle" THEN NULL ELSE socket_fd[entry[p]]]

queueBar == [i \in 1..Len(fifo) |-> socket_fd[fifo[i]]]

Fifo == INSTANCE FifoQueue WITH
            queue <- queueBar, offered <- offeredBar,
            answer <- answerBar, taken <- takenBar

\* comm_queue_insert and comm_queue_get implement a FIFO queue: each takes
\* effect at one instant, a get returns the oldest connection, and it
\* returns NULL only if the queue is empty at that instant.
ImplementsFifo == Fifo!Spec

\* comm_queue_insert returns: its compare-and-swap loop ends, whatever the
\* workers do (with a single inserter, as in a server).
EveryInsertReturns ==
    \A p \in Inserters : insert_pc[p] = "cas" ~> insert_pc[p] = "idle"

\* No connection stays in the queue forever while workers keep asking.
EveryEntryTaken ==
    \A e \in Entries : Queued(e) ~> ~ Queued(e)
=============================================================================
