------------------------------ MODULE FifoQueue ------------------------------
(***************************************************************************)
(* What a comm_queue_t promises to the threads that share it: it is a FIFO *)
(* queue of accepted sockets on which comm_queue_insert and comm_queue_get *)
(* each take effect at one instant between their call and their return.    *)
(*                                                                         *)
(* A get answers "empty" only if the queue is empty at the instant it      *)
(* takes effect.  CommWorkQueue implements this specification.             *)
(***************************************************************************)
EXTENDS Sequences

CONSTANTS Inserters,   \* threads that call comm_queue_insert
          Getters,     \* threads that call comm_queue_get
          Sockets,     \* socket descriptors the queue carries
          NULL         \* no socket

VARIABLES queue,       \* the sockets queued, oldest first
          offered,     \* the socket each inserter is inserting, or NULL
          answer,      \* how far each getter's call is
          taken        \* the socket a getter's call has obtained, or NULL

vars == <<queue, offered, answer, taken>>

Answers == {"idle", "called", "empty", "socket"}

Init ==
    /\ queue = << >>
    /\ offered = [p \in Inserters |-> NULL]
    /\ answer = [g \in Getters |-> "idle"]
    /\ taken = [g \in Getters |-> NULL]

-----------------------------------------------------------------------------

\* An inserter calls comm_queue_insert with socket s.
Offer(p, s) ==
    /\ offered[p] = NULL
    /\ offered' = [offered EXCEPT ![p] = s]
    /\ UNCHANGED <<queue, answer, taken>>

\* The insert takes effect: its socket is the youngest of the queue.
Insert(p) ==
    /\ offered[p] # NULL
    /\ queue' = Append(queue, offered[p])
    /\ offered' = [offered EXCEPT ![p] = NULL]
    /\ UNCHANGED <<answer, taken>>

\* A getter calls comm_queue_get.
Call(g) ==
    /\ answer[g] = "idle"
    /\ answer' = [answer EXCEPT ![g] = "called"]
    /\ UNCHANGED <<queue, offered, taken>>

\* The get takes effect on a non-empty queue: it removes the oldest socket.
Take(g) ==
    /\ answer[g] = "called"
    /\ queue # << >>
    /\ queue' = Tail(queue)
    /\ answer' = [answer EXCEPT ![g] = "socket"]
    /\ taken' = [taken EXCEPT ![g] = Head(queue)]
    /\ UNCHANGED offered

\* The get takes effect on an empty queue.
FindEmpty(g) ==
    /\ answer[g] = "called"
    /\ queue = << >>
    /\ answer' = [answer EXCEPT ![g] = "empty"]
    /\ UNCHANGED <<queue, offered, taken>>

\* The caller is done with the answer.
Return(g) ==
    /\ answer[g] \in {"empty", "socket"}
    /\ answer' = [answer EXCEPT ![g] = "idle"]
    /\ taken' = [taken EXCEPT ![g] = NULL]
    /\ UNCHANGED <<queue, offered>>

Next ==
    \/ \E p \in Inserters : Insert(p) \/ \E s \in Sockets : Offer(p, s)
    \/ \E g \in Getters : Call(g) \/ Take(g) \/ FindEmpty(g) \/ Return(g)

Spec == Init /\ [][Next]_vars
=============================================================================
