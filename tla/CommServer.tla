------------------------------ MODULE CommServer ------------------------------
(***************************************************************************)
(* comm_server.c: one server, from comm_server_init to the reply.          *)
(*                                                                         *)
(* The acceptor thread (comm_serv_thread) accepts connections and inserts  *)
(* their sockets in the work queue.  The workers (comm_worker_run) pass a  *)
(* turn round, cur_worker_index; the worker whose turn it is gets at most  *)
(* one socket from the queue and registers it, edge-triggered, with its    *)
(* own epoll instance.  Between turns a worker polls its sockets and, for  *)
(* each event, reads one message and calls client_func with it.            *)
(*                                                                         *)
(* The work queue is FifoQueue, which CommWorkQueue implements: an insert  *)
(* and a get are one step each here.  client_func answers with             *)
(* comm_servresp_send before it returns, once per request.                 *)
(*                                                                         *)
(* The kernel (sockets, epoll) and the clients are modelled from how this  *)
(* code uses them.  A connection is named by the client that makes it.  A  *)
(* stream carries units: a header, which tells how many data units follow, *)
(* and the data units.  A read returns one unit, so it may be partial.     *)
(***************************************************************************)
EXTENDS Integers, Sequences, FiniteSets

CONSTANTS Clients,       \* client processes; each makes one connection
          NumFds,        \* descriptors the process has for connections
          num_workers,   \* comm_serv_info_t.num_workers
          MAXEVENTS,     \* events one epoll_wait returns at most
          ipc_type,      \* comm_serv_info_t.ipc_type
          DataLens,      \* the numbers of data units a request may have
          MaxRequests,   \* bound: requests a client sends
          MaxSent,       \* bound: requests that all clients send together
          Pipelining,    \* may a client send before the last answer came?
          Closing,       \* may a client close, or crash?
          Faults,        \* the calls that may fail
          NULL

Fds == 1..NumFds
Workers == 0..(num_workers - 1)
FaultNames == {"pthread_create", "epoll_create1", "epoll_ctl", "epoll_wait",
               "accept"}

ASSUME ParametersAssumption ==
    /\ NumFds \in Nat
    /\ num_workers \in Nat \ {0}
    /\ MAXEVENTS \in Nat \ {0}
    /\ ipc_type \in {"COMM_TCP", "COMM_UNIX"}
    /\ DataLens \subseteq Nat
    /\ MaxRequests \in Nat
    /\ MaxSent \in Nat
    /\ Pipelining \in BOOLEAN
    /\ Closing \in BOOLEAN
    /\ Faults \subseteq FaultNames
    /\ NULL \notin Clients \cup Int

VARIABLES
    \* the clients and their ends of the connections
    client_pc,         \* "new", "idle", "sending", "closed"
    sent, sending,     \* requests begun; the data units of the last to send
    received,          \* the answers the client has read, in order
    \* the kernel
    backlog,           \* connections not yet accepted, oldest first
    listen_event,      \* the listening socket's edge: is an event pending?
    inbox, outbox,     \* the units and the answers in flight, per connection
    reset,             \* connections the peer has reset
    open,              \* the connection each descriptor is open on, or NULL
    epoll, ready,      \* each worker's interest list and ready list
    \* comm_server_init and comm_serv_thread
    created,           \* threads comm_server_init has created
    acceptor_pc, infd,
    comm_queue,        \* the sockets queued for the workers
    cur_worker_index,  \* whose turn it is
    \* comm_worker_run
    worker_pc,
    queue_entry,       \* the socket got from the queue, or NULL
    events,            \* the events left of the last epoll_wait
    comm_msg,          \* the message being read, or NULL
    \* history
    delivered,         \* the requests client_func got, per connection
    leaked             \* descriptors dropped when epoll_ctl failed

clientVars == <<client_pc, sent, sending, received>>
streamVars == <<inbox, outbox, reset>>
serverVars == <<created, acceptor_pc, infd>>
listenVars == <<backlog, listen_event>>
workerVars == <<worker_pc, queue_entry, events, comm_msg>>
epollVars == <<epoll, ready>>
history == <<delivered, leaked>>
vars == <<clientVars, listenVars, streamVars, open, epollVars, serverVars,
          comm_queue, cur_worker_index, workerVars, history>>

WorkerPcs == {"none", "start", "turn", "get", "add", "poll", "events",
              "error_func", "header", "data", "client_func", "exited"}

Units == [seq : 1..MaxRequests, len : DataLens, part : Nat]
Answers == [asker : Clients, seq : 1..MaxRequests]
Events == [fd : Fds, mask : SUBSET {"EPOLLIN", "EPOLLHUP", "EPOLLERR"},
           conn : Clients]
Messages == [conn : Clients, seq : 1..MaxRequests, len : DataLens, count : Nat]

Init ==
    /\ client_pc = [c \in Clients |-> "new"]
    /\ sent = [c \in Clients |-> 0]
    /\ sending = [c \in Clients |-> << >>]
    /\ received = [c \in Clients |-> << >>]
    /\ backlog = << >>
    /\ listen_event = FALSE
    /\ inbox = [c \in Clients |-> << >>]
    /\ outbox = [c \in Clients |-> << >>]
    /\ reset = {}
    /\ open = [f \in Fds |-> NULL]
    /\ epoll = [w \in Workers |-> {}]
    /\ ready = [w \in Workers |-> << >>]
    /\ created = 0
    /\ acceptor_pc = "none"
    /\ infd = NULL
    /\ comm_queue = << >>
    /\ cur_worker_index = 0
    /\ worker_pc = [w \in Workers |-> "none"]
    /\ queue_entry = [w \in Workers |-> NULL]
    /\ events = [w \in Workers |-> << >>]
    /\ comm_msg = [w \in Workers |-> NULL]
    /\ delivered = [c \in Clients |-> << >>]
    /\ leaked = {}

-----------------------------------------------------------------------------
(* The kernel                                                              *)

InList(f, list) == \E i \in 1..Len(list) : list[i] = f

\* What epoll reports of a descriptor: EPOLLIN if a read would not block.
\* A Unix socket whose peer has closed is hung up; a TCP one is only when
\* the connection was reset.
Mask(c) ==
    {m \in {"EPOLLIN", "EPOLLHUP", "EPOLLERR"} :
        \/ m = "EPOLLIN" /\ (inbox[c] # << >> \/ client_pc[c] = "closed")
        \/ m = "EPOLLHUP" /\ client_pc[c] = "closed" /\ ipc_type = "COMM_UNIX"
        \/ m # "EPOLLIN" /\ c \in reset}

\* A read on a descriptor of connection c returns data; the peer is there.
\* NULL stands for a descriptor that is not open.
Readable(c) == c # NULL /\ inbox[c] # << >>
PeerOpen(c) == c # NULL /\ client_pc[c] # "closed"

\* Something happened on connection c: its descriptor joins the ready list
\* of the epoll instance it is registered with, if it is not there already.
Wake(c) ==
    ready' = [w \in Workers |->
                LET woken == {f \in epoll[w] :
                                open[f] = c /\ ~ InList(f, ready[w])}
                IN  IF woken = {} THEN ready[w]
                    ELSE Append(ready[w], CHOOSE f \in woken : TRUE)]

\* A ready list, on which a descriptor is once at most, without f.
Without(list, f) ==
    IF ~ InList(f, list) THEN list
    ELSE LET i == CHOOSE i \in 1..Len(list) : list[i] = f
         IN  SubSeq(list, 1, i - 1) \o SubSeq(list, i + 1, Len(list))

\* The lowest free descriptor, as accept returns.
FreeFds == {f \in Fds : open[f] = NULL}
LowestFd == CHOOSE f \in FreeFds : \A g \in FreeFds : f <= g

-----------------------------------------------------------------------------
(* The clients: comm_client_init, _send, _wait and _finish                 *)

Connect(c) ==
    /\ client_pc[c] = "new"
    /\ acceptor_pc # "none"
    /\ client_pc' = [client_pc EXCEPT ![c] = "idle"]
    /\ backlog' = Append(backlog, c)
    /\ listen_event' = TRUE
    /\ UNCHANGED <<sent, sending, received, streamVars, open, epollVars,
                   serverVars, comm_queue, cur_worker_index, workerVars,
                   history>>

\* The requests of all clients so far.
RequestsSent ==
    Cardinality({r \in Clients \X (1..MaxRequests) : r[2] <= sent[r[1]]})

\* A client sends a request: its header now, its data units later.  A client
\* that does not pipeline waits for each answer before the next request.
SendHeader(c) ==
    /\ client_pc[c] = "idle"
    /\ sent[c] < MaxRequests
    /\ RequestsSent < MaxSent
    /\ Pipelining \/ Len(received[c]) = sent[c]
    /\ \E len \in DataLens :
          LET unit(i) == [seq |-> sent[c] + 1, len |-> len, part |-> i]
          IN  /\ inbox' = [inbox EXCEPT ![c] = Append(@, unit(0))]
              /\ sending' = [sending EXCEPT ![c] =
                                [i \in 1..len |-> unit(i)]]
              /\ client_pc' = [client_pc EXCEPT ![c] =
                                  IF len = 0 THEN "idle" ELSE "sending"]
    /\ sent' = [sent EXCEPT ![c] = @ + 1]
    /\ Wake(c)
    /\ UNCHANGED <<received, listenVars, outbox, reset, open, epoll,
                   serverVars, comm_queue, cur_worker_index, workerVars,
                   history>>

SendData(c) ==
    /\ client_pc[c] = "sending"
    /\ inbox' = [inbox EXCEPT ![c] = Append(@, Head(sending[c]))]
    /\ sending' = [sending EXCEPT ![c] = Tail(@)]
    /\ client_pc' = [client_pc EXCEPT ![c] =
                        IF Len(sending[c]) = 1 THEN "idle" ELSE "sending"]
    /\ Wake(c)
    /\ UNCHANGED <<sent, received, listenVars, outbox, reset, open, epoll,
                   serverVars, comm_queue, cur_worker_index, workerVars,
                   history>>

Receive(c) ==
    /\ client_pc[c] = "idle"
    /\ outbox[c] # << >>
    /\ outbox' = [outbox EXCEPT ![c] = Tail(@)]
    /\ received' = [received EXCEPT ![c] = Append(@, Head(outbox[c]))]
    /\ UNCHANGED <<client_pc, sent, sending, listenVars, inbox, reset, open,
                   epollVars, serverVars, comm_queue, cur_worker_index,
                   workerVars, history>>

\* The client closes, or its process ends, possibly in the middle of a
\* request.  Closing with unread answers resets the connection.
Close(c) ==
    /\ Closing
    /\ client_pc[c] \in {"idle", "sending"}
    /\ client_pc' = [client_pc EXCEPT ![c] = "closed"]
    /\ sending' = [sending EXCEPT ![c] = << >>]
    /\ outbox' = [outbox EXCEPT ![c] = << >>]
    /\ reset' = IF outbox[c] = << >> THEN reset ELSE reset \cup {c}
    /\ Wake(c)
    /\ UNCHANGED <<sent, received, listenVars, inbox, open, epoll, serverVars,
                   comm_queue, cur_worker_index, workerVars, history>>

ClientStep(c) ==
    Connect(c) \/ SendHeader(c) \/ SendData(c) \/ Receive(c) \/ Close(c)

-----------------------------------------------------------------------------
(* comm_server_init                                                        *)

\* The loop creates the workers in order, then the acceptor.  It returns at
\* the first pthread_create that fails; what was created keeps running.
CreateThread ==
    /\ created \in 0..num_workers
    /\ \/ /\ created' = created + 1
          /\ worker_pc' = [w \in Workers |->
                              IF w = created THEN "start" ELSE worker_pc[w]]
          /\ acceptor_pc' =
                IF created = num_workers THEN "wait" ELSE acceptor_pc
       \/ /\ "pthread_create" \in Faults
          /\ created' = -1
          /\ UNCHANGED <<worker_pc, acceptor_pc>>
    /\ UNCHANGED <<clientVars, listenVars, streamVars, open, epollVars, infd,
                   comm_queue, cur_worker_index, queue_entry, events,
                   comm_msg, history>>

-----------------------------------------------------------------------------
(* comm_serv_thread: the event loop of the acceptor                        *)

acceptorUnchanged ==
    UNCHANGED <<clientVars, streamVars, epollVars, created, cur_worker_index,
                workerVars, history>>

\* epoll_wait returns the event of the listening socket, once per edge.
AwaitConnection ==
    /\ acceptor_pc = "wait"
    /\ listen_event
    /\ listen_event' = FALSE
    /\ acceptor_pc' = "accept"
    /\ UNCHANGED <<backlog, open, infd, comm_queue>>
    /\ acceptorUnchanged

\* accept returns a new descriptor.
AcceptConnection ==
    /\ acceptor_pc = "accept"
    /\ backlog # << >>
    /\ FreeFds # {}
    /\ infd' = LowestFd
    /\ open' = [open EXCEPT ![LowestFd] = Head(backlog)]
    /\ backlog' = Tail(backlog)
    /\ acceptor_pc' = "insert"
    /\ UNCHANGED <<listen_event, comm_queue>>
    /\ acceptorUnchanged

\* accept fails: with EAGAIN, when every connection was accepted, or with
\* another error, such as EMFILE.  The loop is left in either case.
AcceptFails ==
    /\ acceptor_pc = "accept"
    /\ \/ backlog = << >>
       \/ FreeFds = {}
       \/ "accept" \in Faults
    /\ acceptor_pc' = "wait"
    /\ UNCHANGED <<listenVars, open, infd, comm_queue>>
    /\ acceptorUnchanged

\* Mutant of InsertSocket: one connection is accepted per notification.
InsertLast ==
    /\ acceptor_pc = "insert"
    /\ comm_queue' = Append(comm_queue, infd)
    /\ infd' = NULL
    /\ acceptor_pc' = "wait"
    /\ UNCHANGED <<listenVars, open>>
    /\ acceptorUnchanged

\* comm_queue_insert; the loop goes on to accept the next connection.
InsertSocket ==
    /\ acceptor_pc = "insert"
    /\ comm_queue' = Append(comm_queue, infd)
    /\ infd' = NULL
    /\ acceptor_pc' = "accept"
    /\ UNCHANGED <<listenVars, open>>
    /\ acceptorUnchanged

AcceptorStep ==
    \/ AwaitConnection
    \/ AcceptConnection
    \/ AcceptFails
    \/ InsertSocket

-----------------------------------------------------------------------------
(* comm_worker_run: start, and the turn                                    *)

Goto(w, pc) == worker_pc' = [worker_pc EXCEPT ![w] = pc]

\* epoll_create1 and calloc; if one of them fails the thread ends.
Start(w) ==
    /\ worker_pc[w] = "start"
    /\ \/ Goto(w, "turn")
       \/ "epoll_create1" \in Faults /\ Goto(w, "exited")
    /\ UNCHANGED <<clientVars, listenVars, streamVars, open, epollVars,
                   serverVars, comm_queue, cur_worker_index, queue_entry,
                   events, comm_msg, history>>

\* Mutant of TakeTurn: the increment wraps one too late.
TakeTurnWrapsLate(w) ==
    /\ worker_pc[w] = "turn"
    /\ IF cur_worker_index = w
       THEN /\ cur_worker_index' = (cur_worker_index + 1) % (num_workers + 1)
            /\ Goto(w, "get")
       ELSE /\ UNCHANGED cur_worker_index
            /\ Goto(w, "poll")
    /\ UNCHANGED <<clientVars, listenVars, streamVars, open, epollVars,
                   serverVars, comm_queue, queue_entry, events, comm_msg,
                   history>>

\* comm_get_worker_index: the worker whose turn it is passes the turn on and
\* goes to the queue; another worker goes to its sockets at once.
TakeTurn(w) ==
    /\ worker_pc[w] = "turn"
    /\ IF cur_worker_index = w
       THEN /\ cur_worker_index' = (cur_worker_index + 1) % num_workers
            /\ Goto(w, "get")
       ELSE /\ UNCHANGED cur_worker_index
            /\ Goto(w, "poll")
    /\ UNCHANGED <<clientVars, listenVars, streamVars, open, epollVars,
                   serverVars, comm_queue, queue_entry, events, comm_msg,
                   history>>

\* Mutant of GetSocket: the entry stays in the queue.
GetSocketKeeps(w) ==
    /\ worker_pc[w] = "get"
    /\ IF comm_queue = << >>
       THEN Goto(w, "poll") /\ UNCHANGED queue_entry
       ELSE Goto(w, "add")
            /\ queue_entry' = [queue_entry EXCEPT ![w] = Head(comm_queue)]
    /\ UNCHANGED <<clientVars, listenVars, streamVars, open, epollVars,
                   serverVars, comm_queue, cur_worker_index, events, comm_msg,
                   history>>

\* queue_entry = comm_queue_get(worker_data->comm_queue)
GetSocket(w) ==
    /\ worker_pc[w] = "get"
    /\ IF comm_queue = << >>
       THEN Goto(w, "poll") /\ UNCHANGED <<comm_queue, queue_entry>>
       ELSE /\ Goto(w, "add")
            /\ queue_entry' = [queue_entry EXCEPT ![w] = Head(comm_queue)]
            /\ comm_queue' = Tail(comm_queue)
    /\ UNCHANGED <<clientVars, listenVars, streamVars, open, epollVars,
                   serverVars, cur_worker_index, events, comm_msg, history>>

\* epoll_ctl(EPOLL_CTL_ADD, EPOLLIN | EPOLLET): a descriptor that is readable
\* already is ready at once.  If the call fails the entry is freed, but the
\* socket stays open and no thread knows it any more.
AddSocket(w) ==
    /\ worker_pc[w] = "add"
    /\ LET f == queue_entry[w]
       IN  \/ /\ open[f] # NULL
              /\ epoll' = [epoll EXCEPT ![w] = @ \cup {f}]
              /\ ready' = [ready EXCEPT ![w] =
                              IF Mask(open[f]) = {} THEN @ ELSE Append(@, f)]
              /\ Goto(w, "poll")
              /\ UNCHANGED leaked
           \/ /\ "epoll_ctl" \in Faults
              /\ leaked' = leaked \cup {f}
              /\ Goto(w, "turn")
              /\ UNCHANGED epollVars
    /\ queue_entry' = [queue_entry EXCEPT ![w] = NULL]
    /\ UNCHANGED <<clientVars, listenVars, streamVars, open, serverVars,
                   comm_queue, cur_worker_index, events, comm_msg, delivered>>

-----------------------------------------------------------------------------
(* comm_worker_run: the events                                             *)

\* The numbering of a finite set of integers from the least to the greatest.
Orders(S) ==
    {order \in [1..Cardinality(S) -> S] :
        \A i, j \in 1..Cardinality(S) : i < j => order[i] < order[j]}

EventOf(f) == [fd |-> f, mask |-> Mask(open[f]), conn |-> open[f]]

\* epoll_wait reports, and takes off the ready list, up to MAXEVENTS
\* descriptors, those of them that still have something to report; with
\* nothing ready it times out and returns 0.
Poll(w) ==
    /\ worker_pc[w] = "poll"
    /\ LET n == IF Len(ready[w]) < MAXEVENTS THEN Len(ready[w]) ELSE MAXEVENTS
           reported == {i \in 1..n : Mask(open[ready[w][i]]) # {}}
       IN  /\ \E order \in Orders(reported) :
                 events' = [events EXCEPT ![w] =
                    [i \in 1..Cardinality(reported) |->
                        EventOf(ready[w][order[i]])]]
           /\ ready' = [ready EXCEPT ![w] = SubSeq(@, n + 1, Len(@))]
    /\ Goto(w, "events")
    /\ UNCHANGED <<clientVars, listenVars, streamVars, open, epoll,
                   serverVars, comm_queue, cur_worker_index, queue_entry,
                   comm_msg, history>>

\* epoll_wait returns -1, interrupted by a signal: back to the turn, with the
\* ready list as it is.
PollFails(w) ==
    /\ worker_pc[w] = "poll"
    /\ "epoll_wait" \in Faults
    /\ Goto(w, "turn")
    /\ UNCHANGED <<clientVars, listenVars, streamVars, open, epollVars,
                   serverVars, comm_queue, cur_worker_index, queue_entry,
                   events, comm_msg, history>>

\* The event being handled.
event(w) == Head(events[w])

\* The condition of the error branch.
IsError(e) ==
    {"EPOLLERR", "EPOLLHUP"} \cap e.mask # {} \/ "EPOLLIN" \notin e.mask

\* for(i = 0; i < n; i++) is over: back to the turn.
EventsDone(w) ==
    /\ worker_pc[w] = "events"
    /\ events[w] = << >>
    /\ Goto(w, "turn")
    /\ UNCHANGED <<clientVars, listenVars, streamVars, open, epollVars,
                   serverVars, comm_queue, cur_worker_index, queue_entry,
                   events, comm_msg, history>>

\* The error branch closes the descriptor, which also takes it out of epoll;
\* what the connection still holds is lost.
CloseOnError(w) ==
    /\ worker_pc[w] = "events"
    /\ events[w] # << >>
    /\ IsError(event(w))
    /\ LET f == event(w).fd
           c == open[f]
       IN  /\ open' = [open EXCEPT ![f] = NULL]
           /\ inbox' = [inbox EXCEPT ![c] = << >>]
           /\ epoll' = [v \in Workers |-> epoll[v] \ {f}]
           /\ ready' = [v \in Workers |-> Without(ready[v], f)]
    /\ Goto(w, "error_func")
    /\ UNCHANGED <<clientVars, listenVars, outbox, reset, serverVars,
                   comm_queue, cur_worker_index, queue_entry, events,
                   comm_msg, history>>

\* Mutant of ErrorFunc: the descriptor is closed once more, after the
\* callback as before it.
ErrorFuncCloses(w) ==
    /\ worker_pc[w] = "error_func"
    /\ events' = [events EXCEPT ![w] = Tail(@)]
    /\ LET f == event(w).fd
       IN  /\ open' = [open EXCEPT ![f] = NULL]
           /\ epoll' = [v \in Workers |-> epoll[v] \ {f}]
           /\ ready' = [v \in Workers |-> Without(ready[v], f)]
    /\ Goto(w, "events")
    /\ UNCHANGED <<clientVars, listenVars, streamVars, serverVars, comm_queue,
                   cur_worker_index, queue_entry, comm_msg, history>>

\* error_func is told the descriptor that was just closed.
ErrorFunc(w) ==
    /\ worker_pc[w] = "error_func"
    /\ events' = [events EXCEPT ![w] = Tail(@)]
    /\ Goto(w, "events")
    /\ UNCHANGED <<clientVars, listenVars, streamVars, open, epollVars,
                   serverVars, comm_queue, cur_worker_index, queue_entry,
                   comm_msg, history>>

\* EPOLLIN: start to read a message.
StartMessage(w) ==
    /\ worker_pc[w] = "events"
    /\ events[w] # << >>
    /\ ~ IsError(event(w))
    /\ Goto(w, "header")
    /\ UNCHANGED <<clientVars, listenVars, streamVars, open, epollVars,
                   serverVars, comm_queue, cur_worker_index, queue_entry,
                   events, comm_msg, history>>

\* The header loop has read the header, whose msg_len tells what follows.
ReadHeader(w) ==
    /\ worker_pc[w] = "header"
    /\ LET c == open[event(w).fd]
           unit == Head(inbox[c])
       IN  /\ Readable(c)
           /\ inbox' = [inbox EXCEPT ![c] = Tail(@)]
           /\ comm_msg' = [comm_msg EXCEPT ![w] =
                 [conn |-> c, seq |-> unit.seq, len |-> unit.len, count |-> 0]]
           /\ Goto(w, IF unit.len > 0 THEN "data" ELSE "client_func")
    /\ UNCHANGED <<clientVars, listenVars, outbox, reset, open, epollVars,
                   serverVars, comm_queue, cur_worker_index, queue_entry,
                   events, history>>

\* Mutant of ReadData: one read, whatever it returns.
ReadDataOnce(w) ==
    /\ worker_pc[w] = "data"
    /\ LET c == open[event(w).fd]
       IN  /\ Readable(c)
           /\ inbox' = [inbox EXCEPT ![c] = Tail(@)]
    /\ comm_msg' = [comm_msg EXCEPT ![w].count = @ + 1]
    /\ Goto(w, "client_func")
    /\ UNCHANGED <<clientVars, listenVars, outbox, reset, open, epollVars,
                   serverVars, comm_queue, cur_worker_index, queue_entry,
                   events, history>>

\* One read of the data loop, which goes on until msg_len is reached.
ReadData(w) ==
    /\ worker_pc[w] = "data"
    /\ LET c == open[event(w).fd]
       IN  /\ Readable(c)
           /\ inbox' = [inbox EXCEPT ![c] = Tail(@)]
    /\ comm_msg' = [comm_msg EXCEPT ![w].count = @ + 1]
    /\ Goto(w, IF comm_msg[w].count + 1 = comm_msg[w].len
               THEN "client_func" ELSE "data")
    /\ UNCHANGED <<clientVars, listenVars, outbox, reset, open, epollVars,
                   serverVars, comm_queue, cur_worker_index, queue_entry,
                   events, history>>

\* read returns 0 or an error other than EAGAIN and EINTR, which are retried
\* for as long as they last: the message is freed and goto poll_again leaves
\* the loop over the events, those not yet handled included.
ReadFails(w) ==
    /\ worker_pc[w] \in {"header", "data"}
    /\ LET c == open[event(w).fd]
       IN  ~ Readable(c) /\ ~ PeerOpen(c)
    /\ comm_msg' = [comm_msg EXCEPT ![w] = NULL]
    /\ events' = [events EXCEPT ![w] = << >>]
    /\ Goto(w, "poll")
    /\ UNCHANGED <<clientVars, listenVars, streamVars, open, epollVars,
                   serverVars, comm_queue, cur_worker_index, queue_entry,
                   history>>

\* comm_servresp_send on descriptor f.  A closed TCP peer answers a write
\* with a reset; on a Unix socket the write fails.
SendAnswer(f, answer) ==
    LET c == open[f]
    IN  IF PeerOpen(c)
        THEN /\ outbox' = [outbox EXCEPT ![c] = Append(@, answer)]
             /\ UNCHANGED <<reset, ready>>
        ELSE /\ UNCHANGED outbox
             /\ IF ipc_type = "COMM_TCP" /\ c \notin reset
                THEN reset' = reset \cup {c} /\ Wake(c)
                ELSE UNCHANGED <<reset, ready>>

\* What client_func does with the message: it is delivered, and answered on
\* descriptor f.
Deliver(w, f) ==
    LET msg == comm_msg[w]
    IN  /\ delivered' = [delivered EXCEPT ![msg.conn] = Append(@, msg.seq)]
        /\ SendAnswer(f, [asker |-> msg.conn, seq |-> msg.seq])
        /\ comm_msg' = [comm_msg EXCEPT ![w] = NULL]
        /\ UNCHANGED <<clientVars, listenVars, inbox, open, epoll,
                       serverVars, comm_queue, cur_worker_index, queue_entry,
                       leaked>>

\* Mutant of ClientFunc: the message carries the descriptor of the last
\* event of the batch.
ClientFuncLastFd(w) ==
    /\ worker_pc[w] = "client_func"
    /\ Deliver(w, events[w][Len(events[w])].fd)
    /\ events' = [events EXCEPT ![w] = Tail(@)]
    /\ Goto(w, "events")

\* Mutant of ClientFunc: back to epoll_wait after the first message.
ClientFuncPollsAgain(w) ==
    /\ worker_pc[w] = "client_func"
    /\ Deliver(w, event(w).fd)
    /\ events' = [events EXCEPT ![w] = << >>]
    /\ Goto(w, "poll")

\* client_func(comm_msg), and on to the next event: one message is read per
\* event, whatever else the socket holds.
ClientFunc(w) ==
    /\ worker_pc[w] = "client_func"
    /\ Deliver(w, event(w).fd)
    /\ events' = [events EXCEPT ![w] = Tail(@)]
    /\ Goto(w, "events")

WorkerStep(w) ==
    \/ Start(w) \/ TakeTurn(w) \/ GetSocket(w) \/ AddSocket(w)
    \/ Poll(w) \/ PollFails(w) \/ EventsDone(w) \/ CloseOnError(w)
    \/ ErrorFunc(w) \/ StartMessage(w) \/ ReadHeader(w) \/ ReadData(w)
    \/ ReadFails(w) \/ ClientFunc(w)

-----------------------------------------------------------------------------

Next ==
    \/ \E c \in Clients : ClientStep(c)
    \/ CreateThread
    \/ AcceptorStep
    \/ \E w \in Workers : WorkerStep(w)

Spec == Init /\ [][Next]_vars

\* The threads are scheduled, a client that has begun a request finishes
\* sending it, and a client that has been answered reads the answer.
Fairness ==
    /\ WF_vars(CreateThread)
    /\ WF_vars(AcceptorStep)
    /\ \A w \in Workers : WF_vars(WorkerStep(w))
    /\ \A c \in Clients : WF_vars(SendData(c)) /\ WF_vars(Receive(c))

FairSpec == Spec /\ Fairness

-----------------------------------------------------------------------------
(* Properties                                                              *)

\* Type invariant.
TypeOK ==
    /\ client_pc \in [Clients -> {"new", "idle", "sending", "closed"}]
    /\ sent \in [Clients -> 0..MaxRequests]
    /\ sending \in [Clients -> Seq(Units)]
    /\ received \in [Clients -> Seq(Answers)]
    /\ backlog \in Seq(Clients)
    /\ listen_event \in BOOLEAN
    /\ inbox \in [Clients -> Seq(Units)]
    /\ outbox \in [Clients -> Seq(Answers)]
    /\ reset \in SUBSET Clients
    /\ open \in [Fds -> Clients \cup {NULL}]
    /\ epoll \in [Workers -> SUBSET Fds]
    /\ ready \in [Workers -> Seq(Fds)]
    /\ created \in -1..(num_workers + 1)
    /\ acceptor_pc \in {"none", "wait", "accept", "insert"}
    /\ infd \in Fds \cup {NULL}
    /\ comm_queue \in Seq(Fds)
    /\ cur_worker_index \in Workers
    /\ worker_pc \in [Workers -> WorkerPcs]
    /\ queue_entry \in [Workers -> Fds \cup {NULL}]
    /\ events \in [Workers -> Seq(Events)]
    /\ comm_msg \in [Workers -> Messages \cup {NULL}]
    /\ delivered \in [Clients -> Seq(1..MaxRequests)]
    /\ leaked \in SUBSET Fds

\* The descriptors in the queue, and those in the workers' hands.
Queued == {comm_queue[i] : i \in 1..Len(comm_queue)}
Entries == {queue_entry[w] : w \in Workers} \ {NULL}

\* Every open descriptor is in exactly one place: in the acceptor's hands, in
\* the queue, in one worker's hands, in one worker's epoll instance, or lost
\* when epoll_ctl failed.  So no connection is served by two workers, and
\* none is dropped on the way from accept to epoll.
FdHasOneHolder ==
    /\ \A i, j \in 1..Len(comm_queue) : comm_queue[i] = comm_queue[j] => i = j
    /\ \A v, w \in Workers :
          v # w => /\ epoll[v] \cap epoll[w] = {}
                   /\ queue_entry[v] = NULL \/ queue_entry[v] # queue_entry[w]
    /\ \A f \in Fds :
          LET holders == {h \in {<<"infd", {infd}>>, <<"queue", Queued>>,
                                 <<"entry", Entries>>,
                                 <<"epoll", UNION {epoll[w] : w \in Workers}>>,
                                 <<"leaked", leaked>>} : f \in h[2]}
          IN  Cardinality(holders) = IF open[f] = NULL THEN 0 ELSE 1

\* The events a worker has yet to handle are of distinct descriptors, each
\* still open on the connection it was reported for and registered with this
\* worker, although epoll_wait filled the batch earlier and descriptors are
\* closed and handed out again meanwhile.
EventsAreCurrent ==
    \A w \in Workers :
        LET pending == IF worker_pc[w] = "error_func" THEN Tail(events[w])
                       ELSE events[w]
        IN  /\ \A i, j \in 1..Len(pending) :
                  pending[i].fd = pending[j].fd => i = j
            /\ \A i \in 1..Len(pending) :
                  /\ open[pending[i].fd] = pending[i].conn
                  /\ pending[i].fd \in epoll[w]

\* A worker's reads are in step with the stream: a header read meets the
\* header of the first request not delivered, a data read the next data unit
\* of the request being read.  So requests are delivered whole, in the order
\* they were sent, each once.
RequestsInOrder ==
    /\ \A c \in Clients :
          \A i \in 1..Len(delivered[c]) : delivered[c][i] = i
    /\ \A w \in Workers :
          LET c == open[event(w).fd]
              unit == Head(inbox[c])
          IN  /\ worker_pc[w] = "header" /\ inbox[c] # << >>
                    => unit.part = 0 /\ unit.seq = Len(delivered[c]) + 1
              /\ worker_pc[w] = "data" /\ inbox[c] # << >>
                    => /\ unit.part = comm_msg[w].count + 1
                       /\ unit.seq = comm_msg[w].seq

\* A client receives only answers to its own requests, in order and each
\* once, although descriptors are reused and answers go to a descriptor.
AnswersGoToAsker ==
    \A c \in Clients :
        LET answers == received[c] \o outbox[c]
        IN  \A i \in 1..Len(answers) : answers[i] = [asker |-> c, seq |-> i]

\* Nothing a worker has yet to read waits without an event: a registered
\* descriptor whose connection has something to read is on the ready list,
\* among the events still to be handled, or about to be read.
NoStrandedData ==
    \A w \in Workers :
        \A f \in epoll[w] :
            inbox[open[f]] # << >> =>
                \/ InList(f, ready[w])
                \/ \E i \in 1..Len(events[w]) :
                      /\ events[w][i].fd = f
                      /\ i > 1 \/ worker_pc[w] # "error_func"

\* The server and its clients are the message service: requests are delivered
\* once and in order, answers go to who asked, after the delivery, and no step
\* is of two clients; whatever clients close and whatever calls fail.
Service == INSTANCE MessageService WITH asked <- sent

ImplementsService == Service!Spec

\* Clients that wait for each answer and stay get a service that also goes on:
\* nothing the server does to one client holds up another for ever.
ImplementsFairService == Service!FairSpec

\* Every connection a client makes is registered with a worker.
EveryConnectionServed ==
    \A c \in Clients :
        client_pc[c] # "new" ~>
            \E w \in Workers : \E f \in epoll[w] : open[f] = c
=============================================================================
