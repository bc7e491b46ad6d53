------------------------------ MODULE CommSetup ------------------------------
(***************************************************************************)
(* How servers and clients find each other: comm_create_and_bind and the   *)
(* start of comm_serv_thread, call by call, and the init functions of the  *)
(* clients.  All servers of an instance are given the same address, a path *)
(* (COMM_UNIX) or a port (COMM_TCP), and each is a process of its own, so  *)
(* that a server may be started while another one starts or serves.        *)
(*                                                                         *)
(* comm_serv_thread logs a call that fails and goes on with the descriptor *)
(* it did not get; comm_server_init has returned 0 by then.                *)
(***************************************************************************)
EXTENDS FiniteSets, Integers

CONSTANTS
    Servers, Clients,
    ipc_types,  \* of COMM_UNIX and COMM_TCP, the types in use
    Nobody,    \* no server
    MaxFaults  \* bound: the calls of a start that fail for want of resources

ASSUME ParametersAssumption ==
    /\ ipc_types \subseteq {"COMM_UNIX", "COMM_TCP"}
    /\ Nobody \notin Servers
    /\ MaxFaults \in Nat

VARIABLES
    ipc_type,    \* the type all servers and clients are given
    pc,          \* server -> the next call of its acceptor
    sfd,         \* server -> its socket
    nonblocking, \* server -> whether O_NONBLOCK is set on it
    efd,         \* server -> its epoll instance: "none", "empty", "watching"
    event,       \* server -> whether epoll has something to report
    path,        \* the server whose socket the path leads to
    backlog,     \* server -> the clients that wait to be accepted
    accepted,    \* server -> the clients it has accepted
    client,      \* client -> where it is in comm_client_init
    faults,      \* server -> the calls that failed when it started
    left         \* history: server -> the clients that a failed accept left in
                 \* the backlog, with nobody having connected since

acceptor == <<pc, sfd, nonblocking, efd>>
vars == <<acceptor, event, path, backlog, accepted, client, faults, left>>

StartUp == {"socket", "unlink", "bind", "nonblock", "listen", "epoll_create",
            "epoll_ctl"}

TypeOK ==
    /\ ipc_type \in ipc_types
    /\ pc \in [Servers -> StartUp \cup {"wait", "accept", "exit"}]
    /\ sfd \in [Servers -> {"none", "open", "bound", "listening"}]
    /\ nonblocking \in [Servers -> BOOLEAN]
    /\ efd \in [Servers -> {"none", "empty", "watching"}]
    /\ event \in [Servers -> BOOLEAN]
    /\ path \in Servers \cup {Nobody}
    /\ backlog \in [Servers -> SUBSET Clients]
    /\ accepted \in [Servers -> SUBSET Clients]
    /\ client \in [Clients -> {"idle", "socket", "handle", "NULL",
                               "finished"}]
    /\ faults \in [Servers -> 0..MaxFaults]
    /\ left \in [Servers -> SUBSET Clients]

Init ==
    /\ ipc_type \in ipc_types
    /\ pc = [s \in Servers |-> "socket"]
    /\ sfd = [s \in Servers |-> "none"]
    /\ nonblocking = [s \in Servers |-> FALSE]
    /\ efd = [s \in Servers |-> "none"]
    /\ event = [s \in Servers |-> FALSE]
    /\ path = Nobody
    /\ backlog = [s \in Servers |-> {}]
    /\ accepted = [s \in Servers |-> {}]
    /\ client = [c \in Clients |-> "idle"]
    /\ faults = [s \in Servers |-> 0]
    /\ left = [s \in Servers |-> {}]

Listening == {s \in Servers : sfd[s] = "listening"}

\* The server a connect finds.
Reached == IF ipc_type = "COMM_UNIX"
           THEN {s \in Listening : path = s} ELSE Listening

-----------------------------------------------------------------------------
(* comm_create_and_bind                                                    *)

\* Every fault is one of these: descriptors or memory have run out.
Fault(s) ==
    /\ faults[s] < MaxFaults
    /\ faults' = [faults EXCEPT ![s] = @ + 1]

\* A TCP server that is refused every address of its port ends its process.
NoAddress(s) ==
    pc' = [pc EXCEPT ![s] = IF ipc_type = "COMM_TCP" THEN "exit"
                            ELSE "nonblock"]

\* getaddrinfo fails.
NoAddressInfo(s) ==
    /\ ipc_type = "COMM_TCP"
    /\ pc[s] = "socket"
    /\ Fault(s)
    /\ pc' = [pc EXCEPT ![s] = "nonblock"]
    /\ UNCHANGED <<sfd, nonblocking, efd, event, path, backlog, accepted,
                   client, left>>

Socket(s) ==
    /\ pc[s] = "socket"
    /\ \/ /\ sfd' = [sfd EXCEPT ![s] = "open"]
          /\ pc' = [pc EXCEPT ![s] = IF ipc_type = "COMM_UNIX" THEN "unlink"
                                     ELSE "bind"]
          /\ UNCHANGED faults
       \/ Fault(s) /\ NoAddress(s) /\ UNCHANGED sfd
    /\ UNCHANGED <<nonblocking, efd, event, path, backlog, accepted, client,
                   left>>

\* Whoever the path leads to.
Unlink(s) ==
    /\ pc[s] = "unlink"
    /\ pc' = [pc EXCEPT ![s] = "bind"]
    /\ path' = Nobody
    /\ UNCHANGED <<sfd, nonblocking, efd, event, backlog, accepted, client,
                   faults, left>>

\* A path must not exist; with SO_REUSEADDR a port may be bound by many, as
\* long as none of them listens.
Free(s) == IF ipc_type = "COMM_UNIX" THEN path = Nobody
           ELSE Listening \ {s} = {}

\* Mutant of BindFails: the path is removed along with the socket.
BindFailsUnlinks(s) ==
    /\ pc[s] = "bind"
    /\ \/ ~Free(s) /\ UNCHANGED faults
       \/ Fault(s)
    /\ sfd' = [sfd EXCEPT ![s] = "none"]
    /\ path' = Nobody
    /\ NoAddress(s)
    /\ UNCHANGED <<nonblocking, efd, event, backlog, accepted, client,
                   left>>

BindFails(s) ==
    /\ pc[s] = "bind"
    /\ \/ ~Free(s) /\ UNCHANGED faults
       \/ Fault(s)
    /\ sfd' = [sfd EXCEPT ![s] = "none"]
    /\ NoAddress(s)
    /\ UNCHANGED <<nonblocking, efd, event, path, backlog, accepted, client,
                   left>>

Bind(s) ==
    /\ pc[s] = "bind"
    /\ Free(s)
    /\ sfd' = [sfd EXCEPT ![s] = "bound"]
    /\ path' = IF ipc_type = "COMM_UNIX" THEN s ELSE path
    /\ pc' = [pc EXCEPT ![s] = "nonblock"]
    /\ UNCHANGED <<nonblocking, efd, event, backlog, accepted, client, faults,
                   left>>

-----------------------------------------------------------------------------
(* comm_serv_thread                                                        *)

\* comm_make_socket_non_blocking, which fails only without a socket.
MakeNonBlocking(s) ==
    /\ pc[s] = "nonblock"
    /\ pc' = [pc EXCEPT ![s] = "listen"]
    /\ nonblocking' = [nonblocking EXCEPT ![s] = sfd[s] # "none"]
    /\ UNCHANGED <<sfd, efd, event, path, backlog, accepted, client, faults,
                   left>>

\* Of the sockets bound to one port the first to listen succeeds.
Listen(s) ==
    /\ pc[s] = "listen"
    /\ pc' = [pc EXCEPT ![s] = "epoll_create"]
    /\ sfd' = [sfd EXCEPT ![s] =
          IF @ = "bound" /\ (ipc_type = "COMM_TCP" => Free(s))
          THEN "listening" ELSE @]
    /\ UNCHANGED <<nonblocking, efd, event, path, backlog, accepted, client,
                   faults, left>>

EpollCreate(s) ==
    /\ pc[s] = "epoll_create"
    /\ pc' = [pc EXCEPT ![s] = "epoll_ctl"]
    /\ \/ efd' = [efd EXCEPT ![s] = "empty"] /\ UNCHANGED faults
       \/ Fault(s) /\ UNCHANGED efd
    /\ UNCHANGED <<sfd, nonblocking, event, path, backlog, accepted, client,
                   left>>

\* What is in the backlog by now is reported; so is a socket that does not
\* listen, as hung up.
EpollAdd(s) ==
    /\ pc[s] = "epoll_ctl"
    /\ pc' = [pc EXCEPT ![s] = "wait"]
    /\ \/ /\ sfd[s] # "none" /\ efd[s] # "none"
          /\ efd' = [efd EXCEPT ![s] = "watching"]
          /\ event' = [event EXCEPT
                ![s] = backlog[s] # {} \/ sfd[s] # "listening"]
          /\ UNCHANGED faults
       \/ /\ sfd[s] = "none" \/ efd[s] = "none"
          /\ UNCHANGED <<efd, event, faults>>
       \/ Fault(s) /\ UNCHANGED <<efd, event>>
    /\ UNCHANGED <<sfd, nonblocking, path, backlog, accepted, client,
                   left>>

\* epoll_wait.  Without an epoll instance it fails, at once and for ever.
AwaitConnection(s) ==
    /\ pc[s] = "wait"
    /\ event[s]
    /\ event' = [event EXCEPT ![s] = FALSE]
    /\ IF sfd[s] = "listening"
       THEN pc' = [pc EXCEPT ![s] = "accept"] /\ UNCHANGED <<sfd, efd>>
       ELSE /\ sfd' = [sfd EXCEPT ![s] = "none"]
            /\ efd' = [efd EXCEPT ![s] = "empty"]
            /\ UNCHANGED pc
    /\ UNCHANGED <<nonblocking, path, backlog, accepted, client, faults,
                   left>>

\* Mutant of Accept: one connection for an event.
AcceptOne(s) ==
    /\ pc[s] = "accept"
    /\ pc' = [pc EXCEPT ![s] = "wait"]
    /\ \E c \in backlog[s] :
          /\ backlog' = [backlog EXCEPT ![s] = @ \ {c}]
          /\ accepted' = [accepted EXCEPT ![s] = @ \cup {c}]
    /\ UNCHANGED <<sfd, nonblocking, efd, event, path, client, faults,
                   left>>

\* Until accept says that there are no more, or fails for another reason (it
\* has no descriptor or no memory left), whatever is in the backlog; a blocking
\* accept would wait.
Accept(s) ==
    /\ pc[s] = "accept"
    /\ \/ /\ backlog[s] = {}
          /\ nonblocking[s]
          /\ pc' = [pc EXCEPT ![s] = "wait"]
          /\ UNCHANGED <<backlog, accepted, left>>
       \/ /\ pc' = [pc EXCEPT ![s] = "wait"]
          /\ left' = [left EXCEPT ![s] = IF event[s] THEN {} ELSE backlog[s]]
          /\ UNCHANGED <<backlog, accepted>>
       \/ \E c \in backlog[s] :
             /\ backlog' = [backlog EXCEPT ![s] = @ \ {c}]
             /\ accepted' = [accepted EXCEPT ![s] = @ \cup {c}]
             /\ UNCHANGED <<pc, left>>
    /\ UNCHANGED <<sfd, nonblocking, efd, event, path, client, faults>>

-----------------------------------------------------------------------------
(* The clients                                                             *)

Becomes(c, state) == client' = [client EXCEPT ![c] = state]

\* comm_client_init: the structure and the socket, or NULL.
ClientSocket(c) ==
    /\ client[c] = "idle"
    /\ Becomes(c, "socket") \/ Becomes(c, "NULL")
    /\ UNCHANGED <<acceptor, event, path, backlog, accepted, faults, left>>

\* connect is done when the connection is in a backlog; a server that watches
\* its socket is told.
Connect(c) ==
    /\ client[c] = "socket"
    /\ IF Reached = {}
       THEN Becomes(c, "NULL") /\ UNCHANGED <<event, backlog, left>>
       ELSE \E s \in Reached :
               /\ Becomes(c, "handle")
               /\ backlog' = [backlog EXCEPT ![s] = @ \cup {c}]
               /\ event' = [event EXCEPT ![s] = @ \/ efd[s] = "watching"]
               /\ left' = [left EXCEPT ![s] = {}]
    /\ UNCHANGED <<acceptor, path, accepted, faults>>

\* comm_client_finish: what is in the backlog stays there.
Finish(c) ==
    /\ client[c] = "handle"
    /\ Becomes(c, "finished")
    /\ UNCHANGED <<acceptor, event, path, backlog, accepted, faults, left>>

ServerStep(s) ==
    \/ NoAddressInfo(s) \/ Socket(s) \/ Unlink(s) \/ BindFails(s) \/ Bind(s)
    \/ MakeNonBlocking(s) \/ Listen(s) \/ EpollCreate(s) \/ EpollAdd(s)
    \/ AwaitConnection(s) \/ Accept(s)

Next ==
    /\ UNCHANGED ipc_type
    /\ \/ \E s \in Servers : ServerStep(s)
       \/ \E c \in Clients : ClientSocket(c) \/ Connect(c) \/ Finish(c)

Spec == Init /\ [][Next]_<<ipc_type, vars>>

\* An acceptor that can go on does.
FairSpec == Spec /\ \A s \in Servers : WF_vars(ServerStep(s))

-----------------------------------------------------------------------------
(* Properties                                                              *)

\* However the starts of the servers interleave, once all are through and no
\* call of a start has failed for want of resources, the address leads to a
\* server that listens and watches its socket: servers that unlink each other's
\* paths, or that share a port until one listens, never end with nobody served.
SomebodyServes ==
    /\ \A s \in Servers : pc[s] \notin StartUp
    /\ \A s \in Servers : faults[s] = 0
    => \E s \in Reached : efd[s] = "watching"

\* A handle stands for a connection, and whoever has been given one is
\* accepted, though the connection may come before the socket is watched,
\* between the last accept and the next epoll_wait, or to a server whose path
\* another one has taken.  Exceptions are a server with a call that failed when
\* it started, and the backlog that an accept for which there was no descriptor
\* leaves behind: epoll, edge-triggered, reports it again only with the next
\* connection, which then brings in those left along with itself.
ConnectedIsAccepted ==
    \A c \in Clients :
        client[c] = "handle" ~>
            \E s \in Servers : \/ c \in accepted[s]
                               \/ c \in backlog[s] /\ faults[s] > 0
                               \/ c \in left[s]
=============================================================================
