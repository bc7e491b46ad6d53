--------------------------- MODULE CommSetupProofs ---------------------------
(***************************************************************************)
(* Proofs about CommSetup, for any servers, clients and failing calls:     *)
(* types, and that the address leads to a server that listens.             *)
(***************************************************************************)
EXTENDS CommSetup, TLAPS

Failed(s) == faults[s] > 0
Serving == {"wait", "accept"}
AfterListen == {"epoll_create", "epoll_ctl"} \cup Serving

\* A socket listens once comm_serv_thread is past listen, and then for ever;
\* unless a call failed, epoll watches it by the time the acceptor waits.
ListensInStep(s) ==
    /\ sfd[s] = "listening" => pc[s] \in AfterListen
    /\ sfd[s] = "listening" /\ ~Failed(s) =>
          /\ pc[s] = "epoll_ctl" => efd[s] = "empty"
          /\ pc[s] \in Serving => efd[s] = "watching"

\* A port is some server's: who is refused it, or cannot listen on it, has
\* found another one that listens.
PortInStep(s) ==
    ipc_type = "COMM_TCP" /\ ~Failed(s) =>
        /\ pc[s] \in {"nonblock", "listen"} => sfd[s] = "bound"
        /\ pc[s] \in AfterListen \cup {"exit"} => Listening # {}

\* A path leads to a server that has bound it and will listen or does so, and
\* that still has its socket.
PathInStep(s) ==
    ipc_type = "COMM_UNIX" =>
        /\ pc[s] # "exit"
        /\ path = s => \/ pc[s] \in {"nonblock", "listen"} /\ sfd[s] = "bound"
                       \/ sfd[s] = "listening"

\* Who removes the path of another server binds it, or is refused it because
\* a third one has: as long as there is no path, some server will bind it.
WillBind == {"socket", "unlink", "bind"}
PathComes ==
    ipc_type = "COMM_UNIX" /\ path = Nobody =>
        \E s \in Servers : pc[s] \in WillBind \/ Failed(s)

\* A listening socket does not block, only it has a backlog, and what is in the
\* backlog is reported to an acceptor that waits with the socket watched, but
\* for what an accept that failed has left there.
BacklogInStep(s) ==
    /\ efd[s] = "watching" => pc[s] \in Serving
    /\ pc[s] \in {"listen"} \cup AfterListen /\ sfd[s] # "none" =>
          nonblocking[s]
    /\ pc[s] = "accept" => sfd[s] = "listening"
    /\ backlog[s] # {} => sfd[s] = "listening"
    /\ pc[s] = "wait" /\ efd[s] = "watching" =>
          event[s] \/ backlog[s] \subseteq left[s]

\* Who has a handle waits to be accepted or has been.
HandlesKept ==
    \A c \in Clients : client[c] = "handle" =>
        \E s \in Servers : c \in backlog[s] \cup accepted[s]

SetupInv ==
    /\ TypeOK /\ PathComes /\ HandlesKept
    /\ \A s \in Servers : /\ ListensInStep(s) /\ PortInStep(s)
                          /\ PathInStep(s) /\ BacklogInStep(s)
-----------------------------------------------------------------------------
(* Init                                                                    *)

LEMMA InitSetupInv ==
    ASSUME Servers # {}, Init
    PROVE  SetupInv
<1>1. TypeOK
  BY ParametersAssumption DEF Init, TypeOK, StartUp
<1>2. PathComes /\ HandlesKept
  BY DEF Init, PathComes, WillBind, HandlesKept
<1>3. ASSUME NEW s \in Servers
      PROVE  /\ ListensInStep(s) /\ PortInStep(s) /\ PathInStep(s)
             /\ BacklogInStep(s)
  BY <1>3, ParametersAssumption
     DEF Init, ListensInStep, PortInStep, PathInStep, BacklogInStep,
         AfterListen, Serving
<1> QED
  BY <1>1, <1>2, <1>3 DEF SetupInv
-----------------------------------------------------------------------------
(* What a step of a server leaves alone                                    *)

\* Server s alone moves; sockets of others, and listening ones, stay.
LEMMA OthersStay ==
    ASSUME TypeOK, NEW s \in Servers, ServerStep(s)
    PROVE  /\ UNCHANGED client
           /\ \A t \in Servers \ {s} :
                 /\ pc'[t] = pc[t] /\ sfd'[t] = sfd[t] /\ efd'[t] = efd[t]
                 /\ nonblocking'[t] = nonblocking[t]
                 /\ event'[t] = event[t] /\ backlog'[t] = backlog[t]
                 /\ accepted'[t] = accepted[t] /\ faults'[t] = faults[t]
                 /\ left'[t] = left[t]
<1>1. ASSUME NoAddressInfo(s) \/ Socket(s) \/ Unlink(s)
      PROVE  /\ UNCHANGED client
             /\ \A t \in Servers \ {s} :
                   /\ pc'[t] = pc[t] /\ sfd'[t] = sfd[t] /\ efd'[t] = efd[t]
                   /\ nonblocking'[t] = nonblocking[t]
                   /\ event'[t] = event[t] /\ backlog'[t] = backlog[t]
                   /\ accepted'[t] = accepted[t] /\ faults'[t] = faults[t]
                   /\ left'[t] = left[t]
  BY <1>1 DEF TypeOK, NoAddressInfo, Socket, Unlink, Fault, NoAddress
<1>2. ASSUME BindFails(s) \/ Bind(s) \/ MakeNonBlocking(s) \/ Listen(s)
      PROVE  /\ UNCHANGED client
             /\ \A t \in Servers \ {s} :
                   /\ pc'[t] = pc[t] /\ sfd'[t] = sfd[t] /\ efd'[t] = efd[t]
                   /\ nonblocking'[t] = nonblocking[t]
                   /\ event'[t] = event[t] /\ backlog'[t] = backlog[t]
                   /\ accepted'[t] = accepted[t] /\ faults'[t] = faults[t]
                   /\ left'[t] = left[t]
  BY <1>2 DEF TypeOK, BindFails, Bind, MakeNonBlocking, Listen, Fault,
     NoAddress
<1>3. ASSUME EpollCreate(s) \/ EpollAdd(s) \/ AwaitConnection(s) \/ Accept(s)
      PROVE  /\ UNCHANGED client
             /\ \A t \in Servers \ {s} :
                   /\ pc'[t] = pc[t] /\ sfd'[t] = sfd[t] /\ efd'[t] = efd[t]
                   /\ nonblocking'[t] = nonblocking[t]
                   /\ event'[t] = event[t] /\ backlog'[t] = backlog[t]
                   /\ accepted'[t] = accepted[t] /\ faults'[t] = faults[t]
                   /\ left'[t] = left[t]
  BY <1>3 DEF TypeOK, EpollCreate, EpollAdd, AwaitConnection, Accept, Fault
<1> QED
  BY <1>1, <1>2, <1>3 DEF ServerStep

LEMMA ServerKeepsTypes ==
    ASSUME TypeOK, NEW s \in Servers, ServerStep(s), UNCHANGED ipc_type
    PROVE  TypeOK'
<1> USE DEF TypeOK, StartUp
<1>1. ASSUME Fault(s) PROVE faults' \in [Servers -> 0..MaxFaults]
  BY <1>1, ParametersAssumption DEF Fault
<1>2. ASSUME NoAddress(s)
      PROVE  pc' \in [Servers -> StartUp \cup {"wait", "accept", "exit"}]
  BY <1>2 DEF NoAddress
<1>3. CASE NoAddressInfo(s)
  BY <1>1, <1>3 DEF NoAddressInfo
<1>4. CASE Socket(s)
  BY <1>1, <1>2, <1>4 DEF Socket
<1>5. CASE Unlink(s)
  BY <1>5 DEF Unlink
<1>6. CASE BindFails(s)
  BY <1>1, <1>2, <1>6 DEF BindFails
<1>7. CASE Bind(s)
  BY <1>7 DEF Bind
<1>8. CASE MakeNonBlocking(s)
  BY <1>8 DEF MakeNonBlocking
<1>9. CASE Listen(s)
  BY <1>9 DEF Listen
<1>10. CASE EpollCreate(s)
  BY <1>1, <1>10 DEF EpollCreate
<1>11. CASE EpollAdd(s)
  BY <1>1, <1>11 DEF EpollAdd
<1>12. CASE AwaitConnection(s)
  BY <1>12 DEF AwaitConnection
<1>13. CASE Accept(s)
  BY <1>13 DEF Accept
<1> QED
  BY <1>3, <1>4, <1>5, <1>6, <1>7, <1>8, <1>9, <1>10, <1>11, <1>12, <1>13
     DEF ServerStep

\* A server that has failed at something has for ever; a socket that listens
\* goes on listening.
LEMMA StaysSo ==
    ASSUME SetupInv, NEW s \in Servers, ServerStep(s)
    PROVE  /\ \A t \in Servers : Failed(t) => Failed(t)'
           /\ Listening \subseteq Listening'
<1>0. TypeOK /\ ListensInStep(s)
  BY DEF SetupInv
<1>1. faults'[s] = faults[s] \/ faults'[s] = faults[s] + 1
  BY <1>0 DEF ServerStep, NoAddressInfo, Socket, Unlink, BindFails, Bind,
     MakeNonBlocking, Listen, EpollCreate, EpollAdd, AwaitConnection, Accept,
     Fault, TypeOK
<1>2. faults[s] \in Nat
  BY <1>0 DEF TypeOK
<1>3. sfd[s] = "listening" => sfd'[s] = "listening"
  BY <1>0 DEF ServerStep, NoAddressInfo, Socket, Unlink, BindFails, Bind,
     MakeNonBlocking, Listen, EpollCreate, EpollAdd, AwaitConnection, Accept,
     TypeOK, ListensInStep, AfterListen, Serving
<1>4. ASSUME NEW t \in Servers PROVE Failed(t) => Failed(t)'
  <2>1. t # s => faults'[t] = faults[t]
    BY <1>0, OthersStay
  <2> QED
    BY <2>1, <1>1, <1>2 DEF Failed
<1>5. ASSUME NEW t \in Servers, sfd[t] = "listening"
      PROVE  sfd'[t] = "listening"
  <2>1. t # s => sfd'[t] = sfd[t]
    BY <1>0, OthersStay
  <2> QED
    BY <2>1, <1>3, <1>5
<1> QED
  BY <1>4, <1>5 DEF Listening

\* The path goes to nobody or to the server that takes the step.
LEMMA PathGoesTo ==
    ASSUME NEW s \in Servers, ServerStep(s)
    PROVE  path' \in {path, Nobody, s}
BY DEF ServerStep, NoAddressInfo, Socket, Unlink, BindFails, Bind,
   MakeNonBlocking, Listen, EpollCreate, EpollAdd, AwaitConnection, Accept
-----------------------------------------------------------------------------
(* The steps of a server                                                   *)

InStep(s) ==
    ListensInStep(s) /\ PortInStep(s) /\ PathInStep(s) /\ BacklogInStep(s)

LEMMA OthersInStep ==
    ASSUME SetupInv, NEW s \in Servers, ServerStep(s), UNCHANGED ipc_type,
           NEW t \in Servers, t # s
    PROVE  InStep(t)'
<1>0. TypeOK /\ InStep(t)
  BY DEF SetupInv, InStep
<1>1. /\ pc'[t] = pc[t] /\ sfd'[t] = sfd[t] /\ efd'[t] = efd[t]
      /\ nonblocking'[t] = nonblocking[t]
      /\ event'[t] = event[t] /\ backlog'[t] = backlog[t]
      /\ faults'[t] = faults[t] /\ left'[t] = left[t]
  BY <1>0, OthersStay
<1>2. Listening \subseteq Listening'
  BY StaysSo
<1>3. path' = t => path = t
  BY PathGoesTo, ParametersAssumption
<1>4. ListensInStep(t)' /\ BacklogInStep(t)'
  BY <1>0, <1>1 DEF InStep, ListensInStep, BacklogInStep, Failed
<1>5. PortInStep(t)'
  BY <1>0, <1>1, <1>2 DEF InStep, PortInStep, Failed
<1>6. PathInStep(t)'
  BY <1>0, <1>1, <1>3 DEF InStep, PathInStep
<1> QED
  BY <1>4, <1>5, <1>6 DEF InStep

\* comm_create_and_bind.
LEMMA BindsInStep ==
    ASSUME SetupInv, NEW s \in Servers, UNCHANGED ipc_type,
           \/ NoAddressInfo(s) \/ Socket(s) \/ Unlink(s)
           \/ BindFails(s) \/ Bind(s)
    PROVE  InStep(s)'
<1>0. TypeOK /\ InStep(s)
  BY DEF SetupInv, InStep
<1>00. faults[s] \in Nat /\ (ipc_type = "COMM_UNIX" <=> ipc_type # "COMM_TCP")
  BY <1>0, ParametersAssumption DEF TypeOK
<1> USE <1>0, <1>00 DEF TypeOK, InStep, ListensInStep, PortInStep, PathInStep,
                        BacklogInStep, Failed, AfterListen, Serving
<1>1. ASSUME Fault(s) PROVE faults'[s] > 0
  BY <1>1 DEF Fault
<1>2. CASE NoAddressInfo(s)
  BY <1>1, <1>2 DEF NoAddressInfo
<1>3. CASE Socket(s)
  BY <1>1, <1>3 DEF Socket, NoAddress
<1>4. CASE Unlink(s)
  BY <1>4, ParametersAssumption DEF Unlink
<1>5. CASE BindFails(s)
  <2>1. /\ pc[s] = "bind" /\ sfd' = [sfd EXCEPT ![s] = "none"]
        /\ pc' = [pc EXCEPT ![s] = IF ipc_type = "COMM_TCP" THEN "exit"
                                   ELSE "nonblock"]
        /\ UNCHANGED <<nonblocking, efd, event, path, backlog, left>>
    BY <1>5 DEF BindFails, NoAddress
  <2>2. ListensInStep(s)' /\ BacklogInStep(s)' /\ PathInStep(s)'
    BY <2>1
  <2>3. CASE ~Free(s) /\ UNCHANGED faults
    <3>1. ipc_type = "COMM_TCP" => Listening \ {s} # {}
      BY <2>3 DEF Free
    <3>2. Listening \ {s} \subseteq Listening'
      BY <2>1 DEF Listening
    <3>3. PortInStep(s)'
      BY <2>1, <3>1, <3>2
    <3> QED
      BY <2>2, <3>3
  <2>4. CASE Fault(s)
    BY <1>1, <2>1, <2>2, <2>4
  <2> QED
    BY <1>5, <2>3, <2>4 DEF BindFails
<1>6. CASE Bind(s)
  BY <1>6 DEF Bind
<1> QED
  BY <1>2, <1>3, <1>4, <1>5, <1>6

\* The start of comm_serv_thread and its event loop.
LEMMA ServesInStep ==
    ASSUME SetupInv, NEW s \in Servers, UNCHANGED ipc_type,
           \/ MakeNonBlocking(s) \/ Listen(s) \/ EpollCreate(s)
           \/ EpollAdd(s) \/ AwaitConnection(s) \/ Accept(s)
    PROVE  InStep(s)'
<1>0. TypeOK /\ InStep(s)
  BY DEF SetupInv, InStep
<1>00. faults[s] \in Nat /\ (ipc_type = "COMM_UNIX" <=> ipc_type # "COMM_TCP")
  BY <1>0, ParametersAssumption DEF TypeOK
<1>01. Listening \subseteq Listening'
  BY StaysSo DEF ServerStep
<1> USE <1>0, <1>00 DEF TypeOK, InStep, ListensInStep, PortInStep, PathInStep,
                        BacklogInStep, Failed, AfterListen, Serving
<1>1. ASSUME Fault(s) PROVE faults'[s] > 0
  BY <1>1 DEF Fault
<1>2. CASE MakeNonBlocking(s)
  BY <1>2 DEF MakeNonBlocking
<1>3. CASE Listen(s)
  <2>1. /\ pc[s] = "listen" /\ pc'[s] = "epoll_create"
        /\ sfd'[s] = IF sfd[s] = "bound" /\ (ipc_type = "COMM_TCP" => Free(s))
                     THEN "listening" ELSE sfd[s]
        /\ UNCHANGED <<nonblocking, efd, event, path, backlog, faults, left>>
    BY <1>3 DEF Listen
  <2>2. ListensInStep(s)' /\ BacklogInStep(s)' /\ PathInStep(s)'
    BY <2>1
  <2>3. ipc_type = "COMM_TCP" /\ ~Free(s) => Listening # {}
    BY DEF Free
  <2>4. sfd'[s] = "listening" => s \in Listening'
    BY DEF Listening
  <2>5. PortInStep(s)'
    BY <2>1, <2>3, <2>4, <1>01
  <2> QED
    BY <2>2, <2>5
<1>4. CASE EpollCreate(s)
  BY <1>01, <1>1, <1>4 DEF EpollCreate
<1>5. CASE EpollAdd(s)
  BY <1>01, <1>1, <1>5 DEF EpollAdd
<1>6. CASE AwaitConnection(s)
  BY <1>01, <1>6 DEF AwaitConnection
<1>7. CASE Accept(s)
  BY <1>01, <1>7 DEF Accept
<1> QED
  BY <1>2, <1>3, <1>4, <1>5, <1>6, <1>7

LEMMA ServerKeepsPath ==
    ASSUME SetupInv, NEW s \in Servers, ServerStep(s), UNCHANGED ipc_type
    PROVE  PathComes'
<1> SUFFICES ASSUME ipc_type = "COMM_UNIX", path' = Nobody
             PROVE  \E t \in Servers : pc'[t] \in WillBind \/ Failed(t)'
  BY DEF PathComes
<1>0. TypeOK /\ faults[s] \in Nat
  BY DEF SetupInv, TypeOK
<1>1. ASSUME Fault(s) PROVE Failed(s)'
  BY <1>0, <1>1 DEF Fault, Failed, TypeOK
<1>2. CASE Unlink(s)
  BY <1>0, <1>2 DEF Unlink, TypeOK, WillBind
<1>3. CASE Bind(s)
  BY <1>3, ParametersAssumption DEF Bind
<1>4. CASE BindFails(s)
  <2>1. path # Nobody \/ Failed(s)'
    BY <1>1, <1>4 DEF BindFails, Free
  <2> QED
    BY <1>4, <2>1 DEF BindFails
<1>5. CASE ~Unlink(s) /\ ~Bind(s) /\ ~BindFails(s)
  <2>1. UNCHANGED path
    BY <1>5 DEF ServerStep, NoAddressInfo, Socket, MakeNonBlocking, Listen,
       EpollCreate, EpollAdd, AwaitConnection, Accept
  <2>2. PICK t \in Servers : pc[t] \in WillBind \/ Failed(t)
    BY <2>1 DEF SetupInv, PathComes
  <2>3. CASE Failed(t)
    BY <2>3, StaysSo
  <2>4. CASE pc[t] \in WillBind /\ t # s
    BY <2>4, <1>0, OthersStay
  <2>5. CASE pc[s] \in WillBind
    <3>1. Socket(s)
      BY <1>5, <2>5 DEF ServerStep, NoAddressInfo, MakeNonBlocking, Listen,
         EpollCreate, EpollAdd, AwaitConnection, Accept, WillBind
    <3>2. pc'[s] = "unlink" \/ Fault(s)
      BY <1>0, <3>1 DEF Socket, TypeOK
    <3> QED
      BY <1>1, <3>2 DEF WillBind
  <2> QED
    BY <2>2, <2>3, <2>4, <2>5
<1> QED
  BY <1>2, <1>3, <1>4, <1>5

LEMMA ServerKeepsHandles ==
    ASSUME SetupInv, NEW s \in Servers, ServerStep(s)
    PROVE  HandlesKept'
<1> SUFFICES ASSUME NEW c \in Clients, client'[c] = "handle"
             PROVE  \E t \in Servers : c \in backlog'[t] \cup accepted'[t]
  BY DEF HandlesKept
<1>0. TypeOK /\ client'[c] = client[c]
  BY OthersStay DEF SetupInv
<1>1. PICK t \in Servers : c \in backlog[t] \cup accepted[t]
  BY <1>0 DEF SetupInv, HandlesKept
<1>2. CASE t # s
  BY <1>0, <1>1, <1>2, OthersStay
<1>3. CASE t = s
  <2>1. CASE Accept(s)
    BY <1>0, <1>1, <1>3, <2>1 DEF Accept, TypeOK
  <2>2. CASE ~Accept(s)
    BY <1>1, <1>3, <2>2 DEF ServerStep, NoAddressInfo, Socket, Unlink,
       BindFails, Bind, MakeNonBlocking, Listen, EpollCreate, EpollAdd,
       AwaitConnection
  <2> QED
    BY <2>1, <2>2
<1> QED
  BY <1>2, <1>3
-----------------------------------------------------------------------------
(* The steps of a client                                                   *)

LEMMA ClientStepKeepsSetupInv ==
    ASSUME SetupInv, NEW c \in Clients, UNCHANGED ipc_type,
           ClientSocket(c) \/ Connect(c) \/ Finish(c)
    PROVE  SetupInv'
<1>0. TypeOK /\ \A s \in Servers : InStep(s)
  BY DEF SetupInv, InStep
<1>1. UNCHANGED <<acceptor, path, accepted, faults>>
  BY DEF ClientSocket, Connect, Finish
<1>2. Listening' = Listening
  BY <1>1 DEF Listening, acceptor
<1>3. TypeOK'
  <2>1. CASE ClientSocket(c)
    BY <1>0, <2>1 DEF ClientSocket, Becomes, TypeOK, acceptor
  <2>2. CASE Connect(c)
    <3>1. Reached \subseteq Servers
      BY DEF Reached, Listening
    <3>2. /\ event' \in [Servers -> BOOLEAN]
          /\ backlog' \in [Servers -> SUBSET Clients]
      <4>1. CASE Reached = {}
        BY <1>0, <2>2, <4>1 DEF Connect, TypeOK
      <4>2. CASE Reached # {}
        <5>1. PICK s \in Servers :
                 /\ backlog' = [backlog EXCEPT ![s] = @ \cup {c}]
                 /\ event' = [event EXCEPT ![s] = @ \/ efd[s] = "watching"]
          BY <2>2, <3>1, <4>2 DEF Connect
        <5>2. (event[s] \/ efd[s] = "watching") \in BOOLEAN
          OBVIOUS
        <5> QED
          BY <1>0, <5>1, <5>2 DEF TypeOK
      <4> QED
        BY <4>1, <4>2
    <3>3. left' \in [Servers -> SUBSET Clients]
      BY <1>0, <2>2, <3>1 DEF Connect, TypeOK
    <3>4. client' \in [Clients -> {"idle", "socket", "handle", "NULL",
                                   "finished"}]
      BY <1>0, <2>2 DEF Connect, Becomes, TypeOK
    <3> QED
      BY <1>0, <1>1, <3>2, <3>3, <3>4 DEF TypeOK, acceptor
  <2>3. CASE Finish(c)
    BY <1>0, <2>3 DEF Finish, Becomes, TypeOK, acceptor
  <2> QED
    BY <2>1, <2>2, <2>3
<1>4. PathComes'
  BY <1>1 DEF SetupInv, PathComes, acceptor, Failed
<1>5. \A s \in Servers : ListensInStep(s)' /\ PortInStep(s)' /\ PathInStep(s)'
  BY <1>0, <1>1, <1>2
     DEF InStep, ListensInStep, PortInStep, PathInStep, acceptor, Failed
<1>6. CASE ClientSocket(c) \/ Finish(c)
  <2>1. UNCHANGED <<backlog, event, left>>
    BY <1>6 DEF ClientSocket, Finish
  <2>2. \A s \in Servers : BacklogInStep(s)'
    BY <1>0, <1>1, <2>1 DEF InStep, BacklogInStep, acceptor
  <2>3. \A d \in Clients : client'[d] = "handle" => client[d] = "handle"
    BY <1>0, <1>6 DEF ClientSocket, Finish, Becomes, TypeOK
  <2>4. HandlesKept'
    BY <1>1, <2>1, <2>3 DEF SetupInv, HandlesKept
  <2> QED
    BY <1>3, <1>4, <1>5, <2>2, <2>4 DEF SetupInv
<1>7. CASE Connect(c) /\ Reached = {}
  <2>1. UNCHANGED <<backlog, event, left>>
    BY <1>7 DEF Connect
  <2>2. \A s \in Servers : BacklogInStep(s)'
    BY <1>0, <1>1, <2>1 DEF InStep, BacklogInStep, acceptor
  <2>3. \A d \in Clients : client'[d] = "handle" => client[d] = "handle"
    BY <1>0, <1>7 DEF Connect, Becomes, TypeOK
  <2>4. HandlesKept'
    BY <1>1, <2>1, <2>3 DEF SetupInv, HandlesKept
  <2> QED
    BY <1>3, <1>4, <1>5, <2>2, <2>4 DEF SetupInv
<1>8. CASE Connect(c) /\ Reached # {}
  <2>1. PICK s \in Reached :
           /\ Becomes(c, "handle")
           /\ backlog' = [backlog EXCEPT ![s] = @ \cup {c}]
           /\ event' = [event EXCEPT ![s] = @ \/ efd[s] = "watching"]
           /\ left' = [left EXCEPT ![s] = {}]
    BY <1>8 DEF Connect
  <2>2. s \in Servers /\ sfd[s] = "listening"
    BY DEF Reached, Listening
  <2>3. ASSUME NEW t \in Servers PROVE BacklogInStep(t)'
    <3>1. CASE t = s
      BY <1>0, <1>1, <2>1, <2>2, <3>1
         DEF InStep, BacklogInStep, acceptor, TypeOK
    <3>2. CASE t # s
      BY <1>0, <1>1, <2>1, <2>2, <3>2
         DEF InStep, BacklogInStep, acceptor, TypeOK
    <3> QED
      BY <3>1, <3>2
  <2>4. ASSUME NEW d \in Clients, client'[d] = "handle"
        PROVE  \E t \in Servers : d \in backlog'[t] \cup accepted'[t]
    <3>1. CASE d = c
      BY <1>0, <2>1, <2>2, <3>1 DEF TypeOK
    <3>2. CASE d # c
      <4>1. client[d] = "handle"
        BY <1>0, <2>1, <2>4, <3>2 DEF Becomes, TypeOK
      <4>2. PICK t \in Servers : d \in backlog[t] \cup accepted[t]
        BY <4>1 DEF SetupInv, HandlesKept
      <4>3. backlog[t] \subseteq backlog'[t] /\ accepted'[t] = accepted[t]
        BY <1>0, <1>1, <2>1, <2>2 DEF TypeOK
      <4> QED
        BY <4>2, <4>3
    <3> QED
      BY <3>1, <3>2
  <2>5. HandlesKept'
    BY <2>4 DEF HandlesKept
  <2> QED
    BY <1>3, <1>4, <1>5, <2>3, <2>5 DEF SetupInv
<1> QED
  BY <1>6, <1>7, <1>8
-----------------------------------------------------------------------------
(* The theorems                                                            *)

LEMMA StepKeepsSetupInv ==
    ASSUME SetupInv, [Next]_<<ipc_type, vars>>
    PROVE  SetupInv'
<1>1. ASSUME NEW s \in Servers, ServerStep(s), UNCHANGED ipc_type
      PROVE  SetupInv'
  <2>1. TypeOK'
    BY <1>1, ServerKeepsTypes DEF SetupInv
  <2>2. PathComes' /\ HandlesKept'
    BY <1>1, ServerKeepsPath, ServerKeepsHandles
  <2>3. InStep(s)'
    BY <1>1, BindsInStep, ServesInStep DEF ServerStep
  <2>4. \A t \in Servers \ {s} : InStep(t)'
    BY <1>1, OthersInStep
  <2> QED
    BY <2>1, <2>2, <2>3, <2>4 DEF SetupInv, InStep
<1>2. ASSUME NEW c \in Clients, ClientSocket(c) \/ Connect(c) \/ Finish(c),
             UNCHANGED ipc_type
      PROVE  SetupInv'
  BY <1>2, ClientStepKeepsSetupInv
<1>3. CASE UNCHANGED <<ipc_type, vars>>
  BY <1>3 DEF vars, acceptor, SetupInv, TypeOK, PathComes, HandlesKept,
     ListensInStep, PortInStep, PathInStep, BacklogInStep, Failed, Listening
<1> QED
  BY <1>1, <1>2, <1>3 DEF Next

\* The inductive invariant: types; sockets that listen are watched unless a
\* call failed; a port or a path is some server's, or will be; and what waits
\* in a backlog is reported, but for what a failed accept has left there.
THEOREM SetupInvariant ==
    ASSUME Servers # {}
    PROVE  Spec => []SetupInv
<1>1. Init => SetupInv
  BY InitSetupInv
<1>2. SetupInv /\ [Next]_<<ipc_type, vars>> => SetupInv'
  BY StepKeepsSetupInv
<1> QED
  BY <1>1, <1>2, PTL DEF Spec

\* However the starts of any number of servers interleave, in
\* comm_create_and_bind and comm_serv_thread, they do not end with nobody
\* served: once all are through, and no call failed for want of resources, the
\* address leads to one that listens and watches its socket.
THEOREM SomebodyIsServing ==
    ASSUME Servers # {}
    PROVE  Spec => []SomebodyServes
<1>1. SetupInv => SomebodyServes
  <2> SUFFICES ASSUME SetupInv, \A s \in Servers : pc[s] \notin StartUp,
                      \A s \in Servers : faults[s] = 0
               PROVE  \E s \in Reached : efd[s] = "watching"
    BY DEF SomebodyServes
  <2>1. /\ TypeOK /\ PathComes
        /\ \A s \in Servers :
              ListensInStep(s) /\ PortInStep(s) /\ PathInStep(s)
    BY DEF SetupInv
  <2>2. \A s \in Servers : pc[s] \in Serving \cup {"exit"} /\ ~Failed(s)
    BY <2>1 DEF TypeOK, Serving, Failed
  <2>3. \A s \in Listening : s \in Servers /\ efd[s] = "watching"
    BY <2>1, <2>2 DEF Listening, ListensInStep, AfterListen, Serving
  <2>4. CASE ipc_type = "COMM_TCP"
    <3>1. Listening # {} /\ Reached = Listening
      BY <2>1, <2>2, <2>4 DEF PortInStep, AfterListen, Serving, Reached
    <3> QED
      BY <2>3, <3>1
  <2>5. CASE ipc_type = "COMM_UNIX"
    <3>1. path # Nobody
      BY <2>1, <2>2, <2>5 DEF PathComes, WillBind, Serving
    <3>2. path \in Servers
      BY <2>1, <3>1 DEF TypeOK
    <3>3. sfd[path] = "listening"
      BY <2>1, <2>2, <2>5, <3>2 DEF PathInStep, Serving
    <3>4. path \in Listening /\ path \in Reached
      BY <2>5, <3>2, <3>3 DEF Reached, Listening
    <3> QED
      BY <2>3, <3>4
  <2>6. ipc_type \in {"COMM_UNIX", "COMM_TCP"}
    BY <2>1, ParametersAssumption DEF TypeOK
  <2> QED
    BY <2>4, <2>5, <2>6
<1> QED
  BY <1>1, SetupInvariant, PTL

\* Whoever has a handle has been accepted, or is in the backlog of a server
\* whose acceptor will see it: it is not waiting yet, or it is and epoll has
\* something to report; unless a call failed when the server started, or an
\* accept failed and nobody has connected since.
HandleIsNoticed ==
    \A c \in Clients : client[c] = "handle" =>
        \E s \in Servers :
            \/ c \in accepted[s]
            \/ /\ c \in backlog[s]
               /\ \/ pc[s] \in {"epoll_create", "epoll_ctl"} \/ Failed(s)
                  \/ pc[s] = "accept" /\ nonblocking[s]
                  \/ pc[s] = "wait" /\ (event[s] \/ c \in left[s])

\* The safety part of ConnectedIsAccepted: comm_client_init may connect before
\* comm_serv_thread watches its socket or between its last accept and its next
\* epoll_wait, and yet a connection waits for an event that will not come only
\* after an accept that failed, until somebody else connects.
THEOREM HandlesCorrect ==
    ASSUME Servers # {}
    PROVE  Spec => []HandleIsNoticed
<1>1. SetupInv => HandleIsNoticed
  <2> SUFFICES ASSUME SetupInv, NEW c \in Clients, client[c] = "handle"
               PROVE  \E s \in Servers :
                         \/ c \in accepted[s]
                         \/ /\ c \in backlog[s]
                            /\ \/ pc[s] \in {"epoll_create", "epoll_ctl"}
                               \/ Failed(s)
                               \/ pc[s] = "accept" /\ nonblocking[s]
                               \/ /\ pc[s] = "wait"
                                  /\ event[s] \/ c \in left[s]
    BY DEF HandleIsNoticed
  <2>1. PICK s \in Servers : c \in backlog[s] \cup accepted[s]
    BY DEF SetupInv, HandlesKept
  <2>2. ListensInStep(s) /\ BacklogInStep(s)
    BY DEF SetupInv
  <2>3. CASE c \in backlog[s]
    <3>1. sfd[s] = "listening" /\ pc[s] \in AfterListen
      BY <2>2, <2>3 DEF ListensInStep, BacklogInStep
    <3> QED
      BY <2>2, <2>3, <3>1
         DEF ListensInStep, BacklogInStep, AfterListen, Serving
  <2> QED
    BY <2>1, <2>3
<1> QED
  BY <1>1, SetupInvariant, PTL
=============================================================================
