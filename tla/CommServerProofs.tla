-------------------------- MODULE CommServerProofs --------------------------
(***************************************************************************)
(* Proofs about CommServer, for any clients, workers, descriptors, lengths *)
(* and faults: types, who holds a descriptor, and the events of a batch;   *)
(* then the order of requests, the abstract service, and stranded data.    *)
(***************************************************************************)
EXTENDS CommServer, TLAPS, FiniteSetTheorems, WellFoundedInduction,
        SequenceTheorems

\* The places a descriptor may be in.
InHand(f) == infd = f
InQueue(f) == InList(f, comm_queue)
InEntry(f) == \E w \in Workers : queue_entry[w] = f
InEpoll(f) == \E w \in Workers : f \in epoll[w]
Leaked(f) == f \in leaked

\* Threads that are not created yet do nothing.
CreatedInStep ==
    /\ created \in 0..num_workers => acceptor_pc = "none"
    /\ \A w \in Workers : created \in 0..w => worker_pc[w] = "none"

\* A thread has a descriptor in hand exactly when it is about to pass it on.
HandsInStep ==
    /\ acceptor_pc = "insert" <=> infd # NULL
    /\ \A w \in Workers : worker_pc[w] = "add" <=> queue_entry[w] # NULL

\* An open descriptor is in one place, and no other is in any.
OnePlace(f) ==
    /\ open[f] # NULL <=>
          InHand(f) \/ InQueue(f) \/ InEntry(f) \/ InEpoll(f) \/ Leaked(f)
    /\ InHand(f) => ~InQueue(f) /\ ~InEntry(f) /\ ~InEpoll(f) /\ ~Leaked(f)
    /\ InQueue(f) => ~InEntry(f) /\ ~InEpoll(f) /\ ~Leaked(f)
    /\ InEntry(f) => ~InEpoll(f) /\ ~Leaked(f)
    /\ InEpoll(f) => ~Leaked(f)

\* It is there once.
QueueOnce ==
    \A i, j \in 1..Len(comm_queue) : comm_queue[i] = comm_queue[j] => i = j
EntryOnce ==
    \A v, w \in Workers :
        queue_entry[v] = queue_entry[w] /\ queue_entry[v] # NULL => v = w
EpollOnce ==
    \A v, w \in Workers : \A f \in Fds : f \in epoll[v] /\ f \in epoll[w] =>
       v = w

PlacesInStep ==
    HandsInStep /\ (\A f \in Fds : OnePlace(f)) /\ QueueOnce /\ EntryOnce
        /\ EpollOnce

\* A ready list names registered descriptors, each once.
ReadyInStep ==
    \A w \in Workers :
        /\ \A i \in 1..Len(ready[w]) : ready[w][i] \in epoll[w]
        /\ \A i, j \in 1..Len(ready[w]) : ready[w][i] = ready[w][j] => i = j

\* What a worker does with the events of its last poll.
Handling == {"error_func", "header", "data", "client_func"}
BatchInStep ==
    \A w \in Workers :
        /\ worker_pc[w] \in Handling => events[w] # << >>
        /\ events[w] # << >> => worker_pc[w] \in Handling \cup {"events"}

\* The message in a worker's hands is of the connection of its event.
MessageInStep ==
    \A w \in Workers :
        worker_pc[w] \in {"data", "client_func"} =>
            /\ comm_msg[w] \in Messages
            /\ comm_msg[w].conn = open[event(w).fd]
            /\ worker_pc[w] = "data" => comm_msg[w].count < comm_msg[w].len

\* A client that is sending has data units left, and no other has.
SendingInStep ==
    \A c \in Clients : client_pc[c] = "sending" <=> sending[c] # << >>

ServerInv ==
    /\ TypeOK /\ CreatedInStep /\ PlacesInStep /\ ReadyInStep
    /\ BatchInStep /\ EventsAreCurrent /\ MessageInStep /\ SendingInStep

-----------------------------------------------------------------------------
(* The operators of the model                                              *)

\* A set of descriptors has a lowest one: the intervals up to its elements
\* are well founded by inclusion.
LEMMA LowestExists ==
    ASSUME NEW S \in SUBSET Fds, S # {}
    PROVE  \E f \in S : \A g \in S : f <= g
<1> DEFINE Below == {1..f : f \in S}
<1>1. Below \subseteq FiniteSubsetsOf(Fds) /\ Below # {}
  <2>1. ASSUME NEW f \in S PROVE 1..f \in FiniteSubsetsOf(Fds)
    <3>1. f \in Nat /\ 1..f \subseteq Fds
      BY ParametersAssumption DEF Fds
    <3> QED
      BY <3>1, FS_Interval DEF FiniteSubsetsOf
  <2> QED
    BY <2>1
<1>2. PICK X \in Below :
         \A Y \in Below : <<Y, X>> \notin StrictSubsetOrdering(Fds)
  <2> HIDE DEF Below
  <2> QED
    BY <1>1, WFMin, FS_StrictSubsetOrderingWellFounded
<1>3. PICK f \in S : X = 1..f
  OBVIOUS
<1>4. ASSUME NEW g \in S, g < f PROVE FALSE
  <2>1. /\ f \in Nat /\ g \in Nat /\ 1..f \subseteq Fds /\ 1..g \subseteq Fds
        /\ 1 <= f
    BY ParametersAssumption DEF Fds
  <2>2. 1..g \subseteq 1..f /\ f \in 1..f /\ f \notin 1..g
    BY <2>1, <1>4
  <2>3. 1..g # 1..f
    BY <2>2
  <2>4. <<1..g, 1..f>> \in StrictSubsetOrdering(Fds)
    BY <2>1, <2>2, <2>3, ZenonT(30) DEF StrictSubsetOrdering
  <2>5. 1..g \in Below
    OBVIOUS
  <2> QED
    BY <1>2, <1>3, <2>4, <2>5
<1> QED
  BY <1>4, ParametersAssumption DEF Fds

\* accept returns a descriptor that was free.
LEMMA LowestIsFree ==
    ASSUME FreeFds # {}
    PROVE  LowestFd \in Fds /\ open[LowestFd] = NULL
<1>1. FreeFds \in SUBSET Fds
  BY DEF FreeFds
<1>2. \E f \in FreeFds : \A g \in FreeFds : f <= g
  BY <1>1, LowestExists
<1>3. LowestFd \in FreeFds
  BY <1>2 DEF LowestFd
<1> QED
  BY <1>3 DEF FreeFds

\* NULL is no descriptor and no client.
LEMMA NullApart == NULL \notin Fds /\ NULL \notin Clients /\ Fds \subseteq Int
BY ParametersAssumption DEF Fds

\* What epoll reports are names of events.
LEMMA MaskType ==
    ASSUME NEW c
    PROVE  Mask(c) \in SUBSET {"EPOLLIN", "EPOLLHUP", "EPOLLERR"}
BY DEF Mask

\* An event on a connection adds its descriptor to a ready list, if it adds
\* anything.
LEMMA WakeEffect ==
    ASSUME TypeOK, NEW c \in Clients, Wake(c)
    PROVE  /\ ready' \in [Workers -> Seq(Fds)]
           /\ \A w \in Workers :
                \/ ready'[w] = ready[w]
                \/ \E f \in epoll[w] : /\ open[f] = c
                                       /\ ~ InList(f, ready[w])
                                       /\ ready'[w] = Append(ready[w], f)
<1> DEFINE Woken(w) == {f \in epoll[w] : open[f] = c /\ ~ InList(f, ready[w])}
           Next1(w) == IF Woken(w) = {} THEN ready[w]
                       ELSE Append(ready[w], CHOOSE f \in Woken(w) : TRUE)
<1>1. ready' = [w \in Workers |-> Next1(w)]
  BY DEF Wake
<1>2. ASSUME NEW w \in Workers
      PROVE  /\ Next1(w) \in Seq(Fds)
             /\ \/ Next1(w) = ready[w]
                \/ \E f \in epoll[w] : /\ open[f] = c
                                       /\ ~ InList(f, ready[w])
                                       /\ Next1(w) = Append(ready[w], f)
  <2>1. ready[w] \in Seq(Fds) /\ epoll[w] \in SUBSET Fds
    BY DEF TypeOK
  <2>2. CASE Woken(w) = {}
    BY <2>1, <2>2
  <2>3. CASE Woken(w) # {}
    <3> DEFINE f == CHOOSE f \in Woken(w) : TRUE
    <3>1. f \in Woken(w)
      BY <2>3
    <3>2. Next1(w) = Append(ready[w], f)
      BY <2>3
    <3> HIDE DEF f, Next1
    <3>3. f \in epoll[w] /\ open[f] = c /\ ~ InList(f, ready[w])
      BY <3>1
    <3>4. Append(ready[w], f) \in Seq(Fds)
      BY <2>1, <3>3, AppendProperties
    <3> QED
      BY <3>2, <3>3, <3>4
  <2> QED
    BY <2>2, <2>3
<1> HIDE DEF Next1
<1> QED
  BY <1>1, <1>2

\* Without leaves the other elements of a list that has each once.
LEMMA WithoutElements ==
    ASSUME NEW s \in Seq(Fds), NEW f \in Fds,
           \A i, j \in 1..Len(s) : s[i] = s[j] => i = j
    PROVE  /\ Without(s, f) \in Seq(Fds)
           /\ \A i \in 1..Len(Without(s, f)) :
                 Without(s, f)[i] # f /\ InList(Without(s, f)[i], s)
           /\ \A i, j \in 1..Len(Without(s, f)) :
                 Without(s, f)[i] = Without(s, f)[j] => i = j
           /\ \A g \in Fds : g # f /\ InList(g, s) => InList(g, Without(s, f))
<1>1. CASE ~ InList(f, s)
  <2>1. Without(s, f) = s
    BY <1>1 DEF Without
  <2>2. \A i \in 1..Len(s) : s[i] # f /\ InList(s[i], s)
    BY <1>1 DEF InList
  <2> QED
    BY <2>1, <2>2
<1>2. CASE InList(f, s)
  <2> DEFINE k == CHOOSE i \in 1..Len(s) : s[i] = f
             t == SubSeq(s, 1, k - 1) \o SubSeq(s, k + 1, Len(s))
  <2>1. k \in 1..Len(s) /\ s[k] = f
    BY <1>2 DEF InList
  <2>2. Without(s, f) = t
    BY <1>2 DEF Without
  <2> HIDE DEF k
  <2>3. Len(s) \in Nat /\ \A i \in 1..Len(s) : s[i] \in Fds
    OBVIOUS
  <2>4. /\ SubSeq(s, 1, k - 1) \in Seq(Fds) /\ Len(SubSeq(s, 1, k - 1)) = k - 1
        /\ \A i \in 1..(k - 1) : SubSeq(s, 1, k - 1)[i] = s[i]
    BY <2>1, <2>3
  <2>5. /\ SubSeq(s, k + 1, Len(s)) \in Seq(Fds)
        /\ Len(SubSeq(s, k + 1, Len(s))) = Len(s) - k
        /\ \A i \in 1..(Len(s) - k) : SubSeq(s, k + 1, Len(s))[i] = s[i + k]
    <3>1. k + 1 \in Int /\ \A i \in (k + 1)..Len(s) : s[i] \in Fds
      BY <2>1, <2>3
    <3>2. /\ SubSeq(s, k + 1, Len(s)) \in Seq(Fds)
          /\ Len(SubSeq(s, k + 1, Len(s))) =
                IF k + 1 <= Len(s) THEN Len(s) - (k + 1) + 1 ELSE 0
          /\ \A i \in 1..(Len(s) - (k + 1) + 1) :
                SubSeq(s, k + 1, Len(s))[i] = s[(k + 1) + i - 1]
      BY <2>3, <3>1, SubSeqProperties
    <3> QED
      BY <2>1, <2>3, <3>2
  <2>6. /\ t \in Seq(Fds) /\ Len(t) = Len(s) - 1
        /\ \A i \in 1..Len(t) : t[i] = IF i < k THEN s[i] ELSE s[i + 1]
    <3> DEFINE a == SubSeq(s, 1, k - 1)
               b == SubSeq(s, k + 1, Len(s))
    <3>1. /\ a \in Seq(Fds) /\ Len(a) = k - 1
          /\ \A i \in 1..(k - 1) : a[i] = s[i]
      BY <2>4
    <3>2. /\ b \in Seq(Fds) /\ Len(b) = Len(s) - k
          /\ \A i \in 1..(Len(s) - k) : b[i] = s[i + k]
      BY <2>5
    <3>3. t = a \o b
      OBVIOUS
    <3> HIDE DEF a, b, t
    <3>4. /\ a \o b \in Seq(Fds)
          /\ Len(a \o b) = Len(a) + Len(b)
          /\ \A i \in 1..(Len(a) + Len(b)) :
                (a \o b)[i] = IF i <= Len(a) THEN a[i] ELSE b[i - Len(a)]
      <4>1. a \in Seq(Fds) /\ b \in Seq(Fds)
        BY <3>1, <3>2
      <4> QED
        BY <4>1, ConcatProperties
    <3>5. ASSUME NEW i \in 1..Len(t)
          PROVE  t[i] = IF i < k THEN s[i] ELSE s[i + 1]
      <4>1. CASE i < k
        BY <2>1, <2>3, <3>1, <3>2, <3>3, <3>4, <3>5, <4>1
      <4>2. CASE i >= k
        <5>1. i - (k - 1) \in 1..(Len(s) - k) /\ (i - (k - 1)) + k = i + 1
          BY <2>1, <2>3, <3>1, <3>2, <3>3, <3>4, <3>5, <4>2
        <5> QED
          BY <2>1, <2>3, <3>1, <3>2, <3>3, <3>4, <3>5, <4>2, <5>1
      <4> QED
        BY <2>1, <4>1, <4>2
    <3> QED
      BY <2>1, <2>3, <3>1, <3>2, <3>3, <3>4, <3>5
  <2> HIDE DEF t
  <2>7. \A i \in 1..Len(t) : t[i] # f /\ InList(t[i], s)
    BY <2>1, <2>3, <2>6 DEF InList
  <2>8. \A i, j \in 1..Len(t) : t[i] = t[j] => i = j
    BY <2>1, <2>3, <2>6, SMTT(30)
  <2>9. ASSUME NEW g \in Fds, g # f, InList(g, s) PROVE InList(g, t)
    <3>1. PICK i \in 1..Len(s) : s[i] = g
      BY <2>9 DEF InList
    <3>2. CASE i < k
      <4>1. i \in 1..Len(t) /\ t[i] = g
        BY <2>1, <2>3, <2>6, <3>1, <3>2
      <4> QED
        BY <4>1 DEF InList
    <3>3. CASE i > k
      <4>1. i - 1 \in 1..Len(t) /\ t[i - 1] = g
        BY <2>1, <2>3, <2>6, <3>1, <3>3
      <4> QED
        BY <4>1 DEF InList
    <3> QED
      BY <2>1, <2>3, <2>9, <3>1, <3>2, <3>3
  <2> QED
    BY <2>2, <2>6, <2>7, <2>8, <2>9
<1> QED
  BY <1>1, <1>2

-----------------------------------------------------------------------------
(* What a worker has in hand                                               *)

\* The event a worker handles is of a descriptor of its own, open on the
\* connection it was reported for.
LEMMA EventInHand ==
    ASSUME ServerInv, NEW w \in Workers, events[w] # << >>,
           worker_pc[w] # "error_func"
    PROVE  /\ event(w) \in Events /\ event(w) = events[w][1]
           /\ event(w).fd \in epoll[w] /\ event(w).fd \in Fds
           /\ open[event(w).fd] = event(w).conn /\ event(w).conn \in Clients
           /\ open[event(w).fd] \in Clients
<1>1. events[w] \in Seq(Events) /\ Len(events[w]) >= 1
  BY DEF ServerInv, TypeOK
<1>2. event(w) = events[w][1] /\ events[w][1] \in Events
  BY <1>1 DEF event
<1>3. events[w][1].fd \in epoll[w] /\ open[events[w][1].fd] = events[w][1].conn
  BY <1>1 DEF ServerInv, EventsAreCurrent
<1> QED
  BY <1>2, <1>3 DEF Events

\* The rest of a batch.
LEMMA TailOfBatch ==
    ASSUME TypeOK, NEW w \in Workers, events[w] # << >>
    PROVE  /\ Tail(events[w]) \in Seq(Events)
           /\ Len(Tail(events[w])) = Len(events[w]) - 1
           /\ \A i \in 1..Len(Tail(events[w])) :
                 Tail(events[w])[i] = events[w][i + 1]
           /\ event(w) \in Events
BY HeadTailProperties DEF TypeOK, event

\* What Deliver does to the variables of the connection.
LEMMA DeliverType ==
    ASSUME ServerInv, NEW w \in Workers, worker_pc[w] = "client_func",
           Deliver(w, event(w).fd)
    PROVE  /\ delivered' \in [Clients -> Seq(1..MaxRequests)]
           /\ outbox' \in [Clients -> Seq(Answers)]
           /\ reset' \in SUBSET Clients
           /\ ready' \in [Workers -> Seq(Fds)]
           /\ comm_msg' \in [Workers -> Messages \cup {NULL}]
           /\ ready' = ready \/ Wake(open[event(w).fd])
<1> DEFINE msg == comm_msg[w]
           c == open[event(w).fd]
<1>1. events[w] # << >> /\ msg \in Messages
  BY DEF ServerInv, TypeOK, BatchInStep, Handling, MessageInStep
<1>2. c \in Clients
  BY <1>1, EventInHand
<1>3. msg.conn \in Clients /\ msg.seq \in 1..MaxRequests
  BY <1>1 DEF Messages
<1>4. delivered' = [delivered EXCEPT ![msg.conn] = Append(@, msg.seq)]
  BY DEF Deliver
<1>5. comm_msg' = [comm_msg EXCEPT ![w] = NULL]
  BY DEF Deliver
<1>6. SendAnswer(event(w).fd, [asker |-> msg.conn, seq |-> msg.seq])
  BY DEF Deliver
<1>7. [asker |-> msg.conn, seq |-> msg.seq] \in Answers
  BY <1>3 DEF Answers
<1> HIDE DEF msg
<1>8. /\ outbox' \in [Clients -> Seq(Answers)]
      /\ reset' \in SUBSET Clients
      /\ ready' = ready \/ Wake(c)
  <2> DEFINE answer == [asker |-> msg.conn, seq |-> msg.seq]
  <2>1. SendAnswer(event(w).fd, answer) /\ answer \in Answers
    BY <1>6, <1>7
  <2> HIDE DEF answer
  <2>2. outbox \in [Clients -> Seq(Answers)] /\ reset \in SUBSET Clients
    BY DEF ServerInv, TypeOK
  <2>3. CASE PeerOpen(c)
    <3>1. outbox' = [outbox EXCEPT ![c] = Append(@, answer)]
          /\ UNCHANGED <<reset, ready>>
      BY <2>1, <2>3 DEF SendAnswer
    <3> HIDE DEF c
    <3> QED
      BY <1>2, <2>1, <2>2, <3>1
  <2>4. CASE ~PeerOpen(c)
    <3>1. /\ UNCHANGED outbox
          /\ \/ reset' = reset \cup {c} /\ Wake(c)
             \/ UNCHANGED <<reset, ready>>
      BY <2>1, <2>4 DEF SendAnswer
    <3> HIDE DEF c
    <3> QED
      BY <1>2, <2>2, <3>1
  <2> QED
    BY <2>3, <2>4
<1>9. ready' \in [Workers -> Seq(Fds)]
  BY <1>2, <1>8, WakeEffect DEF ServerInv, TypeOK
<1>10. delivered' \in [Clients -> Seq(1..MaxRequests)]
  BY <1>3, <1>4, SMTT(30) DEF ServerInv, TypeOK
<1> QED
  BY <1>5, <1>8, <1>9, <1>10 DEF ServerInv, TypeOK

-----------------------------------------------------------------------------
(* Type correctness                                                        *)

LEMMA TypeInit == Init => TypeOK
<1> SUFFICES ASSUME Init PROVE TypeOK
  OBVIOUS
<1> USE ParametersAssumption
<1>0. "none" \in WorkerPcs
  BY DEF WorkerPcs
<1>1. 0 \in Workers /\ 0 \in 0..MaxRequests /\ 0 \in -1..(num_workers + 1)
  BY DEF Workers
<1>2. /\ received = [c \in Clients |-> << >>]
      /\ sending = [c \in Clients |-> << >>]
      /\ inbox = [c \in Clients |-> << >>]
      /\ outbox = [c \in Clients |-> << >>]
      /\ delivered = [c \in Clients |-> << >>]
      /\ ready = [w \in Workers |-> << >>]
      /\ events = [w \in Workers |-> << >>]
  BY DEF Init
<1>3. /\ sending \in [Clients -> Seq(Units)]
      /\ received \in [Clients -> Seq(Answers)]
      /\ inbox \in [Clients -> Seq(Units)]
      /\ outbox \in [Clients -> Seq(Answers)]
      /\ delivered \in [Clients -> Seq(1..MaxRequests)]
      /\ ready \in [Workers -> Seq(Fds)] /\ events \in [Workers -> Seq(Events)]
  BY <1>2
<1>4. /\ worker_pc \in [Workers -> WorkerPcs]
      /\ epoll \in [Workers -> SUBSET Fds]
      /\ queue_entry \in [Workers -> Fds \cup {NULL}]
      /\ comm_msg \in [Workers -> Messages \cup {NULL}]
      /\ open \in [Fds -> Clients \cup {NULL}]
  BY <1>0 DEF Init
<1>5. /\ client_pc \in [Clients -> {"new", "idle", "sending", "closed"}]
      /\ sent \in [Clients -> 0..MaxRequests]
  BY <1>1 DEF Init
<1>6. backlog \in Seq(Clients) /\ comm_queue \in Seq(Fds)
  BY DEF Init
<1> QED
  BY <1>1, <1>3, <1>4, <1>5, <1>6 DEF Init, TypeOK

\* A client's steps.
LEMMA TypeClient ==
    ASSUME ServerInv, NEW c \in Clients, ClientStep(c)
    PROVE  TypeOK'
<1> USE ParametersAssumption
    DEF clientVars, listenVars, streamVars, epollVars, serverVars, workerVars,
        history
<1>0. TypeOK
  BY DEF ServerInv
<1>1. CASE Connect(c)
  BY <1>0, <1>1 DEF Connect, TypeOK
<1>2. CASE SendHeader(c)
  <2>1. PICK len \in DataLens :
           LET unit(i) == [seq |-> sent[c] + 1, len |-> len, part |-> i]
           IN  /\ inbox' = [inbox EXCEPT ![c] = Append(@, unit(0))]
               /\ sending' = [sending EXCEPT ![c] = [i \in 1..len |-> unit(i)]]
               /\ client_pc' = [client_pc EXCEPT ![c] =
                                   IF len = 0 THEN "idle" ELSE "sending"]
    BY <1>2 DEF SendHeader
  <2> DEFINE unit(i) == [seq |-> sent[c] + 1, len |-> len, part |-> i]
  <2>2. sent[c] + 1 \in 1..MaxRequests /\ len \in Nat
    BY <1>0, <1>2, SMTT(30) DEF SendHeader, TypeOK
  <2>3. ASSUME NEW i \in Nat PROVE unit(i) \in Units
    BY <2>2 DEF Units
  <2>4. [i \in 1..len |-> unit(i)] \in Seq(Units)
    BY <2>2, <2>3
  <2>5. inbox' \in [Clients -> Seq(Units)]
    <3>1. /\ inbox' = [inbox EXCEPT ![c] = Append(@, unit(0))]
          /\ unit(0) \in Units
      BY <2>1, <2>3
    <3> HIDE DEF unit
    <3> QED
      BY <1>0, <3>1 DEF TypeOK
  <2>6. sending' \in [Clients -> Seq(Units)]
    <3> DEFINE list == [i \in 1..len |-> unit(i)]
    <3>1. sending' = [sending EXCEPT ![c] = list] /\ list \in Seq(Units)
      BY <2>1, <2>4
    <3> HIDE DEF list
    <3> QED
      BY <1>0, <3>1 DEF TypeOK
  <2>7. client_pc' \in [Clients -> {"new", "idle", "sending", "closed"}]
    BY <1>0, <2>1 DEF TypeOK
  <2>8. sent' \in [Clients -> 0..MaxRequests]
    BY <1>0, <1>2, <2>2, SMTT(30) DEF SendHeader, TypeOK
  <2>9. ready' \in [Workers -> Seq(Fds)]
    BY <1>0, <1>2, WakeEffect DEF SendHeader
  <2> QED
    BY <1>0, <1>2, <2>5, <2>6, <2>7, <2>8, <2>9 DEF SendHeader, TypeOK
<1>3. CASE SendData(c)
  <2>1. sending[c] \in Seq(Units) /\ sending[c] # << >>
    BY <1>0, <1>3 DEF SendData, TypeOK, ServerInv, SendingInStep
  <2>2. Head(sending[c]) \in Units /\ Tail(sending[c]) \in Seq(Units)
    BY <2>1
  <2>3. /\ inbox' \in [Clients -> Seq(Units)]
        /\ sending' \in [Clients -> Seq(Units)]
    <3>1. /\ inbox' = [inbox EXCEPT ![c] = Append(@, Head(sending[c]))]
          /\ sending' = [sending EXCEPT ![c] = Tail(@)]
      BY <1>3 DEF SendData
    <3>2. Append(inbox[c], Head(sending[c])) \in Seq(Units)
      BY <1>0, <2>2 DEF TypeOK
    <3> QED
      BY <1>0, <2>2, <3>1, <3>2 DEF TypeOK
  <2>4. ready' \in [Workers -> Seq(Fds)]
    BY <1>0, <1>3, WakeEffect DEF SendData
  <2> QED
    BY <1>0, <1>3, <2>3, <2>4 DEF SendData, TypeOK
<1>4. CASE Receive(c)
  <2>1. outbox[c] \in Seq(Answers) /\ received[c] \in Seq(Answers)
    BY <1>0 DEF TypeOK
  <2>2. Head(outbox[c]) \in Answers /\ Tail(outbox[c]) \in Seq(Answers)
    BY <1>4, <2>1 DEF Receive
  <2> QED
    BY <1>0, <1>4, <2>2, SMTT(30) DEF Receive, TypeOK
<1>5. CASE Close(c)
  <2>1. ready' \in [Workers -> Seq(Fds)]
    BY <1>0, <1>5, WakeEffect DEF Close
  <2>2. << >> \in Seq(Units) /\ << >> \in Seq(Answers)
    OBVIOUS
  <2>3. /\ sending' \in [Clients -> Seq(Units)]
        /\ outbox' \in [Clients -> Seq(Answers)]
    BY <1>0, <1>5, <2>2 DEF Close, TypeOK
  <2> QED
    BY <1>0, <1>5, <2>1, <2>3 DEF Close, TypeOK
<1> QED
  BY <1>1, <1>2, <1>3, <1>4, <1>5 DEF ClientStep

\* comm_server_init and the acceptor.
LEMMA TypeAcceptor ==
    ASSUME ServerInv, CreateThread \/ AcceptorStep
    PROVE  TypeOK'
<1> USE ParametersAssumption
    DEF clientVars, listenVars, streamVars, epollVars, serverVars, workerVars,
        history, acceptorUnchanged
<1>0. TypeOK
  BY DEF ServerInv
<1>1. CASE CreateThread
  <2>1. created' \in -1..(num_workers + 1)
    BY <1>0, <1>1 DEF CreateThread, TypeOK
  <2>2. worker_pc' \in [Workers -> WorkerPcs]
    BY <1>0, <1>1 DEF CreateThread, TypeOK, WorkerPcs
  <2> QED
    BY <1>0, <1>1, <2>1, <2>2 DEF CreateThread, TypeOK
<1>2. CASE AwaitConnection
  BY <1>0, <1>2 DEF AwaitConnection, TypeOK
<1>3. CASE AcceptConnection
  <2>1. LowestFd \in Fds
    BY <1>3, LowestIsFree DEF AcceptConnection
  <2>2. Head(backlog) \in Clients /\ Tail(backlog) \in Seq(Clients)
    BY <1>0, <1>3 DEF AcceptConnection, TypeOK
  <2> QED
    BY <1>0, <1>3, <2>1, <2>2 DEF AcceptConnection, TypeOK
<1>4. CASE AcceptFails
  BY <1>0, <1>4 DEF AcceptFails, TypeOK
<1>5. CASE InsertSocket
  <2>1. infd \in Fds
    BY <1>0, <1>5 DEF InsertSocket, TypeOK, ServerInv, PlacesInStep,
       HandsInStep
  <2>2. Append(comm_queue, infd) \in Seq(Fds)
    BY <1>0, <2>1 DEF TypeOK
  <2> QED
    BY <1>0, <1>5, <2>2 DEF InsertSocket, TypeOK
<1> QED
  BY <1>1, <1>2, <1>3, <1>4, <1>5 DEF AcceptorStep

\* The workers.
LEMMA TypeWorker ==
    ASSUME ServerInv, NEW w \in Workers, WorkerStep(w)
    PROVE  TypeOK'
<1> USE ParametersAssumption
    DEF clientVars, listenVars, streamVars, epollVars, serverVars, workerVars,
        history, Goto
<1>0. TypeOK
  BY DEF ServerInv
<1>a. ASSUME NEW pc \in WorkerPcs
      PROVE  [worker_pc EXCEPT ![w] = pc] \in [Workers -> WorkerPcs]
  BY <1>0 DEF TypeOK
<1>b. WorkerPcs = {"none", "start", "turn", "get", "add", "poll", "events",
                   "error_func", "header", "data", "client_func", "exited"}
  BY DEF WorkerPcs
<1>1. CASE Start(w)
  BY <1>0, <1>1, <1>b DEF Start, TypeOK
<1>2. CASE TakeTurn(w)
  <2>1. cur_worker_index' \in Workers
    BY <1>0, <1>2, SMTT(30) DEF TakeTurn, TypeOK, Workers
  <2>2. worker_pc' \in [Workers -> WorkerPcs]
    BY <1>2, <1>a, <1>b DEF TakeTurn
  <2> QED
    BY <1>0, <1>2, <2>1, <2>2 DEF TakeTurn, TypeOK
<1>3. CASE GetSocket(w)
  <2>1. worker_pc' \in [Workers -> WorkerPcs]
    BY <1>3, <1>a, <1>b DEF GetSocket
  <2>2. /\ comm_queue' \in Seq(Fds)
        /\ queue_entry' \in [Workers -> Fds \cup {NULL}]
    <3>1. comm_queue # << >> =>
             Head(comm_queue) \in Fds /\ Tail(comm_queue) \in Seq(Fds)
      BY <1>0 DEF TypeOK
    <3>2. CASE comm_queue = << >>
      BY <1>0, <1>3, <3>2 DEF GetSocket, TypeOK
    <3>3. CASE comm_queue # << >>
      <4>1. /\ queue_entry' = [queue_entry EXCEPT ![w] = Head(comm_queue)]
            /\ comm_queue' = Tail(comm_queue)
        BY <1>3, <3>3 DEF GetSocket
      <4> QED
        BY <1>0, <3>1, <3>3, <4>1 DEF TypeOK
    <3> QED
      BY <3>2, <3>3
  <2> QED
    BY <1>0, <1>3, <2>1, <2>2 DEF GetSocket, TypeOK
<1>4. CASE AddSocket(w)
  <2>1. queue_entry[w] \in Fds
    BY <1>0, <1>4 DEF AddSocket, TypeOK, ServerInv, PlacesInStep, HandsInStep
  <2>2. worker_pc' \in [Workers -> WorkerPcs]
    BY <1>4, <1>a, <1>b DEF AddSocket
  <2>3. /\ epoll' \in [Workers -> SUBSET Fds] /\ leaked' \in SUBSET Fds
        /\ ready' \in [Workers -> Seq(Fds)]
    <3> DEFINE f == queue_entry[w]
               list == IF Mask(open[f]) = {} THEN ready[w]
                       ELSE Append(ready[w], f)
    <3>1. list \in Seq(Fds)
      <4>1. ready[w] \in Seq(Fds)
        BY <1>0 DEF TypeOK
      <4> QED
        BY <2>1, <4>1
    <3>2. \/ /\ epoll' = [epoll EXCEPT ![w] = @ \cup {f}]
             /\ ready' = [ready EXCEPT ![w] = list]
             /\ leaked' = leaked
          \/ epoll' = epoll /\ ready' = ready /\ leaked' = leaked \cup {f}
      BY <1>0, <1>4 DEF AddSocket, TypeOK
    <3>3. f \in Fds /\ epoll[w] \cup {f} \in SUBSET Fds
      BY <1>0, <2>1 DEF TypeOK
    <3> HIDE DEF list, f
    <3>4. [epoll EXCEPT ![w] = @ \cup {f}] \in [Workers -> SUBSET Fds]
      BY <1>0, <3>3 DEF TypeOK
    <3>5. [ready EXCEPT ![w] = list] \in [Workers -> Seq(Fds)]
      BY <1>0, <3>1 DEF TypeOK
    <3> QED
      BY <1>0, <3>2, <3>3, <3>4, <3>5 DEF TypeOK
  <2> QED
    BY <1>0, <1>4, <2>2, <2>3 DEF AddSocket, TypeOK
<1>5. CASE Poll(w)
  <2> DEFINE n == IF Len(ready[w]) < MAXEVENTS
                  THEN Len(ready[w]) ELSE MAXEVENTS
             reported == {i \in 1..n : Mask(open[ready[w][i]]) # {}}
  <2>1. PICK order \in Orders(reported) :
           events' = [events EXCEPT ![w] =
              [i \in 1..Cardinality(reported) |-> EventOf(ready[w][order[i]])]]
    BY <1>5 DEF Poll
  <2>2. n \in Nat /\ n <= Len(ready[w]) /\ ready[w] \in Seq(Fds)
    BY <1>0 DEF TypeOK
  <2>3. IsFiniteSet(reported)
    <3>1. IsFiniteSet(1..n) /\ reported \in SUBSET (1..n)
      BY <2>2, FS_Interval
    <3> QED
      BY <3>1, FS_Subset
  <2>4. Cardinality(reported) \in Nat
    BY <2>3, FS_CardinalityType
  <2>5. ASSUME NEW i \in 1..n PROVE EventOf(ready[w][i]) \in Events
    <3>1. ready[w][i] \in Fds /\ ready[w][i] \in epoll[w]
      BY <1>0, <2>2 DEF TypeOK, ServerInv, ReadyInStep
    <3>2. open[ready[w][i]] \in Clients
      BY <1>0, <3>1 DEF TypeOK, ServerInv, PlacesInStep, OnePlace, InEpoll
    <3> QED
      BY <3>1, <3>2, MaskType DEF EventOf, Events
  <2>6. \A i \in 1..Cardinality(reported) :
           EventOf(ready[w][order[i]]) \in Events
    BY <2>5 DEF Orders
  <2> DEFINE batch == [i \in 1..Cardinality(reported) |->
                          EventOf(ready[w][order[i]])]
  <2>7. batch \in Seq(Events)
    <3> DEFINE k == Cardinality(reported)
    <3>1. k \in Nat /\ batch \in [1..k -> Events]
      BY <2>4, <2>6
    <3> HIDE DEF k, batch
    <3> QED
      BY <3>1
  <2>8. events' = [events EXCEPT ![w] = batch]
    BY <2>1
  <2>9. events' \in [Workers -> Seq(Events)]
    <3> HIDE DEF batch
    <3> QED
      BY <1>0, <2>7, <2>8 DEF TypeOK
  <2>10. ready' \in [Workers -> Seq(Fds)]
    <3> HIDE DEF n
    <3>1. ready' = [ready EXCEPT ![w] = SubSeq(@, n + 1, Len(@))]
      BY <1>5 DEF Poll, n
    <3>2. SubSeq(ready[w], n + 1, Len(ready[w])) \in Seq(Fds)
      BY <2>2
    <3> QED
      BY <1>0, <3>1, <3>2 DEF TypeOK
  <2>11. worker_pc' \in [Workers -> WorkerPcs]
    BY <1>5, <1>a, <1>b DEF Poll
  <2> HIDE DEF batch, n, reported
  <2> QED
    BY <1>0, <1>5, <2>9, <2>10, <2>11 DEF Poll, TypeOK
<1>6. CASE PollFails(w)
  BY <1>0, <1>6, <1>b DEF PollFails, TypeOK
<1>7. CASE EventsDone(w)
  BY <1>0, <1>7, <1>b DEF EventsDone, TypeOK
<1>8. CASE CloseOnError(w)
  <2>1. event(w).fd \in Fds /\ open[event(w).fd] \in Clients
    BY <1>8, EventInHand DEF CloseOnError
  <2>2. inbox' \in [Clients -> Seq(Units)]
    <3>1. << >> \in Seq(Units)
      OBVIOUS
    <3> QED
      BY <1>0, <1>8, <3>1 DEF CloseOnError, TypeOK
  <2>3. ready' \in [Workers -> Seq(Fds)]
    <3>1. \A v \in Workers : Without(ready[v], event(w).fd) \in Seq(Fds)
      BY <1>0, <2>1, WithoutElements DEF TypeOK, ServerInv, ReadyInStep
    <3> QED
      BY <1>8, <3>1 DEF CloseOnError
  <2>4. worker_pc' \in [Workers -> WorkerPcs]
    BY <1>8, <1>a, <1>b DEF CloseOnError
  <2>5. /\ open' \in [Fds -> Clients \cup {NULL}]
        /\ epoll' \in [Workers -> SUBSET Fds]
    BY <1>0, <1>8, <2>1 DEF CloseOnError, TypeOK
  <2> QED
    BY <1>0, <1>8, <2>2, <2>3, <2>4, <2>5 DEF CloseOnError, TypeOK
<1>9. CASE ErrorFunc(w)
  <2>1. Tail(events[w]) \in Seq(Events)
    BY <1>0, <1>9, TailOfBatch DEF ErrorFunc, ServerInv, BatchInStep, Handling
  <2> QED
    BY <1>0, <1>9, <1>b, <2>1 DEF ErrorFunc, TypeOK
<1>10. CASE StartMessage(w)
  BY <1>0, <1>10, <1>b DEF StartMessage, TypeOK
<1>11. CASE ReadHeader(w)
  <2> DEFINE c == open[event(w).fd]
             unit == Head(inbox[c])
  <2>1. c \in Clients
    BY <1>11, EventInHand DEF ReadHeader, ServerInv, BatchInStep, Handling
  <2>2. inbox[c] \in Seq(Units) /\ inbox[c] # << >>
    BY <1>0, <1>11, <2>1 DEF ReadHeader, Readable, TypeOK
  <2>3. unit \in Units /\ Tail(inbox[c]) \in Seq(Units)
    BY <2>2
  <2>4. [conn |-> c, seq |-> unit.seq, len |-> unit.len, count |-> 0]
           \in Messages
    BY <2>1, <2>3 DEF Units, Messages
  <2>5. /\ inbox' = [inbox EXCEPT ![c] = Tail(@)]
        /\ comm_msg' = [comm_msg EXCEPT ![w] =
             [conn |-> c, seq |-> unit.seq, len |-> unit.len, count |-> 0]]
    BY <1>11 DEF ReadHeader
  <2>6. worker_pc' \in [Workers -> WorkerPcs]
    BY <1>11, <1>a, <1>b DEF ReadHeader
  <2> HIDE DEF c, unit
  <2>7. /\ inbox' \in [Clients -> Seq(Units)]
        /\ comm_msg' \in [Workers -> Messages \cup {NULL}]
    BY <1>0, <2>1, <2>3, <2>4, <2>5 DEF TypeOK
  <2> QED
    BY <1>0, <1>11, <2>6, <2>7 DEF ReadHeader, TypeOK
<1>12. CASE ReadData(w)
  <2> DEFINE c == open[event(w).fd]
  <2>1. c \in Clients
    BY <1>12, EventInHand DEF ReadData, ServerInv, BatchInStep, Handling
  <2>2. inbox[c] \in Seq(Units) /\ inbox[c] # << >>
    BY <1>0, <1>12, <2>1 DEF ReadData, Readable, TypeOK
  <2>3. inbox' \in [Clients -> Seq(Units)]
    BY <1>0, <1>12, <2>1, <2>2, SMTT(30) DEF ReadData, TypeOK
  <2>4. comm_msg[w] \in Messages
    BY <1>0, <1>12 DEF ReadData, TypeOK, ServerInv, MessageInStep
  <2>5. [comm_msg[w] EXCEPT !.count = @ + 1] \in Messages
    BY <2>4 DEF Messages
  <2>6. comm_msg' =
           [comm_msg EXCEPT ![w] = [comm_msg[w] EXCEPT !.count = @ + 1]]
    BY <1>12 DEF ReadData
  <2>7. comm_msg' \in [Workers -> Messages \cup {NULL}]
    BY <1>0, <2>5, <2>6 DEF TypeOK
  <2>8. worker_pc' \in [Workers -> WorkerPcs]
    BY <1>12, <1>a, <1>b DEF ReadData
  <2> QED
    BY <1>0, <1>12, <2>3, <2>7, <2>8 DEF ReadData, TypeOK
<1>13. CASE ReadFails(w)
  <2>1. << >> \in Seq(Events)
    OBVIOUS
  <2> QED
    BY <1>0, <1>13, <1>b, <2>1 DEF ReadFails, TypeOK
<1>14. CASE ClientFunc(w)
  <2>1. Deliver(w, event(w).fd) /\ worker_pc[w] = "client_func"
    BY <1>14 DEF ClientFunc
  <2>2. Tail(events[w]) \in Seq(Events)
    BY <1>0, <2>1, TailOfBatch DEF ServerInv, BatchInStep, Handling
  <2>3. worker_pc' \in [Workers -> WorkerPcs]
    BY <1>14, <1>a, <1>b DEF ClientFunc
  <2> QED
    BY <1>0, <1>14, <2>1, <2>2, <2>3, DeliverType DEF ClientFunc, Deliver,
       TypeOK
<1> QED
  BY <1>1, <1>2, <1>3, <1>4, <1>5, <1>6, <1>7, <1>8, <1>9, <1>10, <1>11, <1>12,
     <1>13, <1>14 DEF WorkerStep

-----------------------------------------------------------------------------
(* The places of descriptors                                               *)

LEMMA CreatedStep == ServerInv /\ [Next]_vars => CreatedInStep'
<1> SUFFICES ASSUME ServerInv, [Next]_vars PROVE CreatedInStep'
  OBVIOUS
<1> USE ParametersAssumption
    DEF clientVars, listenVars, streamVars, epollVars, serverVars, workerVars,
        history, acceptorUnchanged, Goto
<1>0. TypeOK /\ CreatedInStep
  BY DEF ServerInv
<1>1. CASE CreateThread
  <2>1. CASE created' = -1 /\ UNCHANGED <<worker_pc, acceptor_pc>>
    BY <2>1 DEF CreatedInStep
  <2>2. CASE /\ created' = created + 1
             /\ worker_pc' = [w \in Workers |->
                                IF w = created THEN "start" ELSE worker_pc[w]]
             /\ acceptor_pc' =
                  IF created = num_workers THEN "wait" ELSE acceptor_pc
    <3>1. created \in 0..num_workers
      BY <1>1 DEF CreateThread
    <3>2. created' \in 0..num_workers => acceptor_pc' = "none"
      BY <1>0, <2>2, <3>1 DEF CreatedInStep
    <3>3. ASSUME NEW w \in Workers, created' \in 0..w
          PROVE  worker_pc'[w] = "none"
      <4>1. created \in 0..w /\ w # created
        BY <2>2, <3>1, <3>3 DEF Workers
      <4> QED
        BY <1>0, <2>2, <4>1 DEF CreatedInStep
    <3> QED
      BY <3>2, <3>3 DEF CreatedInStep
  <2> QED
    BY <1>1, <2>1, <2>2 DEF CreateThread
<1>2. ASSUME NEW v \in Workers, worker_pc[v] # "none",
             UNCHANGED <<created, acceptor_pc>>,
             \A w \in Workers : w # v => worker_pc'[w] = worker_pc[w]
      PROVE  CreatedInStep'
  BY <1>0, <1>2 DEF CreatedInStep
<1>3. ASSUME NEW w \in Workers, WorkerStep(w) PROVE CreatedInStep'
  <2>1. worker_pc[w] # "none" /\ UNCHANGED <<created, acceptor_pc>>
    BY <1>3 DEF WorkerStep, Start, TakeTurn, GetSocket, AddSocket, Poll,
       PollFails, EventsDone, CloseOnError, ErrorFunc, StartMessage,
       ReadHeader, ReadData, ReadFails, ClientFunc, Deliver
  <2>2. \A v \in Workers : v # w => worker_pc'[v] = worker_pc[v]
    BY <1>0, <1>3 DEF TypeOK, WorkerStep, Start, TakeTurn, GetSocket,
       AddSocket, Poll, PollFails, EventsDone, CloseOnError, ErrorFunc,
       StartMessage, ReadHeader, ReadData, ReadFails, ClientFunc
  <2> QED
    BY <1>2, <2>1, <2>2
<1>4. CASE AcceptorStep
  <2>1. acceptor_pc # "none" /\ UNCHANGED <<created, worker_pc>>
    BY <1>4 DEF AcceptorStep, AwaitConnection, AcceptConnection, AcceptFails,
       InsertSocket
  <2> QED
    BY <1>0, <2>1 DEF CreatedInStep
<1>5. ASSUME NEW c \in Clients, ClientStep(c)
      PROVE  UNCHANGED <<created, acceptor_pc, worker_pc>>
  BY <1>5 DEF ClientStep, Connect, SendHeader, SendData, Receive, Close
<1>6. CASE UNCHANGED <<created, acceptor_pc, worker_pc>>
  BY <1>0, <1>6 DEF CreatedInStep
<1> QED
  BY <1>1, <1>3, <1>4, <1>5, <1>6 DEF Next, vars

\* When places and what is open stay, it remains to see to the threads.
LEMMA PlacesStay ==
    ASSUME PlacesInStep, HandsInStep',
           UNCHANGED <<open, infd, comm_queue, queue_entry, epoll, leaked>>
    PROVE  PlacesInStep'
BY DEF PlacesInStep, OnePlace, InHand, InQueue, InList, InEntry, InEpoll,
   Leaked, QueueOnce, EntryOnce, EpollOnce

\* The connection of a client's step, or of a new thread, is nobody's.
LEMMA PlacesClient ==
    ASSUME ServerInv, \/ \E c \in Clients : ClientStep(c)
                      \/ CreateThread
                      \/ UNCHANGED vars
    PROVE  PlacesInStep'
<1> USE DEF clientVars, listenVars, streamVars, epollVars, serverVars,
       workerVars, history
<1>0. PlacesInStep /\ CreatedInStep /\ HandsInStep
  BY DEF ServerInv, PlacesInStep
<1>1. UNCHANGED <<open, infd, comm_queue, queue_entry, epoll, leaked>>
  BY DEF ClientStep, Connect, SendHeader, SendData, Receive, Close,
     CreateThread, vars
<1>2. CASE UNCHANGED <<acceptor_pc, worker_pc>>
  BY <1>0, <1>1, <1>2, PlacesStay DEF HandsInStep
<1>3. CASE CreateThread
  <2>1. HandsInStep'
    BY <1>0, <1>1, <1>3, ParametersAssumption
    DEF CreateThread, CreatedInStep, HandsInStep, Workers
  <2> QED
    BY <1>0, <1>1, <2>1, PlacesStay
<1> QED
  BY <1>2, <1>3 DEF ClientStep, Connect, SendHeader, SendData, Receive, Close,
     vars

LEMMA PlacesAcceptor ==
    ASSUME ServerInv, AcceptorStep
    PROVE  PlacesInStep'
<1> USE DEF clientVars, listenVars, streamVars, epollVars, serverVars,
       workerVars, history, acceptorUnchanged
<1>0. TypeOK /\ PlacesInStep /\ HandsInStep /\ NULL \notin Fds
  BY NullApart DEF ServerInv, PlacesInStep
<1>1. CASE AwaitConnection \/ AcceptFails
  <2>1. HandsInStep'
    BY <1>0, <1>1 DEF AwaitConnection, AcceptFails, HandsInStep
  <2> QED
    BY <1>0, <1>1, <2>1, PlacesStay DEF AwaitConnection, AcceptFails
<1>2. CASE AcceptConnection
  <2>1. LowestFd \in Fds /\ open[LowestFd] = NULL
    BY <1>2, LowestIsFree DEF AcceptConnection
  <2>2. /\ infd = NULL /\ infd' = LowestFd /\ acceptor_pc' = "insert"
        /\ UNCHANGED <<comm_queue, queue_entry, epoll, leaked, worker_pc>>
    BY <1>0, <1>2 DEF AcceptConnection, HandsInStep
  <2>3. \A f \in Fds : open'[f] # NULL <=> open[f] # NULL \/ f = LowestFd
    <3>1. Head(backlog) \in Clients
      BY <1>0, <1>2 DEF AcceptConnection, TypeOK
    <3>2. open' = [open EXCEPT ![LowestFd] = Head(backlog)]
      BY <1>2 DEF AcceptConnection
    <3>3. Head(backlog) # NULL
      BY <3>1, NullApart
    <3>4. open \in [Fds -> Clients \cup {NULL}]
      BY <1>0 DEF TypeOK
    <3> QED
      BY <2>1, <3>2, <3>3, <3>4
  <2>4. ASSUME NEW f \in Fds PROVE OnePlace(f)'
    <3>1. OnePlace(f)
      BY <1>0 DEF PlacesInStep
    <3>2. /\ InQueue(f)' <=> InQueue(f)
          /\ InEntry(f)' <=> InEntry(f)
          /\ InEpoll(f)' <=> InEpoll(f)
          /\ Leaked(f)' <=> Leaked(f)
          /\ ~InHand(f)
          /\ InHand(f)' <=> f = LowestFd
      BY <1>0, <2>2 DEF InQueue, InList, InEntry, InEpoll, Leaked, InHand
    <3> QED
      BY <2>1, <2>3, <3>1, <3>2 DEF OnePlace
  <2>5. HandsInStep'
    BY <1>0, <2>1, <2>2 DEF HandsInStep
  <2>6. QueueOnce' /\ EntryOnce' /\ EpollOnce'
    BY <1>0, <2>2 DEF PlacesInStep, QueueOnce, EntryOnce, EpollOnce
  <2> QED
    BY <2>4, <2>5, <2>6 DEF PlacesInStep
<1>3. CASE InsertSocket
  <2>1. /\ infd \in Fds /\ infd' = NULL /\ acceptor_pc' = "accept"
        /\ comm_queue' = Append(comm_queue, infd)
        /\ UNCHANGED <<open, queue_entry, epoll, leaked, worker_pc>>
    BY <1>0, <1>3 DEF InsertSocket, HandsInStep, TypeOK
  <2>2. /\ comm_queue \in Seq(Fds) /\ Len(comm_queue') = Len(comm_queue) + 1
        /\ \A i \in 1..Len(comm_queue) : comm_queue'[i] = comm_queue[i]
        /\ comm_queue'[Len(comm_queue) + 1] = infd
    BY <1>0, <2>1, AppendProperties DEF TypeOK
  <2>3. ASSUME NEW f \in Fds PROVE InQueue(f)' <=> InQueue(f) \/ f = infd
    BY <2>2 DEF InQueue, InList
  <2>4. ASSUME NEW f \in Fds PROVE OnePlace(f)'
    <3>1. OnePlace(f)
      BY <1>0 DEF PlacesInStep
    <3>2. /\ InEntry(f)' <=> InEntry(f)
          /\ InEpoll(f)' <=> InEpoll(f)
          /\ Leaked(f)' <=> Leaked(f)
          /\ ~InHand(f)'
          /\ InHand(f) <=> f = infd
      BY <1>0, <2>1 DEF InEntry, InEpoll, Leaked, InHand
    <3> QED
      BY <2>1, <2>3, <3>1, <3>2 DEF OnePlace
  <2>5. HandsInStep'
    BY <1>0, <2>1 DEF HandsInStep
  <2>6. QueueOnce'
    <3>1. ~InQueue(infd) /\ QueueOnce
      BY <1>0, <2>1 DEF PlacesInStep, OnePlace, InHand
    <3> QED
      BY <2>1, <2>2, <3>1 DEF QueueOnce, InQueue, InList
  <2>7. EntryOnce' /\ EpollOnce'
    BY <1>0, <2>1 DEF PlacesInStep, EntryOnce, EpollOnce
  <2> QED
    BY <2>4, <2>5, <2>6, <2>7 DEF PlacesInStep
<1> QED
  BY <1>1, <1>2, <1>3 DEF AcceptorStep

LEMMA PlacesWorker ==
    ASSUME ServerInv, NEW w \in Workers, WorkerStep(w)
    PROVE  PlacesInStep'
<1> USE DEF clientVars, listenVars, streamVars, epollVars, serverVars,
       workerVars, history, Goto
<1>0. TypeOK /\ PlacesInStep /\ HandsInStep
  BY DEF ServerInv, PlacesInStep
<1>n. NULL \notin Fds
  BY NullApart
<1>1. CASE \/ Start(w) \/ TakeTurn(w) \/ Poll(w) \/ PollFails(w)
           \/ EventsDone(w)
           \/ ErrorFunc(w) \/ StartMessage(w) \/ ReadHeader(w) \/ ReadData(w)
           \/ ReadFails(w) \/ ClientFunc(w)
  <2>1. /\ worker_pc[w] # "add" /\ worker_pc'[w] # "add"
        /\ \A v \in Workers : v # w => worker_pc'[v] = worker_pc[v]
    BY <1>0, <1>1 DEF TypeOK, Start, TakeTurn, Poll, PollFails, EventsDone,
       ErrorFunc, StartMessage, ReadHeader, ReadData, ReadFails, ClientFunc
  <2>2. UNCHANGED <<open, infd, comm_queue, queue_entry, epoll, leaked,
                    acceptor_pc>>
    BY <1>1 DEF Start, TakeTurn, Poll, PollFails, EventsDone, ErrorFunc,
       StartMessage, ReadHeader, ReadData, ReadFails, ClientFunc, Deliver
  <2>3. HandsInStep'
    BY <1>0, <2>1, <2>2 DEF HandsInStep
  <2> QED
    BY <1>0, <2>2, <2>3, PlacesStay
<1>2. CASE GetSocket(w)
  <2>1. CASE comm_queue = << >>
    <3>1. UNCHANGED <<open, infd, comm_queue, queue_entry, epoll, leaked,
                      acceptor_pc>>
      BY <1>2, <2>1 DEF GetSocket
    <3>2. HandsInStep'
      BY <1>0, <1>2, <2>1, <3>1 DEF GetSocket, HandsInStep, TypeOK
    <3> QED
      BY <1>0, <3>1, <3>2, PlacesStay
  <2>2. CASE comm_queue # << >>
    <3> DEFINE f == Head(comm_queue)
    <3>1. /\ f \in Fds /\ f = comm_queue[1] /\ Len(comm_queue) >= 1
          /\ Len(comm_queue') = Len(comm_queue) - 1
          /\ \A i \in 1..Len(comm_queue') : comm_queue'[i] = comm_queue[i + 1]
          /\ Len(comm_queue) \in Nat
      <4>1. comm_queue \in Seq(Fds) /\ comm_queue' = Tail(comm_queue)
        BY <1>0, <1>2, <2>2 DEF GetSocket, TypeOK
      <4>2. Len(comm_queue) \in Nat /\ Len(comm_queue) >= 1
        BY <2>2, <4>1
      <4> QED
        BY <2>2, <4>1, <4>2, HeadTailProperties
    <3>2. /\ queue_entry[w] = NULL
          /\ queue_entry' = [queue_entry EXCEPT ![w] = f]
          /\ worker_pc' = [worker_pc EXCEPT ![w] = "add"]
          /\ UNCHANGED <<open, infd, epoll, leaked, acceptor_pc>>
      BY <1>0, <1>2, <2>2 DEF GetSocket, HandsInStep
    <3> HIDE DEF f
    <3>3. \A v \in Workers :
             queue_entry'[v] = IF v = w THEN f ELSE queue_entry[v]
      BY <1>0, <3>2 DEF TypeOK
    <3>4. QueueOnce /\ InQueue(f) /\ OnePlace(f)
      BY <1>0, <3>1 DEF PlacesInStep, InQueue, InList
    <3>5. ASSUME NEW g \in Fds
          PROVE  InQueue(g)' <=> InQueue(g) /\ g # f
      <4>1. ASSUME InQueue(g)' PROVE InQueue(g) /\ g # f
        <5>1. PICK i \in 1..Len(comm_queue') : comm_queue'[i] = g
          BY <4>1 DEF InQueue, InList
        <5>2. /\ i + 1 \in 1..Len(comm_queue) /\ comm_queue[i + 1] = g
              /\ i + 1 # 1
          BY <1>0, <3>1, <5>1 DEF TypeOK
        <5> QED
          BY <3>1, <3>4, <5>2 DEF QueueOnce, InQueue, InList
      <4>2. ASSUME InQueue(g), g # f PROVE InQueue(g)'
        <5>1. PICK i \in 1..Len(comm_queue) : comm_queue[i] = g
          BY <4>2 DEF InQueue, InList
        <5>2. i - 1 \in 1..Len(comm_queue') /\ comm_queue'[i - 1] = g
          BY <1>0, <3>1, <4>2, <5>1 DEF TypeOK
        <5> QED
          BY <5>2 DEF InQueue, InList
      <4> QED
        BY <4>1, <4>2
    <3>6. ASSUME NEW g \in Fds PROVE OnePlace(g)'
      <4>1. OnePlace(g)
        BY <1>0 DEF PlacesInStep
      <4>2. /\ InHand(g)' <=> InHand(g)
            /\ InEpoll(g)' <=> InEpoll(g)
            /\ Leaked(g)' <=> Leaked(g)
        BY <3>2 DEF InHand, InEpoll, Leaked
      <4>3. InEntry(g)' <=> InEntry(g) \/ g = f
        BY <1>n, <3>2, <3>3 DEF InEntry
      <4> QED
        BY <3>2, <3>4, <3>5, <4>1, <4>2, <4>3 DEF OnePlace
    <3>7. HandsInStep'
      BY <1>0, <1>n, <3>1, <3>2, <3>3 DEF HandsInStep, TypeOK
    <3>8. QueueOnce'
      <4>1. ASSUME NEW i \in 1..Len(comm_queue'),
                   NEW j \in 1..Len(comm_queue'),
                   comm_queue'[i] = comm_queue'[j]
            PROVE  i = j
        <5>1. /\ i + 1 \in 1..Len(comm_queue) /\ j + 1 \in 1..Len(comm_queue)
              /\ comm_queue[i + 1] = comm_queue[j + 1]
          BY <3>1, <4>1
        <5>2. i + 1 = j + 1
          BY <3>4, <5>1 DEF QueueOnce
        <5> QED
          BY <3>1, <5>2
      <4> QED
        BY <4>1 DEF QueueOnce
    <3>9. EntryOnce'
      <4>1. ~InEntry(f) /\ EntryOnce
        BY <1>0, <3>1, <3>4 DEF PlacesInStep, OnePlace
      <4> QED
        BY <3>3, <4>1 DEF EntryOnce, InEntry
    <3>10. EpollOnce'
      BY <1>0, <3>2 DEF PlacesInStep, EpollOnce
    <3> QED
      BY <3>6, <3>7, <3>8, <3>9, <3>10 DEF PlacesInStep
  <2> QED
    BY <2>1, <2>2
<1>3. CASE AddSocket(w)
  <2> DEFINE f == queue_entry[w]
  <2>1. /\ f \in Fds
        /\ queue_entry' = [queue_entry EXCEPT ![w] = NULL]
        /\ UNCHANGED <<open, infd, comm_queue, acceptor_pc>>
    BY <1>0, <1>3 DEF AddSocket, HandsInStep, TypeOK
  <2>2. \/ epoll' = [epoll EXCEPT ![w] = @ \cup {f}] /\ leaked' = leaked
        \/ epoll' = epoll /\ leaked' = leaked \cup {f}
    BY <1>3 DEF AddSocket
  <2>3. \A v \in Workers : queue_entry'[v] = IF v = w
                                             THEN NULL ELSE queue_entry[v]
    BY <1>0, <2>1 DEF TypeOK
  <2>4. OnePlace(f) /\ InEntry(f) /\ EntryOnce /\ EpollOnce
    BY <1>0, <2>1 DEF PlacesInStep, InEntry
  <2>5. /\ worker_pc'[w] # "add"
        /\ \A v \in Workers : v # w => worker_pc'[v] = worker_pc[v]
    BY <1>0, <1>3 DEF AddSocket, TypeOK
  <2>6. \A g \in Fds : InEntry(g)' <=> InEntry(g) /\ g # f
    <3>1. queue_entry[w] = f
      OBVIOUS
    <3> HIDE DEF f
    <3> QED
      BY <1>n, <2>1, <2>3, <2>4, <3>1 DEF InEntry, EntryOnce
  <2>7. f = queue_entry[w]
    OBVIOUS
  <2> HIDE DEF f
  <2>8. ASSUME NEW g \in Fds PROVE OnePlace(g)'
    <3>1. OnePlace(g)
      BY <1>0 DEF PlacesInStep
    <3>2. /\ InHand(g)' <=> InHand(g)
          /\ InQueue(g)' <=> InQueue(g)
      BY <2>1 DEF InHand, InQueue
    <3>3. \/ /\ InEpoll(g)' <=> InEpoll(g) \/ g = f
             /\ Leaked(g)' <=> Leaked(g)
          \/ /\ InEpoll(g)' <=> InEpoll(g)
             /\ Leaked(g)' <=> Leaked(g) \/ g = f
      <4>1. CASE epoll' = epoll /\ leaked' = leaked \cup {f}
        BY <4>1 DEF InEpoll, Leaked
      <4>2. CASE epoll' = [epoll EXCEPT ![w] = @ \cup {f}] /\ leaked' = leaked
        <5>1. \A v \in Workers :
                 epoll'[v] = IF v = w THEN epoll[v] \cup {f} ELSE epoll[v]
          BY <1>0, <4>2 DEF TypeOK
        <5> QED
          BY <4>2, <5>1 DEF InEpoll, Leaked
      <4> QED
        BY <2>2, <4>1, <4>2
    <3> QED
      BY <2>1, <2>4, <2>6, <3>1, <3>2, <3>3 DEF OnePlace
  <2>9. HandsInStep'
    BY <1>0, <2>1, <2>3, <2>5 DEF HandsInStep
  <2>10. QueueOnce' /\ EntryOnce'
    BY <1>0, <2>1, <2>3, <2>4 DEF PlacesInStep, QueueOnce, EntryOnce
  <2>11. EpollOnce'
    <3>1. CASE epoll' = epoll
      BY <2>4, <3>1 DEF EpollOnce
    <3>2. CASE epoll' = [epoll EXCEPT ![w] = @ \cup {f}]
      <4>1. \A v \in Workers :
               epoll'[v] = IF v = w THEN epoll[v] \cup {f} ELSE epoll[v]
        BY <1>0, <3>2 DEF TypeOK
      <4>2. \A v \in Workers : f \notin epoll[v]
        BY <2>1, <2>4 DEF OnePlace, InEpoll
      <4> QED
        BY <2>4, <4>1, <4>2 DEF EpollOnce
    <3> QED
      BY <2>2, <3>1, <3>2
  <2> QED
    BY <2>8, <2>9, <2>10, <2>11 DEF PlacesInStep
<1>4. CASE CloseOnError(w)
  <2> DEFINE f == event(w).fd
  <2>1. f \in Fds /\ f \in epoll[w]
    BY <1>4, EventInHand DEF CloseOnError
  <2>2. /\ open' = [open EXCEPT ![f] = NULL]
        /\ epoll' = [v \in Workers |-> epoll[v] \ {f}]
        /\ UNCHANGED <<infd, comm_queue, queue_entry, leaked, acceptor_pc>>
    BY <1>4 DEF CloseOnError
  <2>3. /\ worker_pc[w] # "add" /\ worker_pc'[w] # "add"
        /\ \A v \in Workers : v # w => worker_pc'[v] = worker_pc[v]
    BY <1>0, <1>4 DEF CloseOnError, TypeOK
  <2> HIDE DEF f
  <2>4. OnePlace(f) /\ InEpoll(f) /\ EpollOnce
    BY <1>0, <2>1 DEF PlacesInStep, InEpoll
  <2>5. ASSUME NEW g \in Fds PROVE OnePlace(g)'
    <3>1. OnePlace(g)
      BY <1>0 DEF PlacesInStep
    <3>2. /\ InHand(g)' <=> InHand(g)
          /\ InQueue(g)' <=> InQueue(g)
          /\ InEntry(g)' <=> InEntry(g)
          /\ Leaked(g)' <=> Leaked(g)
      BY <2>2 DEF InHand, InQueue, InEntry, Leaked
    <3>3. InEpoll(g)' <=> InEpoll(g) /\ g # f
      BY <1>0, <2>2 DEF InEpoll
    <3>4. open'[g] = IF g = f THEN NULL ELSE open[g]
      BY <1>0, <2>2 DEF TypeOK
    <3> QED
      BY <2>4, <3>1, <3>2, <3>3, <3>4 DEF OnePlace
  <2>6. HandsInStep'
    BY <1>0, <2>2, <2>3 DEF HandsInStep
  <2>7. QueueOnce' /\ EntryOnce' /\ EpollOnce'
    BY <1>0, <2>2 DEF PlacesInStep, QueueOnce, EntryOnce, EpollOnce
  <2> QED
    BY <2>5, <2>6, <2>7 DEF PlacesInStep
<1> QED
  BY <1>1, <1>2, <1>3, <1>4 DEF WorkerStep

-----------------------------------------------------------------------------
(* Ready lists                                                             *)

LEMMA ReadyWake ==
    ASSUME ServerInv, NEW c \in Clients, Wake(c), epoll' = epoll
    PROVE  ReadyInStep'
<1> SUFFICES ASSUME NEW w \in Workers
             PROVE  /\ \A i \in 1..Len(ready'[w]) : ready'[w][i] \in epoll[w]
                    /\ \A i, j \in 1..Len(ready'[w]) :
                          ready'[w][i] = ready'[w][j] => i = j
  BY DEF ReadyInStep
<1>1. /\ TypeOK /\ ready[w] \in Seq(Fds) /\ epoll[w] \in SUBSET Fds
      /\ \A i \in 1..Len(ready[w]) : ready[w][i] \in epoll[w]
      /\ \A i, j \in 1..Len(ready[w]) : ready[w][i] = ready[w][j] => i = j
  BY DEF ServerInv, ReadyInStep, TypeOK
<1>2. CASE ready'[w] = ready[w]
  BY <1>1, <1>2
<1>3. CASE \E f \in epoll[w] : /\ ~ InList(f, ready[w])
                               /\ ready'[w] = Append(ready[w], f)
  <2>1. PICK f \in epoll[w] : /\ ~ InList(f, ready[w])
                              /\ ready'[w] = Append(ready[w], f)
    BY <1>3
  <2>2. /\ Len(ready'[w]) = Len(ready[w]) + 1 /\ Len(ready[w]) \in Nat
        /\ \A i \in 1..Len(ready[w]) : ready'[w][i] = ready[w][i]
        /\ ready'[w][Len(ready[w]) + 1] = f
    BY <1>1, <2>1, AppendProperties
  <2> QED
    BY <1>1, <2>1, <2>2 DEF InList
<1> QED
  BY <1>1, <1>2, <1>3, WakeEffect

LEMMA ReadyWorker ==
    ASSUME ServerInv, NEW w \in Workers, WorkerStep(w)
    PROVE  ReadyInStep'
<1> USE DEF clientVars, listenVars, streamVars, epollVars, serverVars,
       workerVars, history, Goto
<1>0. TypeOK /\ ReadyInStep
  BY DEF ServerInv
<1>1. CASE UNCHANGED epollVars
  BY <1>0, <1>1 DEF ReadyInStep
<1>2. CASE AddSocket(w)
  <2> DEFINE f == queue_entry[w]
  <2>1. f \in Fds /\ f \notin epoll[w]
    BY <1>2, NullApart
    DEF AddSocket, ServerInv, PlacesInStep, HandsInStep, OnePlace, InEntry,
        InEpoll,
        TypeOK
  <2>2. CASE ~ UNCHANGED epollVars
    <3> DEFINE list == IF Mask(open[f]) = {}
                       THEN ready[w] ELSE Append(ready[w], f)
    <3>1. /\ epoll' = [epoll EXCEPT ![w] = @ \cup {f}]
          /\ ready' = [ready EXCEPT ![w] = list]
      BY <1>0, <1>2, <2>2 DEF AddSocket, TypeOK
    <3>2. list = ready[w] \/ list = Append(ready[w], f)
      OBVIOUS
    <3> HIDE DEF list, f
    <3>3. \A v \in Workers : /\ epoll'[v] = IF v = w THEN epoll[v] \cup {f}
                                            ELSE epoll[v]
                             /\ ready'[v] = IF v = w THEN list ELSE ready[v]
      BY <1>0, <3>1 DEF TypeOK
    <3>4. /\ ready[w] \in Seq(Fds)
          /\ \A i \in 1..Len(ready[w]) : ready[w][i] \in epoll[w]
          /\ \A i, j \in 1..Len(ready[w]) : ready[w][i] = ready[w][j] => i = j
      BY <1>0 DEF TypeOK, ReadyInStep
    <3>5. /\ \A i \in 1..Len(list) : list[i] \in epoll[w] \cup {f}
          /\ \A i, j \in 1..Len(list) : list[i] = list[j] => i = j
      <4>1. CASE list = ready[w]
        BY <3>4, <4>1
      <4>2. CASE list = Append(ready[w], f)
        <5>1. /\ Len(list) = Len(ready[w]) + 1 /\ Len(ready[w]) \in Nat
              /\ \A i \in 1..Len(ready[w]) : list[i] = ready[w][i]
              /\ list[Len(ready[w]) + 1] = f
          BY <2>1, <3>4, <4>2, AppendProperties
        <5> DEFINE n == Len(ready[w])
        <5>2. \A i \in 1..Len(list) : i \in 1..n \/ i = n + 1
          BY <5>1
        <5>3. ASSUME NEW i \in 1..Len(list)
              PROVE  list[i] \in epoll[w] \cup {f}
          BY <3>4, <5>1, <5>2
        <5>4. \A i \in 1..n : list[i] # f
          BY <2>1, <3>4, <5>1
        <5>5. ASSUME NEW i \in 1..Len(list), NEW j \in 1..Len(list),
                     list[i] = list[j]
              PROVE  i = j
          <6>1. CASE i \in 1..n /\ j \in 1..n
            BY <3>4, <5>1, <5>5, <6>1
          <6>2. CASE i = n + 1 \/ j = n + 1
            BY <5>1, <5>2, <5>4, <5>5, <6>2
          <6> QED
            BY <5>2, <6>1, <6>2
        <5> QED
          BY <5>3, <5>5
      <4> QED
        BY <3>2, <4>1, <4>2
    <3> QED
      BY <1>0, <3>3, <3>5 DEF ReadyInStep
  <2> QED
    BY <1>1, <2>2
<1>3. CASE Poll(w)
  <2> DEFINE n == IF Len(ready[w]) < MAXEVENTS
                  THEN Len(ready[w]) ELSE MAXEVENTS
             list == SubSeq(ready[w], n + 1, Len(ready[w]))
  <2>1. epoll' = epoll /\ ready' = [ready EXCEPT ![w] = list]
    BY <1>3 DEF Poll
  <2>2. n \in Nat /\ n <= Len(ready[w]) /\ ready[w] \in Seq(Fds)
    BY <1>0, ParametersAssumption DEF TypeOK
  <2> HIDE DEF n
  <2>3. /\ Len(list) = Len(ready[w]) - n
        /\ \A i \in 1..Len(list) : list[i] = ready[w][i + n]
    <3>1. \A i \in (n + 1)..Len(ready[w]) : ready[w][i] \in Fds
      BY <2>2
    <3>2. /\ Len(list) = IF n + 1 <= Len(ready[w])
                         THEN Len(ready[w]) - (n + 1) + 1 ELSE 0
          /\ \A i \in 1..(Len(ready[w]) - (n + 1) + 1) :
                list[i] = ready[w][(n + 1) + i - 1]
      BY <2>2, <3>1, SubSeqProperties
    <3> QED
      BY <2>2, <3>2
  <2> HIDE DEF list
  <2>4. \A v \in Workers : ready'[v] = IF v = w THEN list ELSE ready[v]
    BY <1>0, <2>1 DEF TypeOK
  <2>5. /\ \A i \in 1..Len(list) : list[i] \in epoll[w]
        /\ \A i, j \in 1..Len(list) : list[i] = list[j] => i = j
    <3>1. \A i \in 1..Len(list) : i + n \in 1..Len(ready[w])
      BY <2>2, <2>3
    <3>2. /\ \A i \in 1..Len(ready[w]) : ready[w][i] \in epoll[w]
          /\ \A i, j \in 1..Len(ready[w]) : ready[w][i] = ready[w][j] => i = j
      BY <1>0 DEF ReadyInStep
    <3>3. ASSUME NEW i \in 1..Len(list), NEW j \in 1..Len(list),
                 list[i] = list[j]
          PROVE  i = j
      <4>1. i + n = j + n
        BY <2>3, <3>1, <3>2, <3>3
      <4> QED
        BY <2>2, <2>3, <4>1
    <3> QED
      BY <2>3, <3>1, <3>2, <3>3
  <2> QED
    BY <1>0, <2>1, <2>4, <2>5 DEF ReadyInStep
<1>4. CASE CloseOnError(w)
  <2> DEFINE f == event(w).fd
  <2>1. f \in Fds
    BY <1>4, EventInHand DEF CloseOnError
  <2>2. \A v \in Workers : /\ epoll'[v] = epoll[v] \ {f}
                           /\ ready'[v] = Without(ready[v], f)
    BY <1>4 DEF CloseOnError
  <2> HIDE DEF f
  <2>3. ASSUME NEW v \in Workers
        PROVE  /\ \A i \in 1..Len(ready'[v]) : ready'[v][i] \in epoll'[v]
               /\ \A i, j \in 1..Len(ready'[v]) :
                     ready'[v][i] = ready'[v][j] => i = j
    <3>1. /\ ready[v] \in Seq(Fds)
          /\ \A i \in 1..Len(ready[v]) : ready[v][i] \in epoll[v]
          /\ \A i, j \in 1..Len(ready[v]) : ready[v][i] = ready[v][j] => i = j
      BY <1>0 DEF TypeOK, ReadyInStep
    <3>2. /\ \A i \in 1..Len(Without(ready[v], f)) :
                /\ Without(ready[v], f)[i] # f
                /\ InList(Without(ready[v], f)[i], ready[v])
          /\ \A i, j \in 1..Len(Without(ready[v], f)) :
                Without(ready[v], f)[i] = Without(ready[v], f)[j] => i = j
      BY <2>1, <3>1, WithoutElements
    <3> QED
      BY <2>2, <3>1, <3>2 DEF InList
  <2> QED
    BY <2>3 DEF ReadyInStep
<1>5. CASE ClientFunc(w)
  <2>1. /\ Deliver(w, event(w).fd) /\ worker_pc[w] = "client_func"
        /\ epoll' = epoll
    BY <1>5 DEF ClientFunc, Deliver
  <2>2. ready' = ready \/ Wake(open[event(w).fd])
    BY <2>1, DeliverType
  <2>3. open[event(w).fd] \in Clients
    BY <2>1, EventInHand DEF ServerInv, BatchInStep, Handling
  <2> QED
    BY <1>1, <2>1, <2>2, <2>3, ReadyWake
<1> QED
  BY <1>1, <1>2, <1>3, <1>4, <1>5
  DEF WorkerStep, Start, TakeTurn, GetSocket, PollFails, EventsDone, ErrorFunc,
      StartMessage, ReadHeader, ReadData, ReadFails

LEMMA ReadyStep == ServerInv /\ [Next]_vars => ReadyInStep'
<1> SUFFICES ASSUME ServerInv, [Next]_vars PROVE ReadyInStep'
  OBVIOUS
<1> USE DEF clientVars, listenVars, streamVars, epollVars, serverVars,
       workerVars, history, acceptorUnchanged
<1>1. CASE UNCHANGED epollVars
  BY <1>1 DEF ServerInv, ReadyInStep
<1>2. ASSUME NEW c \in Clients, ClientStep(c) PROVE ReadyInStep'
  <2>1. UNCHANGED epollVars \/ (Wake(c) /\ epoll' = epoll)
    BY <1>2 DEF ClientStep, Connect, SendHeader, SendData, Receive, Close
  <2> QED
    BY <1>1, <2>1, ReadyWake
<1>3. CreateThread \/ AcceptorStep \/ UNCHANGED vars => UNCHANGED epollVars
  BY DEF CreateThread, AcceptorStep, AwaitConnection, AcceptConnection,
     AcceptFails, InsertSocket, vars
<1> QED
  BY <1>1, <1>2, <1>3, ReadyWorker DEF Next
-----------------------------------------------------------------------------
(* The events of a batch                                                   *)

\* A new thread starts; the others stay where they are.
LEMMA ThreadStarts ==
    ASSUME ServerInv, CreateThread, NEW w \in Workers
    PROVE  \/ worker_pc'[w] = worker_pc[w]
           \/ worker_pc[w] = "none" /\ worker_pc'[w] = "start"
<1>1. created \in 0..num_workers /\ CreatedInStep
  BY DEF CreateThread, ServerInv
<1>2. CASE worker_pc' = worker_pc
  BY <1>2
<1>3. CASE worker_pc' = [v \in Workers |->
                            IF v = created THEN "start" ELSE worker_pc[v]]
  <2>1. w = created => worker_pc[w] = "none"
    BY <1>1, ParametersAssumption DEF CreatedInStep, Workers
  <2> QED
    BY <1>3, <2>1
<1> QED
  BY <1>2, <1>3 DEF CreateThread

LEMMA BatchWorker ==
    ASSUME ServerInv, NEW w \in Workers, WorkerStep(w)
    PROVE  BatchInStep'
<1> USE DEF clientVars, listenVars, streamVars, epollVars, serverVars,
       workerVars, history, Goto, Handling
<1>0. TypeOK /\ BatchInStep
  BY DEF ServerInv
<1>1. CASE \/ Start(w) \/ TakeTurn(w) \/ GetSocket(w) \/ AddSocket(w)
           \/ PollFails(w) \/ EventsDone(w) \/ CloseOnError(w)
           \/ StartMessage(w)
           \/ ReadHeader(w) \/ ReadData(w)
  <2>1. events' = events
    BY <1>1 DEF Start, TakeTurn, GetSocket, AddSocket, PollFails, EventsDone,
       CloseOnError, StartMessage, ReadHeader, ReadData
  <2>2. /\ \A v \in Workers : v # w => worker_pc'[v] = worker_pc[v]
        /\ worker_pc'[w] \in Handling => events[w] # << >>
        /\ events[w] # << >> => worker_pc'[w] \in Handling \cup {"events"}
    <3>1. \E pc : worker_pc' = [worker_pc EXCEPT ![w] = pc]
      BY <1>1 DEF Start, TakeTurn, GetSocket, AddSocket, PollFails,
         EventsDone, CloseOnError, StartMessage, ReadHeader, ReadData
    <3>2. worker_pc'[w] \in Handling => events[w] # << >>
      <4>1. CASE CloseOnError(w) \/ StartMessage(w)
        BY <4>1 DEF CloseOnError, StartMessage
      <4>2. CASE ReadHeader(w) \/ ReadData(w)
        BY <1>0, <4>2 DEF ReadHeader, ReadData, BatchInStep
      <4>3. CASE \/ Start(w) \/ TakeTurn(w) \/ GetSocket(w) \/ AddSocket(w)
                 \/ PollFails(w) \/ EventsDone(w)
        BY <1>0, <4>3 DEF Start, TakeTurn, GetSocket, AddSocket, PollFails,
           EventsDone, TypeOK
      <4> QED
        BY <1>1, <4>1, <4>2, <4>3
    <3>3. events[w] # << >> => worker_pc'[w] \in Handling \cup {"events"}
      <4>1. CASE \/ CloseOnError(w) \/ StartMessage(w)
                 \/ ReadHeader(w) \/ ReadData(w)
        BY <1>0, <4>1 DEF CloseOnError, StartMessage, ReadHeader, ReadData,
           TypeOK
      <4>2. CASE \/ Start(w) \/ TakeTurn(w) \/ GetSocket(w) \/ AddSocket(w)
                 \/ PollFails(w) \/ EventsDone(w)
        BY <1>0, <4>2 DEF Start, TakeTurn, GetSocket, AddSocket, PollFails,
           EventsDone, BatchInStep
      <4> QED
        BY <1>1, <4>1, <4>2
    <3>4. \A v \in Workers : v # w => worker_pc'[v] = worker_pc[v]
      BY <1>0, <3>1 DEF TypeOK
    <3> QED
      BY <3>2, <3>3, <3>4
  <2> QED
    BY <1>0, <2>1, <2>2 DEF BatchInStep
<1>2. CASE Poll(w) \/ ErrorFunc(w) \/ ClientFunc(w) \/ ReadFails(w)
  <2>1. /\ \/ worker_pc'[w] = "events"
           \/ worker_pc'[w] = "poll" /\ events'[w] = << >>
        /\ \A v \in Workers :
              v # w => worker_pc'[v] = worker_pc[v] /\ events'[v] = events[v]
    <3>1. /\ \/ worker_pc' = [worker_pc EXCEPT ![w] = "events"]
             \/ /\ worker_pc' = [worker_pc EXCEPT ![w] = "poll"]
                /\ events' = [events EXCEPT ![w] = << >>]
          /\ \E list : events' = [events EXCEPT ![w] = list]
      <4>1. CASE Poll(w)
        BY <4>1 DEF Poll
      <4>2. CASE ErrorFunc(w) \/ ClientFunc(w)
        BY <4>2 DEF ErrorFunc, ClientFunc
      <4>3. CASE ReadFails(w)
        BY <4>3 DEF ReadFails
      <4> QED
        BY <1>2, <4>1, <4>2, <4>3
    <3>2. /\ \/ worker_pc'[w] = "events"
             \/ worker_pc'[w] = "poll" /\ events'[w] = << >>
          /\ \A v \in Workers : v # w => worker_pc'[v] = worker_pc[v]
      <4>1. CASE worker_pc' = [worker_pc EXCEPT ![w] = "events"]
        <5>1. worker_pc \in [Workers -> WorkerPcs]
          BY <1>0 DEF TypeOK
        <5> QED
          BY <4>1, <5>1
      <4>2. CASE /\ worker_pc' = [worker_pc EXCEPT ![w] = "poll"]
                 /\ events' = [events EXCEPT ![w] = << >>]
        <5>1. events'[w] = << >>
          BY <1>0, <4>2, Zenon DEF TypeOK
        <5>2. /\ worker_pc'[w] = "poll"
              /\ \A v \in Workers : v # w => worker_pc'[v] = worker_pc[v]
          BY <1>0, <4>2, Zenon DEF TypeOK
        <5> QED
          BY <5>1, <5>2
      <4> QED
        BY <3>1, <4>1, <4>2
    <3>3. \A v \in Workers : v # w => events'[v] = events[v]
      <4>1. PICK list : events' = [events EXCEPT ![w] = list]
        BY <3>1
      <4> QED
        BY <1>0, <4>1 DEF TypeOK
    <3> QED
      BY <3>2, <3>3
  <2> QED
    BY <1>0, <2>1 DEF BatchInStep
<1> QED
  BY <1>1, <1>2 DEF WorkerStep

LEMMA BatchStep == ServerInv /\ [Next]_vars => BatchInStep'
<1> SUFFICES ASSUME ServerInv, [Next]_vars PROVE BatchInStep'
  OBVIOUS
<1> USE DEF clientVars, listenVars, streamVars, epollVars, serverVars,
       workerVars, history, acceptorUnchanged, Handling
<1>0. TypeOK /\ BatchInStep /\ CreatedInStep
  BY DEF ServerInv
<1>1. CASE CreateThread
  <2>1. /\ events' = events
        /\ \A w \in Workers : \/ worker_pc'[w] = worker_pc[w]
                              \/ /\ worker_pc[w] = "none"
                                 /\ worker_pc'[w] = "start"
    BY <1>1, ThreadStarts DEF CreateThread
  <2> QED
    BY <1>0, <2>1 DEF BatchInStep
<1>2. CASE UNCHANGED <<worker_pc, events>>
  BY <1>0, <1>2 DEF BatchInStep
<1>3. (\E c \in Clients : ClientStep(c)) \/ AcceptorStep \/ UNCHANGED vars
         => UNCHANGED <<worker_pc, events>>
  BY DEF AcceptorStep, AwaitConnection, AcceptConnection, AcceptFails,
     InsertSocket, ClientStep, Connect, SendHeader, SendData, Receive, Close,
     vars
<1> QED
  BY <1>1, <1>2, <1>3, BatchWorker DEF Next

\* The events of w that are not handled yet, and what EventsAreCurrent says of
\* them.
Pending(w) == IF worker_pc[w] = "error_func"
              THEN Tail(events[w]) ELSE events[w]
BatchCurrent(w) ==
    /\ \A i, j \in 1..Len(Pending(w)) :
          Pending(w)[i].fd = Pending(w)[j].fd => i = j
    /\ \A i \in 1..Len(Pending(w)) :
          /\ open[Pending(w)[i].fd] = Pending(w)[i].conn
          /\ Pending(w)[i].fd \in epoll[w]

LEMMA CurrentBatches == EventsAreCurrent <=> \A w \in Workers : BatchCurrent(w)
BY DEF EventsAreCurrent, BatchCurrent, Pending

LEMMA PendingType ==
    ASSUME ServerInv, NEW w \in Workers
    PROVE  /\ Pending(w) \in Seq(Events) /\ BatchCurrent(w)
           /\ \A i \in 1..Len(Pending(w)) :
                 /\ Pending(w)[i] \in Events /\ Pending(w)[i].fd \in epoll[w]
                 /\ Pending(w)[i].fd \in Fds /\ Pending(w)[i].conn \in Clients
                 /\ open[Pending(w)[i].fd] = Pending(w)[i].conn
                 /\ open[Pending(w)[i].fd] # NULL
<1>1. Pending(w) \in Seq(Events)
  BY TailOfBatch DEF Pending, ServerInv, TypeOK, BatchInStep, Handling
<1>2. BatchCurrent(w)
  BY CurrentBatches DEF ServerInv
<1>3. \A i \in 1..Len(Pending(w)) : Pending(w)[i] \in Events
  BY <1>1
<1> QED
  BY <1>1, <1>2, <1>3, NullApart DEF BatchCurrent, Events

\* Events stay current while their descriptors stay open and registered.
LEMMA CurrentStays ==
    ASSUME ServerInv, NEW w \in Workers, Pending(w)' = Pending(w),
           \A i \in 1..Len(Pending(w)) :
              LET f == Pending(w)[i].fd
              IN  open'[f] = open[f] /\ f \in epoll'[w]
    PROVE  BatchCurrent(w)'
BY PendingType DEF BatchCurrent

\* So does the rest of a batch when its first event is done with.
LEMMA CurrentTail ==
    ASSUME ServerInv, NEW w \in Workers, events[w] # << >>,
           worker_pc[w] # "error_func", Pending(w)' = Tail(events[w]),
           \A f \in epoll[w] :
              f # event(w).fd => open'[f] = open[f] /\ f \in epoll'[w]
    PROVE  BatchCurrent(w)'
<1> DEFINE rest == Tail(events[w])
<1>1. /\ Len(rest) = Len(events[w]) - 1 /\ Len(events[w]) \in Nat
      /\ \A i \in 1..Len(rest) : rest[i] = events[w][i + 1]
      /\ event(w) = events[w][1] /\ events[w] \in Seq(Events)
      /\ Len(events[w]) >= 1
  <2>1. events[w] \in Seq(Events) /\ TypeOK
    BY DEF ServerInv, TypeOK
  <2>2. Len(events[w]) \in Nat /\ Len(events[w]) >= 1
    BY <2>1
  <2>3. event(w) = events[w][1]
    BY EventInHand
  <2>4. /\ Len(rest) = Len(events[w]) - 1
        /\ \A i \in 1..Len(rest) : rest[i] = events[w][i + 1]
    BY <2>1, TailOfBatch
  <2> QED
    BY <2>1, <2>2, <2>3, <2>4
<1>2. Pending(w) = events[w] /\ BatchCurrent(w)
  BY PendingType DEF Pending
<1>3. ASSUME NEW i \in 1..Len(rest)
      PROVE  /\ i + 1 \in 1..Len(events[w]) /\ rest[i].fd # event(w).fd
             /\ rest[i].fd \in epoll[w] /\ open[rest[i].fd] = rest[i].conn
  <2>1. i + 1 \in 1..Len(events[w]) /\ i + 1 # 1 /\ 1 \in 1..Len(events[w])
    BY <1>1
  <2> QED
    BY <1>1, <1>2, <2>1 DEF BatchCurrent
<1>4. ASSUME NEW i \in 1..Len(rest), NEW j \in 1..Len(rest),
             rest[i].fd = rest[j].fd
      PROVE  i = j
  <2>1. i + 1 = j + 1
    BY <1>1, <1>2, <1>3, <1>4 DEF BatchCurrent
  <2> QED
    BY <1>1, <2>1
<1>5. \A i \in 1..Len(rest) :
         open'[rest[i].fd] = rest[i].conn /\ rest[i].fd \in epoll'[w]
  BY <1>3
<1> HIDE DEF rest
<1>6. Pending(w)' = rest
  BY DEF rest
<1> QED
  BY <1>4, <1>5, <1>6 DEF BatchCurrent

\* What epoll_wait reports is current.
LEMMA CurrentPoll ==
    ASSUME ServerInv, NEW w \in Workers, Poll(w)
    PROVE  BatchCurrent(w)'
<1> DEFINE n == IF Len(ready[w]) < MAXEVENTS THEN Len(ready[w]) ELSE MAXEVENTS
           reported == {i \in 1..n : Mask(open[ready[w][i]]) # {}}
           k == Cardinality(reported)
<1>1. PICK order \in Orders(reported) :
         events' = [events EXCEPT ![w] =
            [i \in 1..k |-> EventOf(ready[w][order[i]])]]
  BY DEF Poll
<1>2. n \in Nat /\ n <= Len(ready[w]) /\ ready[w] \in Seq(Fds)
  BY ParametersAssumption DEF ServerInv, TypeOK
<1>3. k \in Nat
  <2>1. IsFiniteSet(1..n) /\ reported \in SUBSET (1..n)
    BY <1>2, FS_Interval
  <2> QED
    BY <2>1, FS_Subset, FS_CardinalityType
<1>4. /\ \A i \in 1..k : order[i] \in 1..n
      /\ \A i, j \in 1..k : i < j => order[i] < order[j]
  BY DEF Orders
<1> DEFINE batch == [i \in 1..k |-> EventOf(ready[w][order[i]])]
<1>5. events'[w] = batch
  <2> HIDE DEF batch
  <2> QED
    BY <1>1 DEF batch, ServerInv, TypeOK
<1>6. /\ open' = open /\ epoll' = epoll
      /\ worker_pc' = [worker_pc EXCEPT ![w] = "events"]
  BY DEF Poll, Goto
<1>7. Pending(w)' = batch
  BY <1>5, <1>6 DEF Pending, ServerInv, TypeOK
<1> HIDE DEF n, reported, k
<1>8. Len(batch) = k
  BY <1>3
<1>9. \A i \in 1..k : /\ batch[i].fd = ready[w][order[i]]
                      /\ batch[i].conn = open[batch[i].fd]
                      /\ batch[i].fd \in epoll[w]
  <2>1. \A i \in 1..k : ready[w][order[i]] \in epoll[w]
    BY <1>2, <1>4 DEF ServerInv, ReadyInStep
  <2> QED
    BY <2>1 DEF EventOf
<1>10. ASSUME NEW i \in 1..k, NEW j \in 1..k, batch[i].fd = batch[j].fd
       PROVE  i = j
  <2>1. order[i] \in 1..Len(ready[w]) /\ order[j] \in 1..Len(ready[w])
    BY <1>2, <1>4
  <2>2. ready[w][order[i]] = ready[w][order[j]]
    BY <1>9, <1>10
  <2>3. order[i] = order[j]
    BY <2>1, <2>2 DEF ServerInv, ReadyInStep
  <2>4. order[i] \in Int /\ order[j] \in Int
    BY <2>1
  <2> HIDE DEF batch
  <2>5. ~(i < j) /\ ~(j < i)
    BY <1>4, <2>3, <2>4
  <2> QED
    BY <1>3, <2>5
<1> HIDE DEF batch
<1> QED
  BY <1>6, <1>7, <1>8, <1>9, <1>10 DEF BatchCurrent

LEMMA CurrentWorker ==
    ASSUME ServerInv, NEW w \in Workers, WorkerStep(w), NEW v \in Workers
    PROVE  BatchCurrent(v)'
<1> USE DEF clientVars, listenVars, streamVars, epollVars, serverVars,
       workerVars, history, Goto
<1>0. TypeOK
  BY DEF ServerInv
<1>1. CASE \/ Start(w) \/ TakeTurn(w) \/ GetSocket(w) \/ AddSocket(w)
           \/ PollFails(w) \/ EventsDone(w) \/ ErrorFunc(w) \/ StartMessage(w)
           \/ ReadHeader(w) \/ ReadData(w)
  <2>1. open' = open
    BY <1>1 DEF Start, TakeTurn, GetSocket, AddSocket, PollFails, EventsDone,
       ErrorFunc, StartMessage, ReadHeader, ReadData
  <2>2. epoll[v] \subseteq epoll'[v]
    <3>1. \/ epoll' = epoll
          \/ epoll' = [epoll EXCEPT ![w] = @ \cup {queue_entry[w]}]
      BY <1>1 DEF Start, TakeTurn, GetSocket, AddSocket, PollFails, EventsDone,
         ErrorFunc, StartMessage, ReadHeader, ReadData
    <3> QED
      BY <1>0, <3>1 DEF TypeOK
  <2>3. Pending(v)' = Pending(v)
    <3>1. CASE ErrorFunc(w)
      BY <1>0, <3>1 DEF ErrorFunc, Pending, TypeOK
    <3>2. CASE ~ErrorFunc(w)
      <4>1. events' = events /\ worker_pc[w] # "error_func"
        BY <1>1, <3>2 DEF Start, TakeTurn, GetSocket, AddSocket, PollFails,
           EventsDone, StartMessage, ReadHeader, ReadData
      <4>2. /\ worker_pc'[w] # "error_func"
            /\ (v # w => worker_pc'[v] = worker_pc[v])
        BY <1>0, <1>1, <3>2 DEF TypeOK, Start, TakeTurn, GetSocket, AddSocket,
           PollFails, EventsDone, StartMessage, ReadHeader, ReadData
      <4> QED
        BY <4>1, <4>2 DEF Pending
    <3> QED
      BY <3>1, <3>2
  <2> QED
    BY <2>1, <2>2, <2>3, PendingType, CurrentStays
<1>2. CASE v # w /\ ~CloseOnError(w)
  <2>1. CASE Poll(w) \/ ReadFails(w) \/ ClientFunc(w)
    <3>1. open' = open /\ epoll' = epoll
      BY <2>1 DEF Poll, ReadFails, ClientFunc, Deliver
    <3>2. Pending(v)' = Pending(v)
      <4>1. worker_pc'[v] = worker_pc[v]
        BY <1>0, <1>2, <2>1 DEF Poll, ReadFails, ClientFunc, TypeOK
      <4>2. events'[v] = events[v]
        BY <1>0, <1>2, <2>1 DEF Poll, ReadFails, ClientFunc, TypeOK
      <4> QED
        BY <4>1, <4>2 DEF Pending
    <3> QED
      BY <3>1, <3>2, PendingType, CurrentStays
  <2> QED
    BY <1>1, <1>2, <2>1 DEF WorkerStep
<1>3. CASE CloseOnError(w)
  <2> DEFINE f == event(w).fd
  <2>1. /\ events[w] # << >> /\ worker_pc[w] = "events" /\ events' = events
        /\ worker_pc' = [worker_pc EXCEPT ![w] = "error_func"]
        /\ open' = [open EXCEPT ![f] = NULL]
        /\ epoll' = [u \in Workers |-> epoll[u] \ {f}]
    BY <1>3 DEF CloseOnError
  <2>2. f \in Fds /\ f \in epoll[w]
    BY <2>1, EventInHand
  <2>3. \A g \in Fds : g # f => open'[g] = open[g]
    BY <1>0, <2>1 DEF TypeOK
  <2>4. \A u \in Workers : \A g \in epoll[u] : g # f => g \in epoll'[u]
    BY <2>1
  <2>5. CASE v = w
    <3>1. Pending(w)' = Tail(events[w])
      BY <1>0, <2>1 DEF Pending, TypeOK
    <3>2. \A g \in epoll[w] : g # f => open'[g] = open[g] /\ g \in epoll'[w]
      BY <1>0, <2>3, <2>4 DEF TypeOK
    <3> QED
      BY <2>1, <2>5, <3>1, <3>2, CurrentTail
  <2>6. CASE v # w
    <3>1. Pending(v)' = Pending(v)
      BY <1>0, <2>1, <2>6 DEF Pending, TypeOK
    <3>2. f \notin epoll[v]
      BY <2>2, <2>6 DEF ServerInv, PlacesInStep, EpollOnce
    <3> HIDE DEF f
    <3>3. \A g \in epoll[v] :
             g \in Fds /\ open'[g] = open[g] /\ g \in epoll'[v]
      BY <1>0, <2>3, <2>4, <3>2 DEF TypeOK
    <3> QED
      BY <3>1, <3>3, PendingType, CurrentStays
  <2> QED
    BY <2>5, <2>6
<1>4. CASE v = w /\ Poll(w)
  BY <1>4, CurrentPoll
<1>5. CASE v = w /\ ReadFails(w)
  <2>1. Pending(w)' = << >>
    BY <1>0, <1>5 DEF ReadFails, Pending, TypeOK
  <2> QED
    BY <1>5, <2>1 DEF BatchCurrent
<1>6. CASE v = w /\ ClientFunc(w)
  <2>1. events[w] # << >> /\ worker_pc[w] = "client_func"
    BY <1>6 DEF ClientFunc, ServerInv, BatchInStep, Handling
  <2>2. Pending(w)' = Tail(events[w])
    BY <1>0, <1>6 DEF ClientFunc, Pending, TypeOK
  <2>3. open' = open /\ epoll' = epoll
    BY <1>6 DEF ClientFunc, Deliver
  <2> QED
    BY <1>6, <2>1, <2>2, <2>3, CurrentTail
<1> QED
  BY <1>1, <1>2, <1>3, <1>4, <1>5, <1>6 DEF WorkerStep

LEMMA CurrentStep == ServerInv /\ [Next]_vars => EventsAreCurrent'
<1> SUFFICES ASSUME ServerInv, [Next]_vars, NEW v \in Workers
             PROVE  BatchCurrent(v)'
  BY DEF EventsAreCurrent, BatchCurrent, Pending
<1> USE DEF clientVars, listenVars, streamVars, epollVars, serverVars,
       workerVars, history, acceptorUnchanged
<1>1. CASE AcceptConnection
  <2>1. Pending(v)' = Pending(v) /\ epoll' = epoll
    BY <1>1 DEF AcceptConnection, Pending
  <2>2. /\ open[LowestFd] = NULL
        /\ open' = [open EXCEPT ![LowestFd] = Head(backlog)]
    BY <1>1, LowestIsFree DEF AcceptConnection
  <2>3. \A f \in Fds : open[f] # NULL => open'[f] = open[f]
    BY <2>2 DEF ServerInv, TypeOK
  <2> QED
    BY <2>1, <2>3, PendingType, CurrentStays
<1>2. CASE CreateThread
  <2>1. Pending(v)' = Pending(v) /\ epoll' = epoll /\ open' = open
    BY <1>2, ThreadStarts DEF CreateThread, Pending
  <2> QED
    BY <2>1, PendingType, CurrentStays
<1>3. CASE \/ \E c \in Clients : ClientStep(c)
           \/ AwaitConnection \/ AcceptFails \/ InsertSocket \/ UNCHANGED vars
  <2>1. Pending(v)' = Pending(v) /\ epoll' = epoll /\ open' = open
    BY <1>3 DEF ClientStep, Connect, SendHeader, SendData, Receive, Close,
       vars, AwaitConnection, AcceptFails, InsertSocket, Pending
  <2> QED
    BY <2>1, PendingType, CurrentStays
<1> QED
  BY <1>1, <1>2, <1>3, CurrentWorker DEF Next, AcceptorStep
-----------------------------------------------------------------------------
(* Messages and senders                                                    *)

\* The connection of a message stays the one of the worker's event.
LEMMA MessageStays ==
    ASSUME ServerInv, NEW w \in Workers,
           worker_pc[w] \in {"data", "client_func"}
    PROVE  /\ events[w] # << >> /\ worker_pc[w] # "error_func"
           /\ event(w).fd \in epoll[w] /\ event(w).fd \in Fds
           /\ open[event(w).fd] # NULL
<1>1. events[w] # << >> /\ worker_pc[w] # "error_func"
  BY DEF ServerInv, BatchInStep, Handling
<1> QED
  BY <1>1, EventInHand, NullApart

LEMMA MessageWorker ==
    ASSUME ServerInv, NEW w \in Workers, WorkerStep(w)
    PROVE  MessageInStep'
<1> USE DEF clientVars, listenVars, streamVars, epollVars, serverVars,
       workerVars, history, Goto
<1> DEFINE InStep(v) ==
               worker_pc[v] \in {"data", "client_func"} =>
                   /\ comm_msg[v] \in Messages
                   /\ comm_msg[v].conn = open[event(v).fd]
                   /\ worker_pc[v] = "data" =>
                         comm_msg[v].count < comm_msg[v].len
<1>0. TypeOK /\ \A v \in Workers : InStep(v)
  BY DEF ServerInv, MessageInStep
<1>1. ASSUME NEW v \in Workers, v # w PROVE InStep(v)'
  <2>1. \E pc : worker_pc' = [worker_pc EXCEPT ![w] = pc]
    BY DEF WorkerStep, Start, TakeTurn, GetSocket, AddSocket, Poll, PollFails,
       EventsDone, CloseOnError, ErrorFunc, StartMessage, ReadHeader, ReadData,
       ReadFails, ClientFunc
  <2>2. \E list : events' = [events EXCEPT ![w] = list] \/ events' = events
    BY DEF WorkerStep, Start, TakeTurn, GetSocket, AddSocket, Poll, PollFails,
       EventsDone, CloseOnError, ErrorFunc, StartMessage, ReadHeader, ReadData,
       ReadFails, ClientFunc
  <2>3. \/ \E msg : comm_msg' = [comm_msg EXCEPT ![w] = msg]
        \/ comm_msg' = comm_msg
    BY DEF WorkerStep, Start, TakeTurn, GetSocket, AddSocket, Poll, PollFails,
       EventsDone, CloseOnError, ErrorFunc, StartMessage, ReadHeader, ReadData,
       ReadFails, ClientFunc, Deliver
  <2>4. /\ worker_pc'[v] = worker_pc[v] /\ events'[v] = events[v]
        /\ event(v)' = event(v)
    BY <1>0, <1>1, <2>1, <2>2 DEF TypeOK, event
  <2>5. comm_msg'[v] = comm_msg[v]
    BY <1>0, <1>1, <2>3 DEF TypeOK
  <2>6. worker_pc[v] \in {"data", "client_func"} =>
           open'[event(v).fd] = open[event(v).fd]
    <3>1. CASE open' = open
      BY <3>1
    <3>2. CASE CloseOnError(w) /\ worker_pc[v] \in {"data", "client_func"}
      <4>1. open' = [open EXCEPT ![event(w).fd] = NULL]
        BY <3>2 DEF CloseOnError
      <4>2. event(w).fd \in epoll[w] /\ event(w).fd \in Fds
        BY <3>2, EventInHand DEF CloseOnError
      <4>3. event(v).fd \in epoll[v] /\ event(v).fd \in Fds
        BY <3>2, MessageStays
      <4>4. event(v).fd # event(w).fd
        BY <1>1, <4>2, <4>3 DEF ServerInv, PlacesInStep, EpollOnce
      <4> QED
        BY <1>0, <4>1, <4>3, <4>4 DEF TypeOK
    <3> QED
      BY <3>1, <3>2 DEF WorkerStep, Start, TakeTurn, GetSocket, AddSocket,
         Poll, PollFails, EventsDone, ErrorFunc, StartMessage, ReadHeader,
         ReadData, ReadFails, ClientFunc, Deliver
  <2> QED
    BY <1>0, <2>4, <2>5, <2>6
<1>2. InStep(w)'
  <2>1. CASE \/ Start(w) \/ TakeTurn(w) \/ GetSocket(w) \/ AddSocket(w)
             \/ Poll(w) \/ PollFails(w) \/ EventsDone(w) \/ CloseOnError(w)
             \/ ErrorFunc(w) \/ StartMessage(w)
    <3>1. worker_pc'[w] \notin {"data", "client_func"}
      BY <1>0, <2>1 DEF Start, TakeTurn, GetSocket, AddSocket, Poll, PollFails,
         EventsDone, CloseOnError, ErrorFunc, StartMessage, TypeOK
    <3> QED
      BY <3>1
  <2>2. CASE ReadHeader(w)
    <3> DEFINE c == open[event(w).fd]
               unit == Head(inbox[c])
               msg == [conn |-> c, seq |-> unit.seq, len |-> unit.len,
                       count |-> 0]
    <3>1. /\ comm_msg' = [comm_msg EXCEPT ![w] = msg]
          /\ worker_pc' = [worker_pc EXCEPT ![w] =
                              IF unit.len > 0 THEN "data" ELSE "client_func"]
          /\ UNCHANGED <<events, open>>
      BY <2>2 DEF ReadHeader
    <3>2. msg \in Messages
      <4>1. inbox[c] \in Seq(Units) /\ inbox[c] # << >> /\ c \in Clients
        BY <1>0, <2>2, EventInHand
        DEF ReadHeader, Readable, TypeOK, ServerInv, BatchInStep, Handling
      <4>2. unit \in Units
        BY <4>1
      <4> QED
        BY <4>1, <4>2 DEF Units, Messages
    <3>4. msg.conn = c /\ msg.count = 0 /\ msg.len = unit.len
      OBVIOUS
    <3>5. event(w)' = event(w)
      BY <3>1 DEF event
    <3> HIDE DEF msg, c, unit
    <3>6. comm_msg'[w] = msg
      BY <1>0, <3>1 DEF TypeOK
    <3>7. worker_pc'[w] = IF unit.len > 0 THEN "data" ELSE "client_func"
      BY <1>0, <3>1 DEF TypeOK
    <3>8. open'[event(w).fd] = c
      BY <3>1 DEF c
    <3> QED
      BY <3>2, <3>4, <3>5, <3>6, <3>7, <3>8, ParametersAssumption DEF Messages
  <2>3. CASE ReadData(w)
    <3> DEFINE msg == comm_msg[w]
    <3>1. /\ comm_msg' = [comm_msg EXCEPT ![w].count = @ + 1]
          /\ worker_pc' = [worker_pc EXCEPT ![w] =
                IF msg.count + 1 = msg.len THEN "client_func" ELSE "data"]
          /\ UNCHANGED <<events, open>> /\ worker_pc[w] = "data"
      BY <2>3 DEF ReadData
    <3>2. /\ msg \in Messages /\ msg.count < msg.len
          /\ msg.conn = open[event(w).fd]
      BY <1>0, <3>1 DEF TypeOK
    <3> HIDE DEF msg
    <3>3. msg.count \in Nat /\ msg.len \in Nat
      BY <3>2, ParametersAssumption DEF Messages
    <3>4. comm_msg'[w] = [msg EXCEPT !.count = @ + 1]
      BY <1>0, <3>1 DEF TypeOK, msg
    <3>5. worker_pc'[w] = IF msg.count + 1 = msg.len
                          THEN "client_func" ELSE "data"
      BY <1>0, <3>1 DEF TypeOK
    <3>6. [msg EXCEPT !.count = @ + 1] \in Messages
      BY <3>2, <3>3 DEF Messages
    <3>7. /\ [msg EXCEPT !.count = @ + 1].conn = msg.conn
          /\ [msg EXCEPT !.count = @ + 1].len = msg.len
          /\ [msg EXCEPT !.count = @ + 1].count = msg.count + 1
      BY <3>2 DEF Messages
    <3>9. event(w)' = event(w)
      BY <3>1 DEF event
    <3> DEFINE next == [msg EXCEPT !.count = @ + 1]
    <3>8. worker_pc'[w] = "data" => next.count < next.len
      BY <3>2, <3>3, <3>5, <3>7
    <3>10. next.conn = open'[event(w)'.fd]
      BY <3>1, <3>2, <3>7, <3>9
    <3>11. comm_msg'[w] = next /\ next \in Messages
      BY <3>4, <3>6
    <3> HIDE DEF next
    <3> QED
      BY <3>8, <3>10, <3>11
  <2>4. CASE ReadFails(w) \/ ClientFunc(w)
    <3>1. worker_pc'[w] \notin {"data", "client_func"}
      BY <1>0, <2>4 DEF ReadFails, ClientFunc, TypeOK
    <3> QED
      BY <3>1
  <2> QED
    BY <2>1, <2>2, <2>3, <2>4 DEF WorkerStep
<1> QED
  BY <1>1, <1>2 DEF MessageInStep

LEMMA MessageStep == ServerInv /\ [Next]_vars => MessageInStep'
<1> SUFFICES ASSUME ServerInv, [Next]_vars PROVE MessageInStep'
  OBVIOUS
<1> USE DEF clientVars, listenVars, streamVars, epollVars, serverVars,
       workerVars, history, acceptorUnchanged
<1>0. TypeOK /\ MessageInStep
  BY DEF ServerInv
<1>1. CASE \/ \E c \in Clients : ClientStep(c)
           \/ CreateThread \/ AcceptorStep \/ UNCHANGED vars
  <2> SUFFICES ASSUME NEW w \in Workers
               PROVE  /\ comm_msg'[w] = comm_msg[w] /\ event(w)' = event(w)
                      /\ \/ worker_pc'[w] = worker_pc[w]
                         \/ worker_pc[w] = "none" /\ worker_pc'[w] = "start"
                      /\ worker_pc[w] \in {"data", "client_func"} =>
                            open'[event(w).fd] = open[event(w).fd]
    BY <1>0 DEF MessageInStep
  <2>1. events' = events /\ comm_msg' = comm_msg
    BY <1>1 DEF ClientStep, Connect, SendHeader, SendData, Receive, Close,
       CreateThread, AcceptorStep, AwaitConnection, AcceptConnection,
       AcceptFails, InsertSocket, vars
  <2>2. \/ worker_pc'[w] = worker_pc[w]
        \/ worker_pc[w] = "none" /\ worker_pc'[w] = "start"
    BY <1>1, ThreadStarts DEF ClientStep, Connect, SendHeader, SendData,
       Receive, Close, AcceptorStep, AwaitConnection, AcceptConnection,
       AcceptFails, InsertSocket, vars
  <2>3. worker_pc[w] \in {"data", "client_func"} =>
           open'[event(w).fd] = open[event(w).fd]
    <3>1. CASE AcceptConnection
      <4>1. /\ open[LowestFd] = NULL
            /\ open' = [open EXCEPT ![LowestFd] = Head(backlog)]
        BY <3>1, LowestIsFree DEF AcceptConnection
      <4> QED
        BY <1>0, <4>1, MessageStays DEF TypeOK
    <3> QED
      BY <1>1, <3>1 DEF ClientStep, Connect, SendHeader, SendData, Receive,
         Close, CreateThread, AcceptorStep, AwaitConnection, AcceptFails,
         InsertSocket, vars
  <2> QED
    BY <2>1, <2>2, <2>3 DEF event
<1> QED
  BY <1>1, MessageWorker DEF Next

LEMMA SendingStep == ServerInv /\ [Next]_vars => SendingInStep'
<1> SUFFICES ASSUME ServerInv, [Next]_vars PROVE SendingInStep'
  OBVIOUS
<1> USE DEF clientVars, listenVars, streamVars, epollVars, serverVars,
       workerVars, history, acceptorUnchanged
<1>0. TypeOK /\ SendingInStep
  BY DEF ServerInv
<1>1. ASSUME NEW c \in Clients, ClientStep(c) PROVE SendingInStep'
  <2> SUFFICES /\ \A d \in Clients : d # c => /\ client_pc'[d] = client_pc[d]
                                              /\ sending'[d] = sending[d]
               /\ client_pc'[c] = "sending" <=> sending'[c] # << >>
    BY <1>0 DEF SendingInStep
  <2>1. CASE Connect(c) \/ Receive(c)
    BY <1>0, <2>1 DEF Connect, Receive, TypeOK, SendingInStep
  <2>2. CASE SendHeader(c)
    <3>1. PICK len \in DataLens :
             /\ sending' = [sending EXCEPT ![c] =
                   [i \in 1..len |->
                      [seq |-> sent[c] + 1, len |-> len, part |-> i]]]
             /\ client_pc' = [client_pc EXCEPT ![c] =
                                 IF len = 0 THEN "idle" ELSE "sending"]
      BY <2>2 DEF SendHeader
    <3> DEFINE list == [i \in 1..len |->
                           [seq |-> sent[c] + 1, len |-> len, part |-> i]]
    <3>2. len \in Nat
      BY ParametersAssumption
    <3>3. list # << >> <=> len # 0
      <4>1. Len(list) = len
        BY <3>2
      <4>2. len = 0 => list = << >>
        BY <3>2
      <4> QED
        BY <4>1, <4>2
    <3> HIDE DEF list
    <3>4. sending' = [sending EXCEPT ![c] = list]
      BY <3>1 DEF list
    <3>5. \A d \in Clients : sending'[d] = IF d = c THEN list ELSE sending[d]
      BY <1>0, <3>4 DEF TypeOK
    <3>6. \A d \in Clients : client_pc'[d] = IF d = c
             THEN IF len = 0 THEN "idle" ELSE "sending" ELSE client_pc[d]
      BY <1>0, <3>1 DEF TypeOK
    <3> QED
      BY <3>3, <3>5, <3>6
  <2>3. CASE SendData(c)
    <3>1. sending[c] \in Seq(Units) /\ sending[c] # << >>
      BY <1>0, <2>3 DEF SendData, TypeOK, SendingInStep
    <3>2. Tail(sending[c]) # << >> <=> Len(sending[c]) # 1
      <4>1. /\ Tail(sending[c]) \in Seq(Units)
            /\ Len(Tail(sending[c])) = Len(sending[c]) - 1
        BY <3>1, HeadTailProperties
      <4>2. Tail(sending[c]) # << >> <=> Len(Tail(sending[c])) # 0
        BY <4>1, EmptySeq
      <4> QED
        BY <3>1, <4>1, <4>2
    <3>3. \A d \in Clients :
             sending'[d] = IF d = c THEN Tail(sending[c]) ELSE sending[d]
      BY <1>0, <2>3 DEF SendData, TypeOK
    <3>4. \A d \in Clients : client_pc'[d] = IF d = c
             THEN IF Len(sending[c]) = 1
                  THEN "idle" ELSE "sending" ELSE client_pc[d]
      BY <1>0, <2>3 DEF SendData, TypeOK
    <3> QED
      BY <3>2, <3>3, <3>4
  <2>4. CASE Close(c)
    BY <1>0, <2>4 DEF Close, TypeOK
  <2> QED
    BY <1>1, <2>1, <2>2, <2>3, <2>4 DEF ClientStep
<1>2. UNCHANGED clientVars => SendingInStep'
  BY <1>0 DEF SendingInStep
<1>3. CreateThread \/ AcceptorStep \/ UNCHANGED vars => UNCHANGED clientVars
  BY DEF CreateThread, AcceptorStep, AwaitConnection, AcceptConnection,
     AcceptFails, InsertSocket, vars
<1>4. ASSUME NEW w \in Workers, WorkerStep(w) PROVE UNCHANGED clientVars
  BY <1>4 DEF WorkerStep, Start, TakeTurn, GetSocket, AddSocket, Poll,
     PollFails, EventsDone, CloseOnError, ErrorFunc, StartMessage, ReadHeader,
     ReadData, ReadFails, ClientFunc, Deliver
<1> QED
  BY <1>1, <1>2, <1>3, <1>4 DEF Next
-----------------------------------------------------------------------------
(* The invariant, and what it gives                                        *)

LEMMA InvInit == Init => ServerInv
<1> SUFFICES ASSUME Init PROVE ServerInv
  OBVIOUS
<1>1. TypeOK
  BY TypeInit
<1>2. CreatedInStep
  BY DEF Init, CreatedInStep
<1>3. PlacesInStep
  <2>1. /\ \A f \in Fds : open[f] = NULL
        /\ \A w \in Workers : queue_entry[w] = NULL /\ epoll[w] = {}
        /\ infd = NULL /\ leaked = {} /\ comm_queue = << >>
        /\ acceptor_pc = "none" /\ \A w \in Workers : worker_pc[w] = "none"
    BY DEF Init
  <2>2. ASSUME NEW f \in Fds PROVE OnePlace(f)
    BY <2>1, NullApart DEF OnePlace, InHand, InQueue, InList, InEntry, InEpoll,
       Leaked
  <2>3. HandsInStep /\ QueueOnce /\ EntryOnce /\ EpollOnce
    BY <2>1 DEF HandsInStep, QueueOnce, EntryOnce, EpollOnce
  <2> QED
    BY <2>2, <2>3 DEF PlacesInStep
<1>4. ReadyInStep
  BY DEF Init, ReadyInStep
<1>5. BatchInStep
  BY DEF Init, BatchInStep, Handling
<1>6. EventsAreCurrent
  BY DEF Init, EventsAreCurrent
<1>7. MessageInStep
  BY DEF Init, MessageInStep
<1>8. SendingInStep
  BY DEF Init, SendingInStep
<1> QED
  BY <1>1, <1>2, <1>3, <1>4, <1>5, <1>6, <1>7, <1>8 DEF ServerInv

LEMMA InvStep == ServerInv /\ [Next]_vars => ServerInv'
<1> SUFFICES ASSUME ServerInv, [Next]_vars PROVE ServerInv'
  OBVIOUS
<1>1. TypeOK'
  <2>1. CASE UNCHANGED vars
    BY <2>1 DEF ServerInv, TypeOK, vars, clientVars, listenVars, streamVars,
       epollVars, serverVars, workerVars, history
  <2> QED
    BY <2>1, TypeClient, TypeAcceptor, TypeWorker DEF Next
<1>2. PlacesInStep'
  BY PlacesClient, PlacesAcceptor, PlacesWorker DEF Next
<1> QED
  BY <1>1, <1>2, CreatedStep, ReadyStep, BatchStep, CurrentStep, MessageStep,
     SendingStep DEF ServerInv

\* The inductive invariant: types; threads that are not created do nothing; an
\* open descriptor is in one place, once; ready lists and batches are of
\* registered, open descriptors; a message in hand is of its event's
\* connection.
THEOREM ServerInvariant == Spec => []ServerInv
BY InvInit, InvStep, PTL DEF Spec

\* Every variable of the server, its clients and the kernel keeps to its type,
\* whatever calls fail and whoever closes.
THEOREM TypeCorrect == Spec => []TypeOK
BY ServerInvariant, PTL DEF ServerInv

\* comm_serv_thread and comm_worker_run pass each accepted descriptor on with
\* no lock but the queue's: it is always held in exactly one place, from accept
\* to close, so that no connection has two workers.
THEOREM HoldersCorrect == Spec => []FdHasOneHolder
<1>1. ServerInv => FdHasOneHolder
  <2> SUFFICES ASSUME ServerInv PROVE FdHasOneHolder
    OBVIOUS
  <2>0. TypeOK /\ PlacesInStep
    BY DEF ServerInv
  <2>1. \A i, j \in 1..Len(comm_queue) : comm_queue[i] = comm_queue[j] => i = j
    BY <2>0 DEF PlacesInStep, QueueOnce
  <2>2. \A v, w \in Workers :
          v # w => /\ epoll[v] \cap epoll[w] = {}
                   /\ queue_entry[v] = NULL \/ queue_entry[v] # queue_entry[w]
    BY <2>0 DEF PlacesInStep, EntryOnce, EpollOnce, TypeOK
  <2>3. ASSUME NEW f \in Fds
        PROVE  LET holders ==
                  {h \in {<<"infd", {infd}>>, <<"queue", Queued>>,
                          <<"entry", Entries>>,
                          <<"epoll", UNION {epoll[w] : w \in Workers}>>,
                          <<"leaked", leaked>>} : f \in h[2]}
               IN  Cardinality(holders) = IF open[f] = NULL THEN 0 ELSE 1
    <3> DEFINE E == UNION {epoll[w] : w \in Workers}
               places == {<<"infd", {infd}>>, <<"queue", Queued>>,
                          <<"entry", Entries>>, <<"epoll", E>>,
                          <<"leaked", leaked>>}
               holders == {h \in places : f \in h[2]}
    <3>1. /\ f \in {infd} <=> InHand(f)
          /\ f \in Queued <=> InQueue(f)
          /\ f \in Entries <=> InEntry(f)
          /\ f \in E <=> InEpoll(f)
          /\ f \in leaked <=> Leaked(f)
      <4>1. f # NULL
        BY NullApart
      <4>2. f \in {infd} <=> InHand(f)
        BY DEF InHand
      <4>3. f \in Queued <=> InQueue(f)
        BY DEF Queued, InQueue, InList
      <4>4. f \in Entries <=> InEntry(f)
        BY <4>1 DEF Entries, InEntry
      <4>5. f \in E <=> InEpoll(f)
        BY DEF InEpoll
      <4> QED
        BY <4>2, <4>3, <4>4, <4>5 DEF Leaked
    <3> HIDE DEF E
    <3>2. OnePlace(f)
      BY <2>0 DEF PlacesInStep
    <3>3. CASE open[f] = NULL
      <4>1. holders = {}
        BY <3>1, <3>2, <3>3 DEF OnePlace
      <4> QED
        BY <3>3, <4>1, FS_EmptySet DEF E
    <3>4. CASE open[f] # NULL
      <4>1. \E h : holders = {h}
        <5>1. CASE InHand(f)
          <6>1. holders = {<<"infd", {infd}>>}
            BY <3>1, <3>2, <5>1 DEF OnePlace
          <6> QED
            BY <6>1
        <5>2. CASE InQueue(f)
          <6>1. holders = {<<"queue", Queued>>}
            BY <3>1, <3>2, <5>2 DEF OnePlace
          <6> QED
            BY <6>1
        <5>3. CASE InEntry(f)
          <6>1. holders = {<<"entry", Entries>>}
            BY <3>1, <3>2, <5>3 DEF OnePlace
          <6> QED
            BY <6>1
        <5>4. CASE InEpoll(f)
          <6>1. holders = {<<"epoll", E>>}
            BY <3>1, <3>2, <5>4 DEF OnePlace
          <6> QED
            BY <6>1
        <5>5. CASE Leaked(f)
          <6>1. holders = {<<"leaked", leaked>>}
            BY <3>1, <3>2, <5>5 DEF OnePlace
          <6> QED
            BY <6>1
        <5> QED
          BY <3>2, <3>4, <5>1, <5>2, <5>3, <5>4, <5>5 DEF OnePlace
      <4>2. Cardinality(holders) = 1
        <5> HIDE DEF holders
        <5> QED
          BY <4>1, FS_Singleton
      <4> QED
        BY <3>4, <4>2 DEF E
    <3> QED
      BY <3>3, <3>4
  <2> QED
    BY <2>1, <2>2, <2>3 DEF FdHasOneHolder
<1> QED
  BY <1>1, ServerInvariant, PTL

\* In comm_worker_run, the events epoll_wait filled in are acted on one after
\* the other, while the acceptor reuses descriptors: each is still of a
\* descriptor open on the same connection, and registered with this worker.
THEOREM EventsCorrect == Spec => []EventsAreCurrent
BY ServerInvariant, PTL DEF ServerInv

-----------------------------------------------------------------------------
(***************************************************************************)
(* The requests on a connection are read in step with its stream, answers  *)
(* go to who asked, and CommServer implements MessageService, for any      *)
(* constants, whatever closes and fails; and, for clients that wait for    *)
(* each answer and stay, no data is stranded.                              *)
(***************************************************************************)

\* A connection is in the backlog or open, once, from the time it is made to
\* the time the server closes it, and never again.
Live(c) ==
    client_pc[c] = "new" \/ InList(c, backlog) \/ \E f \in Fds : open[f] = c

ConnectionsOnce ==
    /\ \A i, j \in 1..Len(backlog) : backlog[i] = backlog[j] => i = j
    /\ \A i \in 1..Len(backlog) :
          client_pc[backlog[i]] # "new" /\ \A f \in Fds : open[f] # backlog[i]
    /\ \A f, g \in Fds : open[f] = open[g] /\ open[f] # NULL => f = g
    /\ \A f \in Fds : open[f] # NULL => client_pc[open[f]] # "new"

\* The order of units in a stream: the units of a request, then the next
\* header.
Follows(u, v) ==
    IF u.part < u.len
    THEN v.seq = u.seq /\ v.len = u.len /\ v.part = u.part + 1
    ELSE v.seq = u.seq + 1 /\ v.part = 0

\* u is the last unit of request n.
Ends(u, n) == u.seq = n /\ u.part = u.len

\* After unit r, the units list are those of a stream of n requests, which goes
\* on to the end of the last when it is complete.
InStream(r, list, n, complete) ==
    /\ list # << >> => Follows(r, list[1])
    /\ \A i \in 1..(Len(list) - 1) : Follows(list[i], list[i + 1])
    /\ r.seq <= n /\ \A i \in 1..Len(list) : list[i].seq <= n
    /\ complete => Ends(IF list = << >> THEN r ELSE list[Len(list)], n)

\* The last unit read of connection c is the one that w has put in comm_msg,
\* or, when no worker has, the end of the last request delivered.
OnMessage(w, c) ==
    worker_pc[w] \in {"data", "client_func"} /\ comm_msg[w].conn = c
UnitOf(msg) == [seq |-> msg.seq, len |-> msg.len, part |-> msg.count]
LastDelivered(c) == [seq |-> Len(delivered[c]), len |-> 0, part |-> 0]
LastRead(c, r) ==
    \/ \E w \in Workers : OnMessage(w, c) /\ r = UnitOf(comm_msg[w])
    \/ (\A w \in Workers : ~OnMessage(w, c)) /\ r = LastDelivered(c)

\* What is to be read of c, in the kernel or not yet sent.
Unread(c) == inbox[c] \o sending[c]

StreamInStep(c) ==
    Live(c) =>
        \A r \in [seq : Nat, len : Nat, part : Nat] :
            LastRead(c, r) =>
                InStream(r, Unread(c), sent[c], client_pc[c] # "closed")

\* A worker's message is the next to deliver, and complete in client_func.
MessageIsNext ==
    \A w \in Workers :
        /\ worker_pc[w] \in {"data", "client_func"} =>
              comm_msg[w].seq = Len(delivered[comm_msg[w].conn]) + 1
        /\ worker_pc[w] = "client_func" => comm_msg[w].count = comm_msg[w].len

DeliveredInOrder ==
    \A c \in Clients : \A i \in 1..Len(delivered[c]) : delivered[c][i] = i

\* Every delivery is answered, until the client closes.
AnswersInStep ==
    /\ AnswersGoToAsker
    /\ \A c \in Clients :
          client_pc[c] # "closed" =>
              Len(received[c]) + Len(outbox[c]) = Len(delivered[c])

OrderInv ==
    /\ ServerInv /\ ConnectionsOnce /\ (\A c \in Clients : StreamInStep(c))
    /\ MessageIsNext /\ DeliveredInOrder /\ AnswersInStep

-----------------------------------------------------------------------------
(* Streams                                                                 *)

\* Moving the first element of one list to the end of the one before it.
LEMMA MoveHead ==
    ASSUME NEW S, NEW s \in Seq(S), NEW t \in Seq(S), t # << >>
    PROVE  Append(s, Head(t)) \o Tail(t) = s \o t
<1>1. Len(s) \in Nat /\ Len(t) \in Nat /\ Len(t) >= 1 /\ Head(t) \in S
  BY EmptySeq, LenProperties, HeadTailProperties
<1>2. /\ Tail(t) \in Seq(S) /\ Len(Tail(t)) = Len(t) - 1
      /\ \A i \in 1..Len(Tail(t)) : Tail(t)[i] = t[i + 1]
  BY HeadTailProperties
<1>3. Head(t) = t[1]
  OBVIOUS
<1> DEFINE a == Append(s, Head(t))
           b == Tail(t)
<1>4. /\ a \in Seq(S) /\ Len(a) = Len(s) + 1
      /\ \A i \in 1..Len(s) : a[i] = s[i]
      /\ a[Len(s) + 1] = t[1]
  BY <1>1, <1>3, AppendProperties
<1>5. b \in Seq(S) /\ Len(b) = Len(t) - 1 /\ \A i \in 1..Len(b) :
         b[i] = t[i + 1]
  BY <1>2
<1> HIDE DEF a, b
<1>6. /\ a \o b \in Seq(S) /\ Len(a \o b) = Len(a) + Len(b)
      /\ \A i \in 1..(Len(a) + Len(b)) :
            (a \o b)[i] = IF i <= Len(a) THEN a[i] ELSE b[i - Len(a)]
  BY <1>4, <1>5, ConcatProperties
<1>7. /\ s \o t \in Seq(S) /\ Len(s \o t) = Len(s) + Len(t)
      /\ \A i \in 1..(Len(s) + Len(t)) :
            (s \o t)[i] = IF i <= Len(s) THEN s[i] ELSE t[i - Len(s)]
  BY ConcatProperties
<1>8. ASSUME NEW i \in 1..Len(a \o b) PROVE (a \o b)[i] = (s \o t)[i]
  <2>0. i \in 1..(Len(s) + Len(t)) /\ i \in 1..(Len(a) + Len(b))
    BY <1>1, <1>4, <1>5, <1>6, <1>8
  <2>1. CASE i <= Len(s)
    BY <1>1, <1>4, <1>6, <1>7, <2>0, <2>1
  <2>2. CASE i = Len(s) + 1
    <3>1. (a \o b)[i] = t[1] /\ (s \o t)[i] = t[i - Len(s)] /\ i - Len(s) = 1
      BY <1>1, <1>4, <1>6, <1>7, <2>0, <2>2
    <3> QED
      BY <3>1
  <2>3. CASE i > Len(s) + 1
    <3>1. /\ i - Len(a) \in 1..Len(b) /\ (i - Len(a)) + 1 = i - Len(s)
          /\ (a \o b)[i] = b[i - Len(a)] /\ (s \o t)[i] = t[i - Len(s)]
      BY <1>1, <1>4, <1>5, <1>6, <1>7, <2>0, <2>3
    <3> QED
      BY <1>5, <3>1
  <2> QED
    BY <1>1, <2>0, <2>1, <2>2, <2>3
<1>9. a \o b = s \o t
  <2> DEFINE x == a \o b
             y == s \o t
  <2>1. x \in Seq(S) /\ y \in Seq(S) /\ Len(x) = Len(y)
    BY <1>1, <1>4, <1>5, <1>6, <1>7
  <2>2. \A i \in 1..Len(x) : x[i] = y[i]
    BY <1>8
  <2> HIDE DEF x, y
  <2>3. x = y
    BY <2>1, <2>2, SeqEqual
  <2> QED
    BY <2>3 DEF x, y
<1> QED
  BY <1>9 DEF a, b

\* The head of two lists in a row is the head of the first.
LEMMA HeadOfConcat ==
    ASSUME NEW S, NEW s \in Seq(S), NEW t \in Seq(S), s # << >>
    PROVE  /\ s \o t \in Seq(S) /\ s \o t # << >> /\ (s \o t)[1] = Head(s)
           /\ Tail(s) \o t = Tail(s \o t)
<1>1. Len(s) \in Nat /\ Len(t) \in Nat /\ Len(s) >= 1 /\ Head(s) = s[1]
  BY EmptySeq, LenProperties
<1>2. /\ Tail(s) \in Seq(S) /\ Len(Tail(s)) = Len(s) - 1
      /\ \A i \in 1..Len(Tail(s)) : Tail(s)[i] = s[i + 1]
  BY HeadTailProperties
<1>3. /\ s \o t \in Seq(S) /\ Len(s \o t) = Len(s) + Len(t)
      /\ \A i \in 1..(Len(s) + Len(t)) :
            (s \o t)[i] = IF i <= Len(s) THEN s[i] ELSE t[i - Len(s)]
  BY ConcatProperties
<1>4. s \o t # << >> /\ (s \o t)[1] = Head(s)
  BY <1>1, <1>3
<1> DEFINE a == Tail(s)
           b == s \o t
           c == Tail(b)
<1>5. a \in Seq(S) /\ Len(a) = Len(s) - 1 /\ \A i \in 1..Len(a) :
         a[i] = s[i + 1]
  BY <1>2
<1>6. /\ b \in Seq(S) /\ b # << >> /\ Len(b) = Len(s) + Len(t)
      /\ \A i \in 1..(Len(s) + Len(t)) :
            b[i] = IF i <= Len(s) THEN s[i] ELSE t[i - Len(s)]
  BY <1>3, <1>4
<1> HIDE DEF a, b
<1>7. /\ c \in Seq(S) /\ Len(c) = Len(b) - 1
      /\ \A i \in 1..Len(c) : c[i] = b[i + 1]
  BY <1>6, HeadTailProperties
<1>8. /\ a \o t \in Seq(S) /\ Len(a \o t) = Len(a) + Len(t)
      /\ \A i \in 1..(Len(a) + Len(t)) :
            (a \o t)[i] = IF i <= Len(a) THEN a[i] ELSE t[i - Len(a)]
  BY <1>5, ConcatProperties
<1> HIDE DEF c
<1>9. ASSUME NEW i \in 1..Len(a \o t) PROVE (a \o t)[i] = c[i]
  <2>1. /\ i \in 1..(Len(a) + Len(t)) /\ i \in 1..Len(c)
        /\ i + 1 \in 1..(Len(s) + Len(t))
    BY <1>1, <1>5, <1>6, <1>7, <1>8, <1>9
  <2>2. CASE i <= Len(a)
    BY <1>1, <1>5, <1>6, <1>7, <1>8, <2>1, <2>2
  <2>3. CASE i > Len(a)
    <3>1. i - Len(a) = (i + 1) - Len(s) /\ ~(i + 1 <= Len(s))
      BY <1>1, <1>5, <2>1, <2>3
    <3> QED
      BY <1>1, <1>5, <1>6, <1>7, <1>8, <2>1, <2>3, <3>1, SMTT(30)
  <2> QED
    BY <1>1, <1>5, <2>1, <2>2, <2>3
<1>10. a \o t = c
  <2> DEFINE x == a \o t
  <2>1. x \in Seq(S) /\ c \in Seq(S) /\ Len(x) = Len(c)
    BY <1>1, <1>5, <1>6, <1>7, <1>8
  <2>2. \A i \in 1..Len(x) : x[i] = c[i]
    BY <1>9
  <2> HIDE DEF x
  <2>3. x = c
    BY <2>1, <2>2, SeqEqual
  <2> QED
    BY <2>3 DEF x
<1> QED
  BY <1>3, <1>4, <1>10 DEF a, b, c

LEMMA UnitsType ==
    ASSUME NEW u \in Units
    PROVE  u.seq \in Nat /\ u.len \in Nat /\ u.part \in Nat
<1>1. u.seq \in 1..MaxRequests /\ u.len \in DataLens /\ u.part \in Nat
  BY DEF Units
<1>2. DataLens \subseteq Nat /\ MaxRequests \in Nat
  BY ParametersAssumption
<1>3. u.len \in Nat
  BY <1>1, <1>2
<1>4. u.seq \in Nat
  BY <1>1, <1>2
<1> QED
  BY <1>1, <1>3, <1>4

\* When the next unit is read, the rest follows it.
LEMMA InStreamTail ==
    ASSUME NEW list \in Seq(Units), list # << >>, NEW r, NEW n \in Nat,
           NEW complete, InStream(r, list, n, complete),
           NEW u, u.seq = list[1].seq, u.len = list[1].len,
           u.part = list[1].part
    PROVE  Follows(r, list[1]) /\ InStream(u, Tail(list), n, complete)
<1>1. Len(list) \in Nat /\ Len(list) >= 1
  BY EmptySeq
<1>2. /\ Tail(list) \in Seq(Units) /\ Len(Tail(list)) = Len(list) - 1
      /\ \A i \in 1..Len(Tail(list)) : Tail(list)[i] = list[i + 1]
  BY HeadTailProperties
<1> DEFINE t == Tail(list)
<1>3. /\ t \in Seq(Units) /\ Len(t) = Len(list) - 1
      /\ \A i \in 1..Len(t) : t[i] = list[i + 1]
  BY <1>2
<1> HIDE DEF t
<1>4. t = << >> <=> Len(list) = 1
  BY <1>1, <1>3, EmptySeq
<1>5. /\ Follows(r, list[1])
      /\ \A i \in 1..(Len(list) - 1) : Follows(list[i], list[i + 1])
      /\ \A i \in 1..Len(list) : list[i].seq <= n
      /\ complete => Ends(list[Len(list)], n)
  BY DEF InStream
<1>6. t # << >> => Follows(u, t[1])
  <2> SUFFICES ASSUME t # << >> PROVE Follows(u, t[1])
    OBVIOUS
  <2>1. 1 \in 1..(Len(list) - 1) /\ 1 \in 1..Len(t)
    BY <1>1, <1>3, <1>4
  <2>2. Follows(list[1], list[1 + 1]) /\ t[1] = list[1 + 1]
    BY <1>3, <1>5, <2>1
  <2> QED
    BY <2>2 DEF Follows
<1>7. ASSUME NEW i \in 1..(Len(t) - 1) PROVE Follows(t[i], t[i + 1])
  <2>1. i \in 1..Len(t) /\ i + 1 \in 1..Len(t) /\ i + 1 \in 1..(Len(list) - 1)
    BY <1>1, <1>3
  <2>2. t[i] = list[i + 1] /\ t[i + 1] = list[(i + 1) + 1]
    BY <1>3, <2>1
  <2> QED
    BY <1>5, <2>1, <2>2
<1>8. u.seq <= n /\ \A i \in 1..Len(t) : t[i].seq <= n
  <2>1. 1 \in 1..Len(list) /\ \A i \in 1..Len(t) : i + 1 \in 1..Len(list)
    BY <1>1, <1>3
  <2> QED
    BY <1>3, <1>5, <2>1
<1>9. complete => Ends(IF t = << >> THEN u ELSE t[Len(t)], n)
  <2>1. CASE t = << >>
    BY <1>4, <1>5, <2>1 DEF Ends
  <2>2. CASE t # << >>
    <3>1. Len(t) \in 1..Len(t) /\ Len(t) + 1 = Len(list)
      BY <1>1, <1>3, <1>4, <2>2
    <3> QED
      BY <1>3, <1>5, <2>2, <3>1
  <2> QED
    BY <2>1, <2>2
<1>10. InStream(u, t, n, complete)
  BY <1>6, <1>7, <1>8, <1>9 DEF InStream
<1> QED
  BY <1>5, <1>10 DEF t

\* A client that closes leaves the units it has sent.
LEMMA InStreamPrefix ==
    ASSUME NEW a \in Seq(Units), NEW b \in Seq(Units), NEW r, NEW n \in Nat,
           NEW complete, InStream(r, a \o b, n, complete)
    PROVE  InStream(r, a, n, FALSE)
<1> DEFINE s == a \o b
<1>1. /\ s \in Seq(Units) /\ Len(s) = Len(a) + Len(b)
      /\ \A i \in 1..(Len(a) + Len(b)) :
            s[i] = IF i <= Len(a) THEN a[i] ELSE b[i - Len(a)]
  BY ConcatProperties
<1>2. InStream(r, s, n, complete)
  OBVIOUS
<1> HIDE DEF s
<1>3. Len(a) \in Nat /\ Len(b) \in Nat
  OBVIOUS
<1>4. \A i \in 1..Len(a) : i \in 1..Len(s) /\ s[i] = a[i]
  BY <1>1, <1>3
<1>5. a # << >> => Follows(r, a[1])
  <2> SUFFICES ASSUME a # << >> PROVE Follows(r, a[1])
    OBVIOUS
  <2>1. 1 \in 1..Len(a)
    BY EmptySeq
  <2>2. s # << >> /\ s[1] = a[1]
    BY <1>1, <1>3, <1>4, <2>1
  <2> QED
    BY <1>2, <2>2 DEF InStream
<1>6. ASSUME NEW i \in 1..(Len(a) - 1) PROVE Follows(a[i], a[i + 1])
  <2>1. i \in 1..Len(a) /\ i + 1 \in 1..Len(a) /\ i \in 1..(Len(s) - 1)
    BY <1>1, <1>3
  <2> QED
    BY <1>2, <1>4, <2>1 DEF InStream
<1>7. r.seq <= n /\ \A i \in 1..Len(a) : a[i].seq <= n
  BY <1>2, <1>4 DEF InStream
<1> QED
  BY <1>5, <1>6, <1>7 DEF InStream

\* A request that is sent goes on the end of a complete stream.
LEMMA InStreamRequest ==
    ASSUME NEW a \in Seq(Units), NEW r, NEW n \in Nat,
           r.seq \in Nat, r.part \in Nat, InStream(r, a, n, TRUE),
           NEW len \in Nat,
           NEW h \in Units, h.seq = n + 1, h.len = len, h.part = 0,
           NEW b \in Seq(Units), Len(b) = len,
           \A i \in 1..len :
              b[i].seq = n + 1 /\ b[i].len = len /\ b[i].part = i
    PROVE  InStream(r, Append(a, h) \o b, n + 1, TRUE)
<1>1. Len(a) \in Nat
  OBVIOUS
<1> DEFINE g == Append(a, h)
           s == g \o b
<1>4. /\ g \in Seq(Units) /\ Len(g) = Len(a) + 1 /\ g[Len(a) + 1] = h
      /\ \A i \in 1..Len(a) : g[i] = a[i]
  BY AppendProperties
<1> HIDE DEF g
<1>5. /\ s \in Seq(Units) /\ Len(s) = Len(g) + Len(b)
      /\ \A i \in 1..(Len(g) + Len(b)) :
            s[i] = IF i <= Len(g) THEN g[i] ELSE b[i - Len(g)]
  <2>1. g \in Seq(Units) /\ b \in Seq(Units)
    BY <1>4
  <2>2. /\ g \o b \in Seq(Units) /\ Len(g \o b) = Len(g) + Len(b)
        /\ \A i \in 1..(Len(g) + Len(b)) :
              (g \o b)[i] = IF i <= Len(g) THEN g[i] ELSE b[i - Len(g)]
    BY ONLY <2>1, ConcatProperties
  <2> QED
    BY ONLY <2>2 DEF s
<1> HIDE DEF s
<1>6. /\ Len(s) = Len(a) + 1 + len /\ s # << >>
      /\ \A i \in 1..Len(a) : s[i] = a[i]
      /\ \A i \in 0..len : /\ s[Len(a) + 1 + i].seq = n + 1
                           /\ s[Len(a) + 1 + i].len = len
                           /\ s[Len(a) + 1 + i].part = i
  <2>1. Len(s) = Len(a) + 1 + len /\ s # << >>
    BY <1>1, <1>4, <1>5
  <2>2. ASSUME NEW i \in 1..Len(a) PROVE s[i] = a[i]
    <3>1. i \in 1..(Len(g) + Len(b)) /\ i <= Len(g)
      BY <1>1, <1>4
    <3> QED
      BY <1>4, <1>5, <3>1
  <2>3. s[Len(a) + 1] = h
    BY <1>1, <1>4, <1>5
  <2>4. ASSUME NEW i \in 1..len PROVE s[Len(a) + 1 + i] = b[i]
    <3>1. /\ Len(a) + 1 + i \in 1..(Len(g) + Len(b))
          /\ ~(Len(a) + 1 + i <= Len(g)) /\ (Len(a) + 1 + i) - Len(g) = i
      BY <1>1, <1>4
    <3> QED
      BY <1>5, <3>1
  <2>5. ASSUME NEW i \in 0..len
        PROVE  /\ s[Len(a) + 1 + i].seq = n + 1
               /\ s[Len(a) + 1 + i].len = len
               /\ s[Len(a) + 1 + i].part = i
    <3>1. CASE i = 0
      BY <1>1, <2>3, <3>1
    <3>2. CASE i # 0
      <4>1. i \in 1..len
        BY <3>2
      <4> QED
        BY <1>1, <2>4, <4>1
    <3> QED
      BY <3>1, <3>2
  <2> QED
    BY <2>1, <2>2, <2>5
<1>7. Follows(IF a = << >> THEN r ELSE a[Len(a)], s[Len(a) + 1])
  <2>1. Ends(IF a = << >> THEN r ELSE a[Len(a)], n)
    BY DEF InStream
  <2>2. 0 \in 0..len /\ Len(a) + 1 + 0 = Len(a) + 1
    BY <1>1
  <2>3. s[Len(a) + 1].seq = n + 1 /\ s[Len(a) + 1].part = 0
    BY <1>6, <2>2
  <2> DEFINE l == IF a = << >> THEN r ELSE a[Len(a)]
  <2>4. Ends(l, n)
    BY <2>1
  <2>5. l = r \/ l \in Units
    BY <1>1, EmptySeq
  <2> HIDE DEF l
  <2>6. ~(l.part < l.len) /\ l.seq = n
    <3>1. l.part = l.len /\ l.seq = n
      BY <2>4 DEF Ends
    <3>2. l.part \in Nat
      BY <2>5, UnitsType
    <3> QED
      BY <3>1, <3>2
  <2>7. Follows(l, s[Len(a) + 1])
    BY <2>3, <2>6 DEF Follows
  <2> QED
    BY <2>7 DEF l
<1>8. Follows(r, s[1])
  <2>1. CASE a = << >>
    BY <1>7, <2>1
  <2>2. CASE a # << >>
    <3>1. 1 \in 1..Len(a)
      BY <1>1, <2>2, EmptySeq
    <3> QED
      BY <1>6, <2>2, <3>1 DEF InStream
  <2> QED
    BY <2>1, <2>2
<1>9. ASSUME NEW i \in 1..(Len(s) - 1) PROVE Follows(s[i], s[i + 1])
  <2>1. CASE i < Len(a)
    <3>1. i \in 1..(Len(a) - 1) /\ i \in 1..Len(a) /\ i + 1 \in 1..Len(a)
      BY <1>1, <2>1
    <3> QED
      BY <1>6, <3>1 DEF InStream
  <2>2. CASE i = Len(a)
    <3>1. a # << >> /\ i \in 1..Len(a)
      BY <1>1, <2>2
    <3> QED
      BY <1>6, <1>7, <2>2, <3>1
  <2>3. CASE i > Len(a)
    <3> DEFINE j == i - (Len(a) + 1)
    <3>1. /\ j \in 0..len /\ j + 1 \in 0..len /\ j < len
          /\ Len(a) + 1 + j = i /\ Len(a) + 1 + (j + 1) = i + 1
      BY <1>1, <1>6, <2>3
    <3> HIDE DEF j
    <3>2. /\ s[i].seq = n + 1 /\ s[i].len = len /\ s[i].part = j
          /\ s[i + 1].seq = n + 1 /\ s[i + 1].len = len
          /\ s[i + 1].part = j + 1
      <4>1. /\ s[Len(a) + 1 + j].seq = n + 1 /\ s[Len(a) + 1 + j].len = len
            /\ s[Len(a) + 1 + j].part = j
        BY <1>6, <3>1
      <4>2. /\ s[Len(a) + 1 + (j + 1)].seq = n + 1
            /\ s[Len(a) + 1 + (j + 1)].len = len
            /\ s[Len(a) + 1 + (j + 1)].part = j + 1
        BY <1>6, <3>1
      <4> QED
        BY <3>1, <4>1, <4>2
    <3> QED
      BY <3>1, <3>2 DEF Follows
  <2> QED
    BY <1>1, <1>9, <2>1, <2>2, <2>3
<1>10. r.seq <= n + 1 /\ \A i \in 1..Len(s) : s[i].seq <= n + 1
  <2>1. r.seq <= n + 1
    BY DEF InStream
  <2>2. ASSUME NEW i \in 1..Len(s) PROVE s[i].seq <= n + 1
    <3>1. CASE i <= Len(a)
      <4>1. i \in 1..Len(a) /\ s[i] = a[i] /\ a[i] \in Units
        BY <1>1, <1>6, <3>1
      <4>2. a[i].seq <= n
        BY <4>1 DEF InStream
      <4> QED
        BY <4>1, <4>2, UnitsType
    <3>2. CASE i > Len(a)
      <4> DEFINE j == i - (Len(a) + 1)
      <4>1. j \in 0..len /\ Len(a) + 1 + j = i
        BY <1>1, <1>6, <3>2
      <4> HIDE DEF j
      <4>2. s[i].seq = n + 1
        BY <1>6, <4>1
      <4> QED
        BY <4>2
    <3> QED
      BY <1>1, <3>1, <3>2
  <2> QED
    BY <2>1, <2>2
<1>11. Ends(s[Len(s)], n + 1)
  <2>1. len \in 0..len /\ Len(a) + 1 + len = Len(s)
    BY <1>1, <1>6
  <2> QED
    BY <1>6, <2>1 DEF Ends
<1>12. InStream(r, s, n + 1, TRUE)
  BY <1>6, <1>8, <1>9, <1>10, <1>11 DEF InStream
<1> QED
  BY <1>12 DEF s, g

\* The end of a request stands for its last unit.
LEMMA InStreamDelivered ==
    ASSUME NEW list \in Seq(Units), NEW r, NEW n \in Nat, NEW complete,
           InStream(r, list, n, complete), r.part \in Nat, r.part = r.len,
           NEW u, u.seq = r.seq, u.part \in Nat, u.part = u.len
    PROVE  InStream(u, list, n, complete)
<1>1. ~(r.part < r.len) /\ ~(u.part < u.len)
  OBVIOUS
<1>2. list # << >> => Follows(u, list[1])
  BY <1>1 DEF InStream, Follows
<1>3. Ends(r, n) => Ends(u, n)
  BY DEF Ends
<1> QED
  BY <1>2, <1>3 DEF InStream

-----------------------------------------------------------------------------
(* Connections                                                             *)

LEMMA ConnectionsStep == OrderInv /\ [Next]_vars => ConnectionsOnce'
<1> SUFFICES ASSUME OrderInv, [Next]_vars PROVE ConnectionsOnce'
  OBVIOUS
<1> USE DEF clientVars, listenVars, streamVars, epollVars, serverVars,
       workerVars, history, acceptorUnchanged, Goto
<1>0. /\ TypeOK /\ ServerInv /\ ConnectionsOnce /\ NULL \notin Clients
      /\ backlog \in Seq(Clients) /\ Len(backlog) \in Nat
  BY NullApart, SMTT(30) DEF OrderInv, ServerInv, TypeOK
<1>1. ASSUME UNCHANGED <<backlog, open>>,
             \A c \in Clients : client_pc[c] # "new" => client_pc'[c] # "new"
      PROVE  ConnectionsOnce'
  <2>1. /\ \A i \in 1..Len(backlog) : backlog[i] \in Clients
        /\ \A f \in Fds : open[f] # NULL => open[f] \in Clients
    BY <1>0 DEF TypeOK
  <2> QED
    BY <1>0, <1>1, <2>1 DEF ConnectionsOnce
<1>2. ASSUME NEW c \in Clients, Connect(c) PROVE ConnectionsOnce'
  <2>1. /\ client_pc[c] = "new"
        /\ client_pc' = [client_pc EXCEPT ![c] = "idle"]
        /\ backlog' = Append(backlog, c) /\ open' = open
    BY <1>2 DEF Connect
  <2>2. /\ Len(backlog') = Len(backlog) + 1 /\ backlog'[Len(backlog) + 1] = c
        /\ \A i \in 1..Len(backlog) : backlog'[i] = backlog[i]
    BY <1>0, <2>1, AppendProperties
  <2>3. \A d \in Clients : client_pc[d] # "new" => client_pc'[d] # "new"
    BY <1>0, <2>1 DEF TypeOK
  <2>4. client_pc'[c] # "new"
    BY <1>0, <2>1 DEF TypeOK
  <2>5. /\ \A i \in 1..Len(backlog) : backlog[i] \in Clients /\ backlog[i] # c
        /\ \A f \in Fds : open[f] # c
        /\ \A f \in Fds : open[f] # NULL => open[f] \in Clients
    <3>1. \A i \in 1..Len(backlog) : backlog[i] \in Clients
      BY <1>0
    <3>2. \A i \in 1..Len(backlog) : backlog[i] # c
      BY <1>0, <2>1 DEF ConnectionsOnce
    <3>3. \A f \in Fds : open[f] # c
      BY <1>0, <2>1 DEF ConnectionsOnce
    <3>4. \A f \in Fds : open[f] # NULL => open[f] \in Clients
      BY <1>0 DEF TypeOK
    <3> QED
      BY <3>1, <3>2, <3>3, <3>4
  <2>6. ASSUME NEW i \in 1..Len(backlog'), NEW j \in 1..Len(backlog'),
               backlog'[i] = backlog'[j]
        PROVE  i = j
    BY <1>0, <2>2, <2>5, <2>6 DEF ConnectionsOnce
  <2>7. ASSUME NEW i \in 1..Len(backlog')
        PROVE  client_pc'[backlog'[i]] # "new" /\ \A f \in Fds :
           open'[f] # backlog'[i]
    BY <1>0, <2>1, <2>2, <2>3, <2>4, <2>5 DEF ConnectionsOnce
  <2> QED
    BY <1>0, <2>1, <2>3, <2>5, <2>6, <2>7 DEF ConnectionsOnce
<1>3. ASSUME NEW c \in Clients, ClientStep(c), ~Connect(c)
      PROVE  ConnectionsOnce'
  <2>1. UNCHANGED <<backlog, open>>
    BY <1>3 DEF ClientStep, SendHeader, SendData, Receive, Close
  <2>2. \/ client_pc' = client_pc
        \/ \E pc \in {"idle", "sending", "closed"} :
              client_pc' = [client_pc EXCEPT ![c] = pc]
    BY <1>3 DEF ClientStep, SendHeader, SendData, Receive, Close
  <2>3. \A d \in Clients : client_pc[d] # "new" => client_pc'[d] # "new"
    BY <1>0, <2>2 DEF TypeOK
  <2> QED
    BY <1>1, <2>1, <2>3
<1>4. CASE AcceptConnection
  <2> DEFINE f == LowestFd
  <2>1. f \in Fds /\ open[f] = NULL
    BY <1>4, LowestIsFree DEF AcceptConnection
  <2>2. /\ backlog # << >> /\ open' = [open EXCEPT ![f] = Head(backlog)]
        /\ backlog' = Tail(backlog) /\ client_pc' = client_pc
    BY <1>4 DEF AcceptConnection
  <2> HIDE DEF f
  <2>3. /\ Head(backlog) = backlog[1] /\ backlog[1] \in Clients
        /\ 1 \in 1..Len(backlog)
        /\ Len(backlog') = Len(backlog) - 1
        /\ \A i \in 1..Len(backlog') : backlog'[i] = backlog[i + 1]
    <3>1. Len(backlog) >= 1
      BY <1>0, <2>2, EmptySeq
    <3> QED
      BY <1>0, <2>2, <3>1, HeadTailProperties
  <2>4. \A g \in Fds : open'[g] = IF g = f THEN backlog[1] ELSE open[g]
    BY <1>0, <2>2, <2>3 DEF TypeOK
  <2>5. \A i \in 1..Len(backlog') :
           /\ i + 1 \in 1..Len(backlog) /\ backlog'[i] = backlog[i + 1]
           /\ i + 1 # 1
    BY <1>0, <2>3
  <2>6. ASSUME NEW i \in 1..Len(backlog'), NEW j \in 1..Len(backlog'),
               backlog'[i] = backlog'[j]
        PROVE  i = j
    <3>1. i + 1 = j + 1
      BY <1>0, <2>5, <2>6 DEF ConnectionsOnce
    <3> QED
      BY <1>0, <2>3, <3>1
  <2>7. ASSUME NEW i \in 1..Len(backlog')
        PROVE  client_pc'[backlog'[i]] # "new" /\ \A g \in Fds :
           open'[g] # backlog'[i]
    <3>1. /\ backlog'[i] = backlog[i + 1] /\ backlog'[i] # backlog[1]
          /\ i + 1 \in 1..Len(backlog)
      BY <1>0, <2>3, <2>5 DEF ConnectionsOnce
    <3> QED
      BY <1>0, <2>2, <2>4, <3>1 DEF ConnectionsOnce
  <2>8. \A g, h \in Fds : open'[g] = open'[h] /\ open'[g] # NULL => g = h
    BY <1>0, <2>3, <2>4 DEF ConnectionsOnce
  <2>9. \A g \in Fds : open'[g] # NULL => client_pc'[open'[g]] # "new"
    BY <1>0, <2>2, <2>3, <2>4 DEF ConnectionsOnce
  <2> QED
    BY <2>6, <2>7, <2>8, <2>9 DEF ConnectionsOnce
<1>5. ASSUME NEW w \in Workers, CloseOnError(w) PROVE ConnectionsOnce'
  <2>1. /\ open' = [open EXCEPT ![event(w).fd] = NULL]
        /\ UNCHANGED <<backlog, client_pc>>
    BY <1>5 DEF CloseOnError
  <2>2. \A g \in Fds : open'[g] = NULL \/ open'[g] = open[g]
    BY <1>0, <2>1 DEF TypeOK
  <2>3. \A i \in 1..Len(backlog) : backlog[i] \in Clients
    BY <1>0
  <2> QED
    BY <1>0, <2>1, <2>2, <2>3 DEF ConnectionsOnce
<1>6. ASSUME NEW w \in Workers, WorkerStep(w), ~CloseOnError(w)
      PROVE  ConnectionsOnce'
  <2>1. UNCHANGED <<backlog, open, client_pc>>
    BY <1>6 DEF WorkerStep, Start, TakeTurn, GetSocket, AddSocket, Poll,
       PollFails, EventsDone, ErrorFunc, StartMessage, ReadHeader, ReadData,
       ReadFails, ClientFunc, Deliver
  <2> QED
    BY <1>1, <2>1
<1>7. CASE \/ CreateThread \/ AwaitConnection \/ AcceptFails \/ InsertSocket
           \/ UNCHANGED vars
  <2>1. UNCHANGED <<backlog, open, client_pc>>
    BY <1>7 DEF CreateThread, AwaitConnection, AcceptFails, InsertSocket, vars
  <2> QED
    BY <1>1, <2>1
<1> QED
  BY <1>2, <1>3, <1>4, <1>5, <1>6, <1>7 DEF Next, AcceptorStep

\* A connection that the server has closed does not come back.
LEMMA LiveStays ==
    ASSUME OrderInv, [Next]_vars, NEW c \in Clients, Live(c)'
    PROVE  Live(c)
<1> USE DEF clientVars, listenVars, streamVars, epollVars, serverVars,
       workerVars, history, acceptorUnchanged, Goto
<1>0. /\ TypeOK /\ backlog \in Seq(Clients) /\ Len(backlog) \in Nat
      /\ NULL \notin Clients
  BY NullApart, SMTT(30) DEF OrderInv, ServerInv, TypeOK
<1>1. ASSUME NEW d \in Clients, Connect(d) PROVE Live(c)
  <2>1. /\ client_pc[d] = "new"
        /\ client_pc' = [client_pc EXCEPT ![d] = "idle"]
        /\ backlog' = Append(backlog, d) /\ open' = open
    BY <1>1 DEF Connect
  <2>2. /\ Len(backlog') = Len(backlog) + 1 /\ backlog'[Len(backlog) + 1] = d
        /\ \A i \in 1..Len(backlog) : backlog'[i] = backlog[i]
    BY <1>0, <2>1, AppendProperties
  <2>3. c # d => client_pc'[c] = client_pc[c]
    BY <1>0, <2>1 DEF TypeOK
  <2>4. c # d /\ InList(c, backlog') => InList(c, backlog)
    BY <1>0, <2>2 DEF InList
  <2> QED
    BY <2>1, <2>3, <2>4 DEF Live, InList
<1>2. CASE AcceptConnection
  <2>1. /\ backlog # << >> /\ open' = [open EXCEPT ![LowestFd] = Head(backlog)]
        /\ backlog' = Tail(backlog) /\ client_pc' = client_pc
    BY <1>2 DEF AcceptConnection
  <2>2. \A f \in Fds : open'[f] = open[f] \/ open'[f] = Head(backlog)
    BY <1>0, <2>1 DEF TypeOK
  <2>3. InList(Head(backlog), backlog)
    <3>1. Head(backlog) = backlog[1] /\ 1 \in 1..Len(backlog)
      BY <1>0, <2>1, EmptySeq
    <3> QED
      BY <3>1 DEF InList
  <2>4. InList(c, backlog') => InList(c, backlog)
    <3>1. /\ Len(backlog') = Len(backlog) - 1
          /\ \A i \in 1..Len(backlog') : backlog'[i] = backlog[i + 1]
      BY <1>0, <2>1, HeadTailProperties
    <3>2. \A i \in 1..Len(backlog') : i + 1 \in 1..Len(backlog)
      BY <1>0, <3>1
    <3> QED
      BY <3>1, <3>2 DEF InList
  <2> QED
    BY <2>1, <2>2, <2>3, <2>4 DEF Live, InList
<1>3. CASE /\ backlog' = backlog
           /\ client_pc'[c] = "new" => client_pc[c] = "new"
           /\ \A f \in Fds : open'[f] = open[f] \/ open'[f] = NULL
  BY <1>0, <1>3 DEF Live, InList
<1>4. ASSUME NEW d \in Clients, ClientStep(d), ~Connect(d) PROVE Live(c)
  <2>1. UNCHANGED <<backlog, open>>
    BY <1>4 DEF ClientStep, SendHeader, SendData, Receive, Close
  <2>2. \/ client_pc' = client_pc
        \/ \E pc \in {"idle", "sending", "closed"} :
              client_pc' = [client_pc EXCEPT ![d] = pc]
    BY <1>4 DEF ClientStep, SendHeader, SendData, Receive, Close
  <2>3. client_pc'[c] = "new" => client_pc[c] = "new"
    BY <1>0, <2>2 DEF TypeOK
  <2> QED
    BY <1>3, <2>1, <2>3
<1>5. ASSUME NEW w \in Workers, WorkerStep(w) PROVE Live(c)
  <2>1. UNCHANGED <<backlog, client_pc>>
    BY <1>5 DEF WorkerStep, Start, TakeTurn, GetSocket, AddSocket, Poll,
       PollFails, EventsDone, CloseOnError, ErrorFunc, StartMessage,
       ReadHeader, ReadData, ReadFails, ClientFunc, Deliver
  <2>2. open' = open \/ open' = [open EXCEPT ![event(w).fd] = NULL]
    BY <1>5 DEF WorkerStep, Start, TakeTurn, GetSocket, AddSocket, Poll,
       PollFails, EventsDone, CloseOnError, ErrorFunc, StartMessage,
       ReadHeader, ReadData, ReadFails, ClientFunc, Deliver
  <2>3. \A f \in Fds : open'[f] = open[f] \/ open'[f] = NULL
    BY <1>0, <2>2 DEF TypeOK
  <2> QED
    BY <1>3, <2>1, <2>3
<1>6. CASE \/ CreateThread \/ AwaitConnection \/ AcceptFails \/ InsertSocket
           \/ UNCHANGED vars
  <2>1. UNCHANGED <<backlog, open, client_pc>>
    BY <1>6 DEF CreateThread, AwaitConnection, AcceptFails, InsertSocket, vars
  <2> QED
    BY <1>3, <2>1
<1> QED
  BY <1>1, <1>2, <1>4, <1>5, <1>6 DEF Next, AcceptorStep

\* Two workers do not handle events of one connection.
LEMMA OneReader ==
    ASSUME OrderInv, NEW v \in Workers, NEW w \in Workers,
           events[v] # << >>, worker_pc[v] # "error_func",
           events[w] # << >>, worker_pc[w] # "error_func",
           open[event(v).fd] = open[event(w).fd]
    PROVE  v = w
<1>1. /\ event(v).fd \in epoll[v] /\ event(v).fd \in Fds
      /\ open[event(v).fd] \in Clients
      /\ event(w).fd \in epoll[w] /\ event(w).fd \in Fds
  BY EventInHand DEF OrderInv
<1>2. event(v).fd = event(w).fd
  BY <1>1, NullApart DEF OrderInv, ConnectionsOnce
<1> QED
  BY <1>1, <1>2 DEF OrderInv, ServerInv, PlacesInStep, EpollOnce

\* So while w handles an event of c, no other worker has a message of c.
LEMMA OtherMessages ==
    ASSUME OrderInv, NEW w \in Workers, events[w] # << >>,
           worker_pc[w] # "error_func", NEW v \in Workers,
           OnMessage(v, open[event(w).fd])
    PROVE  v = w
<1>1. /\ events[v] # << >> /\ worker_pc[v] # "error_func"
      /\ comm_msg[v].conn = open[event(v).fd]
  BY MessageStays DEF OnMessage, OrderInv, ServerInv, MessageInStep
<1> QED
  BY <1>1, OneReader DEF OnMessage

-----------------------------------------------------------------------------
(* Messages                                                                *)

LEMMA UnreadType ==
    ASSUME TypeOK, NEW c \in Clients
    PROVE  /\ inbox[c] \in Seq(Units) /\ sending[c] \in Seq(Units)
           /\ Unread(c) \in Seq(Units) /\ sent[c] \in Nat
           /\ Len(delivered[c]) \in Nat
<1>1. inbox[c] \in Seq(Units) /\ sending[c] \in Seq(Units)
  BY DEF TypeOK
<1>2. sent[c] \in Nat /\ Len(delivered[c]) \in Nat
  BY ParametersAssumption DEF TypeOK
<1> QED
  BY <1>1, <1>2, ConcatProperties DEF Unread

\* A stream goes on as it is when a step is about another connection.
LEMMA StreamStays ==
    ASSUME OrderInv, [Next]_vars, NEW c \in Clients,
           Unread(c)' = Unread(c), sent'[c] = sent[c],
           client_pc'[c] # "closed" => client_pc[c] # "closed",
           \A r : LastRead(c, r)' => LastRead(c, r)
    PROVE  StreamInStep(c)'
<1>1. Live(c)' => Live(c)
  BY LiveStays
<1>2. StreamInStep(c)
  BY DEF OrderInv
<1>3. ASSUME NEW r, InStream(r, Unread(c), sent[c], client_pc[c] # "closed")
      PROVE  InStream(r, Unread(c), sent[c], client_pc'[c] # "closed")
  BY <1>3 DEF InStream
<1> QED
  BY <1>1, <1>2, <1>3 DEF StreamInStep

\* The last unit read stays what it is when messages and deliveries do.
LEMMA LastReadStays ==
    ASSUME NEW c, NEW r,
           \A w \in Workers : /\ OnMessage(w, c)' <=> OnMessage(w, c)
                              /\ OnMessage(w, c) => comm_msg'[w] = comm_msg[w],
           delivered'[c] = delivered[c]
    PROVE  LastRead(c, r)' => LastRead(c, r)
BY DEF LastRead, LastDelivered, UnitOf

\* w has no message of a connection: the last request delivered is what it
\* has read of it.
LEMMA HeaderIsNext ==
    ASSUME OrderInv, NEW w \in Workers, worker_pc[w] = "header"
    PROVE  LET c == open[event(w).fd]
           IN  /\ c \in Clients /\ Live(c)
               /\ \A v \in Workers : ~OnMessage(v, c)
               /\ InStream(LastDelivered(c), Unread(c), sent[c],
                           client_pc[c] # "closed")
<1> DEFINE c == open[event(w).fd]
<1>1. events[w] # << >>
  BY DEF OrderInv, ServerInv, BatchInStep, Handling
<1>2. c \in Clients /\ event(w).fd \in Fds
  BY <1>1, EventInHand DEF OrderInv
<1>3. \A v \in Workers : ~OnMessage(v, c)
  BY <1>1, OtherMessages DEF OnMessage
<1>4. LastDelivered(c) \in [seq : Nat, len : Nat, part : Nat]
  BY <1>2, UnreadType DEF LastDelivered, OrderInv, ServerInv
<1>5. LastRead(c, LastDelivered(c)) /\ Live(c)
  BY <1>2, <1>3 DEF LastRead, Live
<1>6. StreamInStep(c)
  BY <1>2 DEF OrderInv
<1> QED
  BY <1>2, <1>3, <1>4, <1>5, <1>6 DEF StreamInStep

\* Otherwise the last unit read is in comm_msg.
LEMMA MessageIsLastRead ==
    ASSUME OrderInv, NEW w \in Workers,
           worker_pc[w] \in {"data", "client_func"}
    PROVE  LET c == open[event(w).fd]
               msg == comm_msg[w]
           IN  /\ c \in Clients /\ Live(c) /\ OnMessage(w, c)
               /\ msg \in Messages /\ msg.conn = c
               /\ msg.seq \in Nat /\ msg.len \in Nat /\ msg.count \in Nat
               /\ msg.seq = Len(delivered[c]) + 1
               /\ msg.seq <= sent[c]
               /\ \A v \in Workers : OnMessage(v, c) => v = w
               /\ InStream(UnitOf(msg), Unread(c), sent[c],
                           client_pc[c] # "closed")
<1> DEFINE c == open[event(w).fd]
           msg == comm_msg[w]
<1>1. /\ events[w] # << >> /\ worker_pc[w] # "error_func"
      /\ msg \in Messages /\ msg.conn = c
  BY MessageStays DEF OrderInv, ServerInv, MessageInStep
<1>2. c \in Clients /\ event(w).fd \in Fds
  BY <1>1, EventInHand DEF OrderInv
<1>3. \A v \in Workers : OnMessage(v, c) => v = w
  BY <1>1, OtherMessages
<1>4. OnMessage(w, c)
  BY <1>1 DEF OnMessage
<1>5. msg.seq \in Nat /\ msg.len \in Nat /\ msg.count \in Nat
  <2>1. msg.seq \in 1..MaxRequests /\ msg.len \in DataLens /\ msg.count \in Nat
    BY <1>1 DEF Messages
  <2>2. DataLens \subseteq Nat /\ MaxRequests \in Nat
    BY ParametersAssumption
  <2> HIDE DEF msg
  <2>3. msg.seq \in Nat
    BY <2>1, <2>2
  <2>4. msg.len \in Nat
    BY <2>1, <2>2
  <2> QED
    BY <2>1, <2>3, <2>4
<1>6. UnitOf(msg) \in [seq : Nat, len : Nat, part : Nat]
  BY <1>5 DEF UnitOf
<1>7. LastRead(c, UnitOf(msg)) /\ Live(c)
  BY <1>2, <1>4 DEF LastRead, Live
<1>8. StreamInStep(c)
  BY <1>2 DEF OrderInv
<1>9. InStream(UnitOf(msg), Unread(c), sent[c], client_pc[c] # "closed")
  BY <1>6, <1>7, <1>8 DEF StreamInStep
<1>10. msg.seq <= sent[c]
  BY <1>9 DEF InStream, UnitOf
<1>11. msg.seq = Len(delivered[c]) + 1
  BY <1>1 DEF OrderInv, MessageIsNext
<1> QED
  BY <1>1, <1>2, <1>3, <1>4, <1>5, <1>7, <1>9, <1>10, <1>11

-----------------------------------------------------------------------------
(* The stream: clients                                                     *)

LEMMA StreamClient ==
    ASSUME OrderInv, NEW c \in Clients, ClientStep(c), NEW d \in Clients
    PROVE  StreamInStep(d)'
<1> USE DEF clientVars, listenVars, streamVars, epollVars, serverVars,
       workerVars, history
<1>0. TypeOK /\ [Next]_vars /\ SendingInStep
  BY DEF OrderInv, ServerInv, Next
<1>1. UNCHANGED <<worker_pc, comm_msg, delivered>>
  BY DEF ClientStep, Connect, SendHeader, SendData, Receive, Close
<1>2. \A r : LastRead(d, r)' <=> LastRead(d, r)
  BY <1>1 DEF LastRead, OnMessage, LastDelivered, UnitOf
<1>3. CASE d # c
  <2>1. inbox'[d] = inbox[d]
    <3>1. inbox' = inbox \/ \E list : inbox' = [inbox EXCEPT ![c] = list]
      BY DEF ClientStep, Connect, SendHeader, SendData, Receive, Close
    <3> QED
      BY <1>0, <1>3, <3>1 DEF TypeOK
  <2>2. sending'[d] = sending[d]
    <3>1. sending' = sending \/ \E list :
             sending' = [sending EXCEPT ![c] = list]
      BY DEF ClientStep, Connect, SendHeader, SendData, Receive, Close
    <3> QED
      BY <1>0, <1>3, <3>1 DEF TypeOK
  <2>3. client_pc'[d] = client_pc[d]
    <3>1. client_pc' = client_pc \/ \E pc :
             client_pc' = [client_pc EXCEPT ![c] = pc]
      BY DEF ClientStep, Connect, SendHeader, SendData, Receive, Close
    <3> QED
      BY <1>0, <1>3, <3>1 DEF TypeOK
  <2>4. sent'[d] = sent[d]
    <3>1. sent' = sent \/ \E n : sent' = [sent EXCEPT ![c] = n]
      BY DEF ClientStep, Connect, SendHeader, SendData, Receive, Close
    <3> QED
      BY <1>0, <1>3, <3>1 DEF TypeOK
  <2> QED
    BY <1>0, <1>2, <2>1, <2>2, <2>3, <2>4, StreamStays DEF Unread
<1>4. CASE d = c /\ (Connect(c) \/ Receive(c))
  <2>1. UNCHANGED <<inbox, sending, sent>>
    BY <1>4 DEF Connect, Receive
  <2>2. client_pc'[c] # "closed" => client_pc[c] # "closed"
    BY <1>4 DEF Connect, Receive
  <2> QED
    BY <1>0, <1>2, <1>4, <2>1, <2>2, StreamStays DEF Unread
<1>5. CASE d = c /\ SendData(c)
  <2>1. sending[c] # << >> /\ client_pc[c] # "closed"
    BY <1>0, <1>5 DEF SendData, SendingInStep
  <2>2. sent' = sent
    BY <1>5 DEF SendData
  <2>3. /\ inbox'[c] = Append(inbox[c], Head(sending[c]))
        /\ sending'[c] = Tail(sending[c])
    BY <1>0, <1>5 DEF SendData, TypeOK
  <2>4. inbox[c] \in Seq(Units) /\ sending[c] \in Seq(Units)
    BY <1>0, UnreadType
  <2>5. Append(inbox[c], Head(sending[c])) \o Tail(sending[c])
           = inbox[c] \o sending[c]
    BY <2>1, <2>4, MoveHead
  <2>6. Unread(c)' = Unread(c)
    BY <2>3, <2>5 DEF Unread
  <2> QED
    BY <1>0, <1>2, <1>5, <2>1, <2>2, <2>6, StreamStays
<1>6. CASE d = c /\ SendHeader(c)
  <2>1. /\ client_pc[c] = "idle" /\ sent[c] < MaxRequests /\ sending[c] = << >>
        /\ sent' = [sent EXCEPT ![c] = @ + 1]
    BY <1>0, <1>6 DEF SendHeader, SendingInStep
  <2>2. PICK len \in DataLens :
           /\ inbox' = [inbox EXCEPT ![c] =
                 Append(@, [seq |-> sent[c] + 1, len |-> len, part |-> 0])]
           /\ sending' = [sending EXCEPT ![c] = [i \in 1..len |->
                 [seq |-> sent[c] + 1, len |-> len, part |-> i]]]
    BY <1>6 DEF SendHeader
  <2> DEFINE n == sent[c]
             h == [seq |-> n + 1, len |-> len, part |-> 0]
             b == [i \in 1..len |-> [seq |-> n + 1, len |-> len, part |-> i]]
  <2>3. n \in Nat /\ n + 1 \in 1..MaxRequests /\ len \in Nat
    BY <1>0, <2>1, ParametersAssumption, SMTT(30) DEF TypeOK
  <2>4. h \in Units /\ h.seq = n + 1 /\ h.len = len /\ h.part = 0
    BY <2>3 DEF Units
  <2>5. /\ b \in Seq(Units) /\ Len(b) = len
        /\ \A i \in 1..len :
              b[i].seq = n + 1 /\ b[i].len = len /\ b[i].part = i
    <3>1. \A i \in 1..len : [seq |-> n + 1, len |-> len, part |-> i] \in Units
      BY <2>3 DEF Units
    <3>2. b \in [1..len -> Units]
      BY <3>1
    <3>3. \A i \in 1..len : b[i].seq = n + 1 /\ b[i].len = len /\ b[i].part = i
      OBVIOUS
    <3> HIDE DEF b
    <3> QED
      BY <2>3, <3>2, <3>3
  <2>6. /\ inbox' = [inbox EXCEPT ![c] = Append(@, h)]
        /\ sending' = [sending EXCEPT ![c] = b]
    BY <2>2
  <2> HIDE DEF h, b
  <2>7. inbox'[c] = Append(inbox[c], h) /\ sending'[c] = b /\ sent'[c] = n + 1
    BY <1>0, <2>1, <2>6 DEF TypeOK
  <2>8. Unread(c) = inbox[c] /\ inbox[c] \in Seq(Units)
    BY <1>0, <2>1, UnreadType, ConcatEmptySeq DEF Unread
  <2>9. Unread(c)' = Append(inbox[c], h) \o b
    BY <2>7 DEF Unread
  <2>10. ASSUME NEW r \in [seq : Nat, len : Nat, part : Nat], LastRead(c, r),
                Live(c)
         PROVE  InStream(r, Unread(c)', n + 1, TRUE)
    <3>1. StreamInStep(c) /\ client_pc[c] # "closed"
      BY <2>1 DEF OrderInv
    <3>2. InStream(r, inbox[c], n, client_pc[c] # "closed")
      BY <2>8, <2>10, <3>1 DEF StreamInStep
    <3>3. InStream(r, inbox[c], n, TRUE)
      BY <3>1, <3>2 DEF InStream
    <3>4. r.seq \in Nat /\ r.part \in Nat
      OBVIOUS
    <3> HIDE DEF n
    <3>5. InStream(r, Append(inbox[c], h) \o b, n + 1, TRUE)
      BY <2>3, <2>4, <2>5, <2>8, <3>3, <3>4, InStreamRequest
    <3> QED
      BY <2>9, <3>5
  <2>11. ASSUME NEW r, InStream(r, Unread(c)', n + 1, TRUE)
         PROVE  InStream(r, Unread(c)', sent'[c], client_pc'[c] # "closed")
    BY <2>7, <2>11 DEF InStream
  <2> HIDE DEF n
  <2>12. Live(c)' => Live(c)
    BY <1>0, LiveStays
  <2> QED
    BY <1>2, <1>6, <2>10, <2>11, <2>12 DEF StreamInStep
<1>7. CASE d = c /\ Close(c)
  <2>1. /\ inbox' = inbox /\ sent' = sent /\ sending'[c] = << >>
        /\ client_pc'[c] = "closed"
    BY <1>0, <1>7 DEF Close, TypeOK
  <2>2. inbox[c] \in Seq(Units) /\ sending[c] \in Seq(Units) /\ sent[c] \in Nat
    BY <1>0, UnreadType
  <2>3. Unread(c)' = inbox[c]
    BY <2>1, <2>2, ConcatEmptySeq DEF Unread
  <2>4. ASSUME NEW r \in [seq : Nat, len : Nat, part : Nat], LastRead(c, r),
               Live(c)
        PROVE  InStream(r, inbox[c], sent[c], FALSE)
    <3>1. InStream(r, inbox[c] \o sending[c], sent[c], client_pc[c] # "closed")
      BY <2>4 DEF OrderInv, StreamInStep, Unread
    <3> QED
      BY <2>2, <3>1, InStreamPrefix
  <2>5. ASSUME NEW r, InStream(r, inbox[c], sent[c], FALSE)
        PROVE  InStream(r, Unread(c)', sent'[c], client_pc'[c] # "closed")
    BY <2>1, <2>3, <2>5 DEF InStream
  <2>6. Live(c)' => Live(c)
    BY <1>0, LiveStays
  <2> QED
    BY <1>2, <1>7, <2>4, <2>5, <2>6 DEF StreamInStep
<1> QED
  BY <1>3, <1>4, <1>5, <1>6, <1>7 DEF ClientStep

-----------------------------------------------------------------------------
(* The stream: workers                                                     *)

\* The steps of a worker that are about no message.
OtherWork(w) ==
    \/ Start(w) \/ TakeTurn(w) \/ GetSocket(w) \/ AddSocket(w) \/ Poll(w)
    \/ PollFails(w) \/ EventsDone(w) \/ ErrorFunc(w) \/ StartMessage(w)

LEMMA WorkerSteps ==
    ASSUME NEW w \in Workers, WorkerStep(w)
    PROVE  \/ OtherWork(w) \/ CloseOnError(w) \/ ReadHeader(w) \/ ReadData(w)
           \/ ReadFails(w) \/ ClientFunc(w)
BY DEF WorkerStep, OtherWork

\* The step of one worker leaves the others where they are.
LEMMA OthersWait ==
    ASSUME TypeOK, NEW w \in Workers, WorkerStep(w),
           NEW v \in Workers, v # w
    PROVE  worker_pc'[v] = worker_pc[v]
<1>1. CASE OtherWork(w)
  <2>1. \E pc : worker_pc' = [worker_pc EXCEPT ![w] = pc]
    BY <1>1 DEF OtherWork, Start, TakeTurn, GetSocket, AddSocket, Poll,
       PollFails, EventsDone, ErrorFunc, StartMessage, Goto
  <2> QED
    BY <2>1 DEF TypeOK
<1>2. CASE ~OtherWork(w)
  <2>1. \E pc : worker_pc' = [worker_pc EXCEPT ![w] = pc]
    BY <1>2, WorkerSteps DEF CloseOnError, ReadHeader, ReadData, ReadFails,
       ClientFunc, Goto
  <2> QED
    BY <2>1 DEF TypeOK
<1> QED
  BY <1>1, <1>2

LEMMA OtherMessagesStay ==
    ASSUME TypeOK, NEW w \in Workers, OtherWork(w) \/ CloseOnError(w), NEW d
    PROVE  /\ UNCHANGED <<comm_msg, delivered>>
           /\ \A v \in Workers : OnMessage(v, d)' <=> OnMessage(v, d)
<1>1. UNCHANGED <<comm_msg, delivered>>
  BY DEF OtherWork, Start, TakeTurn, GetSocket, AddSocket, Poll, PollFails,
     EventsDone, CloseOnError, ErrorFunc, StartMessage, workerVars, history
<1>2. /\ \A v \in Workers : v # w => worker_pc'[v] = worker_pc[v]
      /\ worker_pc[w] \notin {"data", "client_func"}
      /\ worker_pc'[w] \notin {"data", "client_func"}
  BY DEF OtherWork, Start, TakeTurn, GetSocket, AddSocket, Poll, PollFails,
     Goto, EventsDone, CloseOnError, ErrorFunc, StartMessage, TypeOK
<1> QED
  BY <1>1, <1>2 DEF OnMessage

\* A worker's step that is about another connection.
LEMMA StreamOfOthers ==
    ASSUME OrderInv, NEW w \in Workers, WorkerStep(w), ~OtherWork(w),
           NEW d \in Clients, d # open[event(w).fd]
    PROVE  StreamInStep(d)'
<1> USE DEF clientVars, listenVars, streamVars, epollVars, serverVars,
       workerVars, history, Goto
<1> DEFINE c == open[event(w).fd]
<1>0. TypeOK /\ [Next]_vars
  BY DEF OrderInv, ServerInv, Next
<1>1. UNCHANGED <<client_pc, sending, sent>>
  BY DEF WorkerStep, OtherWork, CloseOnError, ReadHeader, ReadData, ReadFails,
     ClientFunc, Deliver
<1>2. inbox'[d] = inbox[d]
  <2>1. inbox' = inbox \/ \E list : inbox' = [inbox EXCEPT ![c] = list]
    BY DEF WorkerStep, OtherWork, CloseOnError, ReadHeader, ReadData,
       ReadFails, ClientFunc, Deliver
  <2> QED
    BY <1>0, <2>1 DEF TypeOK
<1>3. CASE CloseOnError(w)
  <2>1. \A r : LastRead(d, r)' => LastRead(d, r)
    BY <1>0, <1>3, OtherMessagesStay, LastReadStays
  <2> QED
    BY <1>0, <1>1, <1>2, <2>1, StreamStays DEF Unread
<1>4. CASE ~CloseOnError(w)
  <2>1. /\ worker_pc[w] \in {"header", "data", "client_func"}
        /\ \/ worker_pc[w] = "header"
           \/ worker_pc[w] \in {"data", "client_func"} /\ comm_msg[w].conn = c
    BY <1>4, MessageIsLastRead
    DEF WorkerStep, OtherWork, ReadHeader, ReadData, ReadFails, ClientFunc
  <2>2. ~OnMessage(w, d)
    BY <2>1 DEF OnMessage
  <2>3. ~OnMessage(w, d)'
    <3>1. CASE ReadHeader(w)
      <4> DEFINE msg == [conn |-> c, seq |-> Head(inbox[c]).seq,
                         len |-> Head(inbox[c]).len, count |-> 0]
      <4>1. comm_msg' = [comm_msg EXCEPT ![w] = msg] /\ msg.conn = c
        BY <3>1 DEF ReadHeader
      <4> HIDE DEF msg
      <4>2. comm_msg'[w].conn = c
        BY <1>0, <4>1 DEF TypeOK
      <4> QED
        BY <4>2 DEF OnMessage
    <3>2. CASE ReadData(w)
      <4>1. comm_msg[w] \in Messages /\ comm_msg[w].conn = c
        BY <3>2, MessageIsLastRead DEF ReadData
      <4>2. comm_msg'[w] = [comm_msg[w] EXCEPT !.count = @ + 1]
        BY <1>0, <3>2 DEF ReadData, TypeOK
      <4>3. comm_msg'[w].conn = c
        BY <4>1, <4>2 DEF Messages
      <4> QED
        BY <4>3 DEF OnMessage
    <3>3. CASE ReadFails(w) \/ ClientFunc(w)
      <4>1. worker_pc'[w] \notin {"data", "client_func"}
        BY <1>0, <3>3 DEF ReadFails, ClientFunc, TypeOK
      <4> QED
        BY <4>1 DEF OnMessage
    <3> QED
      BY <1>4, <3>1, <3>2, <3>3, WorkerSteps
  <2>4. ASSUME NEW v \in Workers, v # w
        PROVE  /\ OnMessage(v, d)' <=> OnMessage(v, d)
               /\ comm_msg'[v] = comm_msg[v]
    <3>1. worker_pc'[v] = worker_pc[v]
      BY <1>0, <1>4, <2>4, OthersWait
    <3>2. comm_msg'[v] = comm_msg[v]
      <4>1. \E msg : comm_msg' = [comm_msg EXCEPT ![w] = msg]
        BY <1>4, WorkerSteps DEF ReadHeader, ReadData, ReadFails, ClientFunc,
           Deliver
      <4> QED
        BY <1>0, <2>4, <4>1 DEF TypeOK
    <3> QED
      BY <3>1, <3>2 DEF OnMessage
  <2>5. delivered'[d] = delivered[d]
    <3>1. CASE ClientFunc(w)
      <4>1. delivered' = [delivered EXCEPT ![c] = Append(@, comm_msg[w].seq)]
        BY <3>1, MessageIsLastRead DEF ClientFunc, Deliver
      <4> QED
        BY <1>0, <4>1 DEF TypeOK
    <3> QED
      BY <1>4, <3>1, WorkerSteps DEF ReadHeader, ReadData, ReadFails
  <2>6. \A r : LastRead(d, r)' => LastRead(d, r)
    BY <2>2, <2>3, <2>4, <2>5, LastReadStays
  <2> QED
    BY <1>0, <1>1, <1>2, <2>6, StreamStays DEF Unread
<1> QED
  BY <1>3, <1>4

\* A read takes the first unit of the stream and puts it in comm_msg.
LEMMA StreamRead ==
    ASSUME OrderInv, NEW w \in Workers, ReadHeader(w) \/ ReadData(w),
           NEW c \in Clients, c = open[event(w).fd]
    PROVE  /\ StreamInStep(c)'
           /\ comm_msg'[w].conn = c
           /\ comm_msg'[w].seq = Len(delivered[c]) + 1
           /\ worker_pc'[w] = "client_func" =>
                 comm_msg'[w].count = comm_msg'[w].len
<1> USE DEF clientVars, listenVars, streamVars, epollVars, serverVars,
       workerVars, history, Goto
<1> DEFINE unit == Head(inbox[c])
           complete == client_pc[c] # "closed"
<1>0. TypeOK
  BY DEF OrderInv, ServerInv
<1>1. c \in Clients /\ Live(c) /\ inbox[c] # << >> /\ \A v \in Workers :
         OnMessage(v, c) => v = w
  BY HeaderIsNext, MessageIsLastRead DEF ReadHeader, ReadData, Readable
<1>2. /\ inbox' = [inbox EXCEPT ![c] = Tail(@)]
      /\ UNCHANGED <<client_pc, sending, sent, delivered>>
      /\ \E msg : comm_msg' = [comm_msg EXCEPT ![w] = msg]
      /\ \E pc : worker_pc' = [worker_pc EXCEPT ![w] = pc]
  BY DEF ReadHeader, ReadData
<1>3. /\ inbox[c] \in Seq(Units) /\ sending[c] \in Seq(Units)
      /\ Unread(c) \in Seq(Units) /\ sent[c] \in Nat
      /\ Len(delivered[c]) \in Nat
  BY <1>0, <1>1, UnreadType
<1>4. /\ Unread(c) # << >> /\ Unread(c)[1] = unit
      /\ Unread(c)' = Tail(Unread(c))
      /\ unit \in Units
  <2>1. inbox'[c] = Tail(inbox[c]) /\ sending'[c] = sending[c]
    BY <1>0, <1>1, <1>2 DEF TypeOK
  <2>2. unit \in Units
    BY <1>1, <1>3, HeadTailProperties
  <2>3. Unread(c)' = Tail(inbox[c]) \o sending[c]
    BY <2>1 DEF Unread
  <2>4. /\ inbox[c] \o sending[c] # << >>
        /\ (inbox[c] \o sending[c])[1] = Head(inbox[c])
        /\ Tail(inbox[c]) \o sending[c] = Tail(inbox[c] \o sending[c])
    <3> DEFINE s == inbox[c]
               t == sending[c]
    <3>1. s \in Seq(Units) /\ t \in Seq(Units) /\ s # << >>
      BY <1>1, <1>3
    <3> HIDE DEF s, t
    <3>2. /\ s \o t # << >> /\ (s \o t)[1] = Head(s)
          /\ Tail(s) \o t = Tail(s \o t)
      BY ONLY <3>1, HeadOfConcat, Zenon
    <3> QED
      BY ONLY <3>2, Zenon DEF s, t
  <2> QED
    BY <2>2, <2>3, <2>4 DEF Unread
<1>5. /\ comm_msg'[w].conn = c
      /\ comm_msg'[w].seq = unit.seq /\ comm_msg'[w].len = unit.len
      /\ comm_msg'[w].count = unit.part
      /\ unit.seq = Len(delivered[c]) + 1
      /\ InStream(UnitOf(comm_msg'[w]), Tail(Unread(c)), sent[c], complete)
      /\ worker_pc'[w] = "client_func" => unit.part = unit.len
      /\ worker_pc'[w] \in {"data", "client_func"}
  <2>1. CASE ReadHeader(w)
    <3> DEFINE msg == [conn |-> c, seq |-> unit.seq, len |-> unit.len,
                       count |-> 0]
    <3>1. comm_msg' = [comm_msg EXCEPT ![w] = msg]
      BY <2>1 DEF ReadHeader
    <3>2. /\ msg.conn = c /\ msg.seq = unit.seq /\ msg.len = unit.len
          /\ msg.count = 0
      OBVIOUS
    <3>3. InStream(LastDelivered(c), Unread(c), sent[c], complete)
      BY <2>1, HeaderIsNext DEF ReadHeader
    <3>4. unit.part = 0 /\ unit.seq = Len(delivered[c]) + 1
      <4> DEFINE r == LastDelivered(c)
      <4>1. r.seq = Len(delivered[c]) /\ r.len = 0 /\ r.part = 0
        BY DEF LastDelivered
      <4>2. Follows(r, unit)
        BY <1>4, <3>3 DEF InStream
      <4> HIDE DEF r, unit
      <4> QED
        BY <4>1, <4>2 DEF Follows
    <3> HIDE DEF msg
    <3>5. comm_msg'[w] = msg
      BY <1>0, <3>1 DEF TypeOK
    <3>6. /\ UnitOf(msg).seq = unit.seq /\ UnitOf(msg).len = unit.len
          /\ UnitOf(msg).part = unit.part
      BY <3>2, <3>4 DEF UnitOf
    <3> HIDE DEF unit, complete
    <3>7. InStream(UnitOf(msg), Tail(Unread(c)), sent[c], complete)
      BY <1>3, <1>4, <3>3, <3>6, InStreamTail
    <3>8. worker_pc'[w] = IF unit.len > 0 THEN "data" ELSE "client_func"
      BY <1>0, <2>1 DEF ReadHeader, TypeOK, unit
    <3>9. unit.len \in Nat
      BY <1>4, UnitsType
    <3> QED
      BY <3>2, <3>4, <3>5, <3>7, <3>8, <3>9
  <2>2. CASE ReadData(w)
    <3> DEFINE old == comm_msg[w]
    <3>1. /\ old \in Messages /\ old.conn = c
          /\ old.seq = Len(delivered[c]) + 1
          /\ InStream(UnitOf(old), Unread(c), sent[c], complete)
          /\ old.count \in Nat /\ old.len \in Nat
      BY <2>2, MessageIsLastRead DEF ReadData
    <3>2. worker_pc[w] = "data" /\ old.count < old.len
      BY <2>2 DEF ReadData, OrderInv, ServerInv, MessageInStep
    <3>3. comm_msg'[w] = [old EXCEPT !.count = @ + 1]
      BY <1>0, <2>2 DEF ReadData, TypeOK
    <3>4. worker_pc'[w] = IF old.count + 1 = old.len
                          THEN "client_func" ELSE "data"
      BY <1>0, <2>2 DEF ReadData, TypeOK
    <3> HIDE DEF old
    <3> DEFINE msg == [old EXCEPT !.count = @ + 1]
    <3>5. /\ msg.conn = c /\ msg.seq = old.seq /\ msg.len = old.len
          /\ msg.count = old.count + 1
      BY <3>1 DEF Messages
    <3>6. Follows(UnitOf(old), unit)
      BY <1>4, <3>1 DEF InStream
    <3>7. unit.seq = old.seq /\ unit.len = old.len /\ unit.part = old.count + 1
      BY <3>2, <3>6 DEF Follows, UnitOf
    <3> HIDE DEF msg
    <3>8. /\ UnitOf(msg).seq = unit.seq /\ UnitOf(msg).len = unit.len
          /\ UnitOf(msg).part = unit.part
      BY <3>5, <3>7 DEF UnitOf
    <3>9. comm_msg'[w] = msg
      BY <3>3 DEF msg
    <3> HIDE DEF unit, complete
    <3>10. InStream(UnitOf(msg), Tail(Unread(c)), sent[c], complete)
      BY <1>3, <1>4, <3>1, <3>8, InStreamTail
    <3> QED
      BY <3>1, <3>4, <3>5, <3>7, <3>9, <3>10
  <2> QED
    BY <2>1, <2>2
<1>6. \A v \in Workers : v # w => ~OnMessage(v, c)'
  <2>1. ASSUME NEW v \in Workers, v # w
        PROVE  worker_pc'[v] = worker_pc[v] /\ comm_msg'[v] = comm_msg[v]
    BY <1>0, <1>2, <2>1 DEF TypeOK
  <2> QED
    BY <1>1, <2>1 DEF OnMessage
<1>7. OnMessage(w, c)'
  <2> QED
    BY <1>5 DEF OnMessage
<1>8. ASSUME NEW r, LastRead(c, r)' PROVE r = UnitOf(comm_msg'[w])
  BY <1>6, <1>7, <1>8 DEF LastRead, UnitOf
<1>9. StreamInStep(c)'
  <2>1. UNCHANGED <<sent, client_pc>>
    BY <1>2
  <2>2. ASSUME NEW r, LastRead(c, r)'
        PROVE  InStream(r, Unread(c)', sent'[c], client_pc'[c] # "closed")
    <3>1. InStream(UnitOf(comm_msg'[w]), Unread(c)', sent[c],
                   client_pc[c] # "closed")
      BY <1>4, <1>5
    <3> QED
      BY <1>8, <2>1, <2>2, <3>1
  <2> QED
    BY <2>2 DEF StreamInStep
<1> QED
  BY <1>5, <1>9

\* A connection that is closed on an error is not live any more.
LEMMA StreamClosed ==
    ASSUME OrderInv, NEW w \in Workers, CloseOnError(w),
           NEW c \in Clients, c = open[event(w).fd]
    PROVE  ~Live(c)'
<1> DEFINE f == event(w).fd
<1>1. f \in Fds /\ c = open[f]
  BY EventInHand DEF OrderInv, CloseOnError
<1>2. /\ open' = [open EXCEPT ![f] = NULL] /\ UNCHANGED <<backlog, client_pc>>
  BY DEF CloseOnError, clientVars, listenVars
<1>3. c # NULL /\ open \in [Fds -> Clients \cup {NULL}]
  BY <1>1, NullApart DEF OrderInv, ServerInv, TypeOK
<1>4. client_pc[c] # "new" /\ ~InList(c, backlog)
  BY <1>1, <1>3 DEF OrderInv, ConnectionsOnce, InList
<1> HIDE DEF f
<1>5. \A g \in Fds : open'[g] # c
  BY <1>1, <1>2, <1>3 DEF OrderInv, ConnectionsOnce
<1> QED
  BY <1>2, <1>4, <1>5 DEF Live, InList

\* A read that fails met the end of the stream.
LEMMA StreamFails ==
    ASSUME OrderInv, NEW w \in Workers, ReadFails(w),
           NEW c \in Clients, c = open[event(w).fd]
    PROVE  StreamInStep(c)'
<1> USE DEF clientVars, listenVars, streamVars, epollVars, serverVars,
       workerVars, history, Goto
<1>0. TypeOK
  BY DEF OrderInv, ServerInv
<1>1. /\ worker_pc[w] \in {"header", "data"} /\ ~Readable(c) /\ ~PeerOpen(c)
      /\ UNCHANGED <<client_pc, sending, sent, inbox, delivered>>
      /\ worker_pc' = [worker_pc EXCEPT ![w] = "poll"]
      /\ comm_msg' = [comm_msg EXCEPT ![w] = NULL]
  BY DEF ReadFails
<1>2. /\ c \in Clients /\ \A v \in Workers : OnMessage(v, c) => v = w
      /\ Len(delivered[c]) <= sent[c]
  <2>1. CASE worker_pc[w] = "header"
    BY <2>1, HeaderIsNext DEF InStream, LastDelivered
  <2>2. CASE worker_pc[w] = "data"
    <3>1. /\ c \in Clients /\ \A v \in Workers : OnMessage(v, c) => v = w
          /\ comm_msg[w].seq = Len(delivered[c]) + 1
          /\ comm_msg[w].seq <= sent[c]
      BY <2>2, MessageIsLastRead
    <3>2. Len(delivered[c]) \in Nat /\ sent[c] \in Nat
      BY <1>0, <3>1, UnreadType
    <3> QED
      BY <3>1, <3>2
  <2> QED
    BY <1>1, <2>1, <2>2
<1>3. inbox[c] = << >> /\ client_pc[c] = "closed"
  BY <1>1, <1>2, NullApart DEF Readable, PeerOpen
<1>4. sending[c] = << >>
  BY <1>2, <1>3 DEF OrderInv, ServerInv, SendingInStep
<1>5. Unread(c)' = << >>
  BY <1>1, <1>3, <1>4 DEF Unread
<1>6. ASSUME NEW v \in Workers PROVE ~OnMessage(v, c)'
  <2>1. worker_pc'[v] = IF v = w THEN "poll" ELSE worker_pc[v]
    BY <1>0, <1>1 DEF TypeOK
  <2>2. v # w => comm_msg'[v] = comm_msg[v]
    BY <1>0, <1>1 DEF TypeOK
  <2> QED
    BY <1>2, <2>1, <2>2 DEF OnMessage
<1>7. ASSUME NEW r, LastRead(c, r)' PROVE r = LastDelivered(c)
  BY <1>1, <1>6, <1>7 DEF LastRead, LastDelivered
<1>8. InStream(LastDelivered(c), << >>, sent[c], FALSE)
  BY <1>2 DEF InStream, LastDelivered
<1>9. ASSUME NEW r, LastRead(c, r)'
      PROVE  InStream(r, Unread(c)', sent'[c], client_pc'[c] # "closed")
  <2>1. InStream(r, << >>, sent[c], FALSE)
    BY <1>7, <1>8, <1>9
  <2>2. ~(client_pc'[c] # "closed") /\ sent'[c] = sent[c]
    BY <1>1, <1>3
  <2> QED
    BY <1>5, <2>1, <2>2 DEF InStream
<1> QED
  BY <1>9 DEF StreamInStep

\* client_func ends a message.
LEMMA StreamDelivered ==
    ASSUME OrderInv, NEW w \in Workers, ClientFunc(w),
           NEW c \in Clients, c = open[event(w).fd]
    PROVE  /\ StreamInStep(c)'
           /\ delivered' = [delivered EXCEPT ![c] = Append(@, Len(@) + 1)]
           /\ delivered'[c] = Append(delivered[c], Len(delivered[c]) + 1)
           /\ Len(delivered[c]) < sent[c]
           /\ \A v \in Workers : ~OnMessage(v, c)'
<1> USE DEF clientVars, listenVars, streamVars, epollVars, serverVars,
       workerVars, history, Goto
<1> DEFINE msg == comm_msg[w]
           complete == client_pc[c] # "closed"
<1>0. TypeOK /\ worker_pc[w] = "client_func"
  BY DEF OrderInv, ServerInv, ClientFunc
<1>1. /\ c \in Clients /\ Live(c) /\ msg.conn = c
      /\ msg.seq \in Nat /\ msg.len \in Nat /\ msg.count \in Nat
      /\ msg.seq = Len(delivered[c]) + 1 /\ msg.seq <= sent[c]
      /\ \A v \in Workers : OnMessage(v, c) => v = w
      /\ InStream(UnitOf(msg), Unread(c), sent[c], complete)
  BY <1>0, MessageIsLastRead
<1>2. msg.count = msg.len
  BY <1>0 DEF OrderInv, MessageIsNext
<1>3. /\ UNCHANGED <<client_pc, sending, sent, inbox>>
      /\ worker_pc' = [worker_pc EXCEPT ![w] = "events"]
      /\ comm_msg' = [comm_msg EXCEPT ![w] = NULL]
      /\ delivered' = [delivered EXCEPT ![c] = Append(@, msg.seq)]
  BY <1>1 DEF ClientFunc, Deliver
<1> HIDE DEF msg, complete
<1>4. /\ delivered[c] \in Seq(1..MaxRequests)
      /\ delivered'[c] = Append(delivered[c], Len(delivered[c]) + 1)
      /\ delivered' = [delivered EXCEPT ![c] = Append(@, Len(@) + 1)]
      /\ Len(delivered[c]) \in Nat /\ sent[c] \in Nat
  BY <1>0, <1>1, <1>3, UnreadType DEF TypeOK
<1>5. Len(delivered'[c]) = Len(delivered[c]) + 1
  BY <1>4
<1>6. ASSUME NEW v \in Workers PROVE ~OnMessage(v, c)'
  <2>1. worker_pc'[v] = IF v = w THEN "events" ELSE worker_pc[v]
    BY <1>0, <1>3 DEF TypeOK
  <2>2. v # w => comm_msg'[v] = comm_msg[v]
    BY <1>0, <1>3 DEF TypeOK
  <2> QED
    BY <1>1, <2>1, <2>2 DEF OnMessage
<1>7. ASSUME NEW r, LastRead(c, r)'
      PROVE  r = [seq |-> Len(delivered[c]) + 1, len |-> 0, part |-> 0]
  BY <1>5, <1>6, <1>7 DEF LastRead, LastDelivered
<1>8. InStream([seq |-> Len(delivered[c]) + 1, len |-> 0, part |-> 0],
               Unread(c),
               sent[c], complete)
  <2> DEFINE q == [seq |-> Len(delivered[c]) + 1, len |-> 0, part |-> 0]
             r == UnitOf(msg)
  <2>1. q.seq = r.seq /\ q.part \in Nat /\ q.part = q.len
    BY <1>1 DEF UnitOf
  <2>2. r.part \in Nat /\ r.part = r.len
    BY <1>1, <1>2 DEF UnitOf
  <2>3. Unread(c) \in Seq(Units) /\ sent[c] \in Nat
    BY <1>0, <1>1, UnreadType
  <2>4. InStream(r, Unread(c), sent[c], complete)
    BY <1>1
  <2> HIDE DEF q, r
  <2>5. InStream(q, Unread(c), sent[c], complete)
    BY <2>1, <2>2, <2>3, <2>4, InStreamDelivered
  <2> QED
    BY <2>5 DEF q
<1>9. StreamInStep(c)'
  <2>1. Unread(c)' = Unread(c) /\ sent' = sent /\ client_pc' = client_pc
    BY <1>3 DEF Unread
  <2>2. ASSUME NEW r, LastRead(c, r)'
        PROVE  InStream(r, Unread(c)', sent'[c], client_pc'[c] # "closed")
    <3>1. InStream(r, Unread(c), sent[c], client_pc[c] # "closed")
      BY <1>7, <1>8, <2>2 DEF complete
    <3> QED
      BY <2>1, <3>1
  <2> QED
    BY <2>2 DEF StreamInStep
<1>10. Len(delivered[c]) < sent[c]
  BY <1>1, <1>4
<1> QED
  BY <1>4, <1>6, <1>9, <1>10

LEMMA StreamStep ==
    ASSUME OrderInv, [Next]_vars, NEW d \in Clients
    PROVE  StreamInStep(d)'
<1> USE DEF clientVars, listenVars, streamVars, epollVars, serverVars,
       workerVars, history, acceptorUnchanged
<1>0. TypeOK
  BY DEF OrderInv, ServerInv
<1>1. ASSUME NEW w \in Workers, WorkerStep(w) PROVE StreamInStep(d)'
  <2>1. CASE OtherWork(w)
    <3>1. UNCHANGED <<inbox, sending, sent, client_pc>>
      BY <2>1 DEF OtherWork, Start, TakeTurn, GetSocket, AddSocket, Poll,
         PollFails, EventsDone, ErrorFunc, StartMessage
    <3>2. \A r : LastRead(d, r)' => LastRead(d, r)
      BY <1>0, <2>1, OtherMessagesStay, LastReadStays
    <3> QED
      BY <3>1, <3>2, StreamStays DEF Unread
  <2>2. CASE ~OtherWork(w) /\ d # open[event(w).fd]
    BY <1>1, <2>2, StreamOfOthers
  <2>3. CASE ~OtherWork(w) /\ d = open[event(w).fd]
    <3>1. CASE CloseOnError(w)
      BY <2>3, <3>1, StreamClosed DEF StreamInStep
    <3> QED
      BY <1>1, <2>3, <3>1, WorkerSteps, StreamRead, StreamFails,
         StreamDelivered
  <2> QED
    BY <2>1, <2>2, <2>3
<1>2. CASE CreateThread \/ AcceptorStep \/ UNCHANGED vars
  <2>1. UNCHANGED <<inbox, sending, sent, client_pc, comm_msg, delivered>>
    BY <1>2 DEF CreateThread, AcceptorStep, AwaitConnection, AcceptConnection,
       AcceptFails, InsertSocket, vars
  <2>2. \A w \in Workers : \/ worker_pc'[w] = worker_pc[w]
                           \/ worker_pc[w] = "none" /\ worker_pc'[w] = "start"
    BY <1>2, ThreadStarts DEF AcceptorStep, AwaitConnection, AcceptConnection,
       AcceptFails, InsertSocket, vars, OrderInv
  <2>3. \A r : LastRead(d, r)' => LastRead(d, r)
    <3>1. \A w \in Workers : OnMessage(w, d)' <=> OnMessage(w, d)
      BY <2>1, <2>2 DEF OnMessage
    <3> QED
      BY <2>1, <3>1, LastReadStays
  <2> QED
    BY <2>1, <2>3, StreamStays DEF Unread
<1> QED
  BY <1>1, <1>2, StreamClient DEF Next

-----------------------------------------------------------------------------
(* Deliveries and answers                                                  *)

\* Only client_func delivers, and only the reads make a message.
LEMMA DeliversOnlyInClientFunc ==
    ASSUME [Next]_vars, \A w \in Workers : ~ClientFunc(w)
    PROVE  delivered' = delivered
<1>1. CASE UNCHANGED vars
  BY <1>1 DEF vars, history
<1>2. CASE CreateThread
  BY <1>2 DEF CreateThread, history
<1>3. CASE AcceptorStep
  BY <1>3 DEF AcceptorStep, AwaitConnection, AcceptConnection, AcceptFails,
     InsertSocket, acceptorUnchanged, history
<1>4. ASSUME NEW c \in Clients, ClientStep(c) PROVE delivered' = delivered
  <2>1. CASE Connect(c) \/ SendHeader(c)
    BY <2>1 DEF Connect, SendHeader, history
  <2>2. CASE SendData(c) \/ Receive(c) \/ Close(c)
    BY <2>2 DEF SendData, Receive, Close, history
  <2> QED
    BY <1>4, <2>1, <2>2 DEF ClientStep
<1>5. ASSUME NEW w \in Workers, WorkerStep(w) PROVE delivered' = delivered
  <2>1. CASE OtherWork(w)
    BY <2>1 DEF OtherWork, Start, TakeTurn, GetSocket, AddSocket, Poll,
       PollFails, EventsDone, ErrorFunc, StartMessage, history
  <2>2. CASE CloseOnError(w) \/ ReadHeader(w) \/ ReadData(w) \/ ReadFails(w)
    BY <2>2 DEF CloseOnError, ReadHeader, ReadData, ReadFails, history
  <2> QED
    BY <1>5, <2>1, <2>2, WorkerSteps
<1> QED
  BY <1>1, <1>2, <1>3, <1>4, <1>5 DEF Next

LEMMA MessageIsNextStep == OrderInv /\ [Next]_vars => MessageIsNext'
<1> SUFFICES ASSUME OrderInv, [Next]_vars PROVE MessageIsNext'
  OBVIOUS
<1> USE DEF clientVars, listenVars, streamVars, epollVars, serverVars,
       workerVars, history, acceptorUnchanged, Goto
<1> DEFINE IsNext(v) ==
               /\ worker_pc[v] \in {"data", "client_func"} =>
                     comm_msg[v].seq = Len(delivered[comm_msg[v].conn]) + 1
               /\ worker_pc[v] = "client_func" =>
                     comm_msg[v].count = comm_msg[v].len
<1>0. TypeOK /\ \A v \in Workers : IsNext(v)
  BY DEF OrderInv, ServerInv, MessageIsNext
<1>1. ASSUME UNCHANGED <<comm_msg, delivered>>, NEW v \in Workers,
             \/ worker_pc'[v] = worker_pc[v]
             \/ worker_pc'[v] \notin {"data", "client_func"}
      PROVE  IsNext(v)'
  BY <1>0, <1>1
<1>2. CASE \/ \E c \in Clients : ClientStep(c)
           \/ CreateThread \/ AcceptorStep \/ UNCHANGED vars
  <2>1. UNCHANGED <<comm_msg, delivered>>
    BY <1>2 DEF ClientStep, Connect, SendHeader, SendData, Receive, Close,
       CreateThread, AcceptorStep, AwaitConnection, AcceptConnection,
       AcceptFails, InsertSocket, vars
  <2>2. ASSUME NEW v \in Workers
        PROVE  \/ worker_pc'[v] = worker_pc[v]
               \/ worker_pc'[v] \notin {"data", "client_func"}
    BY <1>2, ThreadStarts DEF ClientStep, Connect, SendHeader, SendData,
       Receive, Close, AcceptorStep, AwaitConnection, AcceptConnection,
       AcceptFails, InsertSocket, vars, OrderInv
  <2> QED
    BY <1>1, <2>1, <2>2 DEF MessageIsNext
<1>3. ASSUME NEW w \in Workers, WorkerStep(w), NEW v \in Workers
      PROVE  IsNext(v)'
  <2>1. CASE OtherWork(w) \/ CloseOnError(w)
    <3>1. UNCHANGED <<comm_msg, delivered>>
      BY <1>0, <2>1, OtherMessagesStay
    <3>2. \/ worker_pc'[v] = worker_pc[v]
          \/ worker_pc'[v] \notin {"data", "client_func"}
      BY <1>0, <2>1 DEF OtherWork, Start, TakeTurn, GetSocket, AddSocket, Poll,
         PollFails, EventsDone, CloseOnError, ErrorFunc, StartMessage, TypeOK
    <3> QED
      BY <1>1, <3>1, <3>2
  <2>2. CASE v # w /\ ~OtherWork(w) /\ ~CloseOnError(w)
    <3>1. worker_pc'[v] = worker_pc[v]
      BY <1>0, <1>3, <2>2, OthersWait
    <3>2. comm_msg'[v] = comm_msg[v]
      <4>1. \E msg : comm_msg' = [comm_msg EXCEPT ![w] = msg]
        BY <1>3, <2>2, WorkerSteps DEF ReadHeader, ReadData, ReadFails,
           ClientFunc, Deliver
      <4> QED
        BY <1>0, <2>2, <4>1 DEF TypeOK
    <3>3. worker_pc[v] \in {"data", "client_func"} =>
             delivered'[comm_msg[v].conn] = delivered[comm_msg[v].conn]
      <4> SUFFICES ASSUME worker_pc[v] \in {"data", "client_func"}
                   PROVE  delivered'[comm_msg[v].conn]
                             = delivered[comm_msg[v].conn]
        OBVIOUS
      <4>1. CASE ClientFunc(w)
        <5>1. /\ comm_msg[w].conn \in Clients /\ comm_msg[v].conn \in Clients
              /\ comm_msg[w].conn # comm_msg[v].conn
          BY <2>2, <4>1, MessageIsLastRead DEF ClientFunc
        <5>2. delivered' = [delivered EXCEPT ![comm_msg[w].conn] =
                               Append(@, comm_msg[w].seq)]
          BY <4>1 DEF ClientFunc, Deliver
        <5> QED
          BY <1>0, <5>1, <5>2 DEF TypeOK
      <4> QED
        BY <1>3, <2>2, <4>1, WorkerSteps DEF ReadHeader, ReadData, ReadFails
    <3> QED
      BY <1>0, <3>1, <3>2, <3>3
  <2>3. CASE v = w /\ (ReadHeader(w) \/ ReadData(w))
    <3>1. open[event(w).fd] \in Clients
      BY <2>3, HeaderIsNext, MessageIsLastRead DEF ReadHeader, ReadData
    <3>2. PICK c \in Clients : c = open[event(w).fd]
      BY <3>1
    <3>3. /\ comm_msg'[w].conn = c /\ comm_msg'[w].seq = Len(delivered[c]) + 1
          /\ worker_pc'[w] = "client_func" =>
                comm_msg'[w].count = comm_msg'[w].len
      BY <2>3, <3>2, StreamRead
    <3>4. delivered' = delivered
      BY <2>3 DEF ReadHeader, ReadData
    <3> QED
      BY <2>3, <3>3, <3>4
  <2>4. CASE v = w /\ (ReadFails(w) \/ ClientFunc(w))
    <3>1. worker_pc'[w] \notin {"data", "client_func"}
      BY <1>0, <2>4 DEF ReadFails, ClientFunc, TypeOK
    <3> QED
      BY <2>4, <3>1
  <2> QED
    BY <1>3, <2>1, <2>2, <2>3, <2>4, WorkerSteps
<1> QED
  BY <1>2, <1>3 DEF Next, MessageIsNext

\* The connection of a worker in client_func.
LEMMA ClientFuncDelivers ==
    ASSUME OrderInv, NEW w \in Workers, ClientFunc(w)
    PROVE  \E c \in Clients :
              /\ c = open[event(w).fd]
              /\ Len(delivered[c]) < sent[c]
              /\ delivered' = [delivered EXCEPT ![c] = Append(@, Len(@) + 1)]
              /\ delivered'[c] = Append(delivered[c], Len(delivered[c]) + 1)
<1>1. open[event(w).fd] \in Clients
  BY MessageIsLastRead DEF ClientFunc
<1>2. PICK c \in Clients : c = open[event(w).fd]
  BY <1>1
<1> QED
  BY <1>2, StreamDelivered

LEMMA DeliveredStep == OrderInv /\ [Next]_vars => DeliveredInOrder'
<1> SUFFICES ASSUME OrderInv, [Next]_vars PROVE DeliveredInOrder'
  OBVIOUS
<1>0. TypeOK /\ DeliveredInOrder
  BY DEF OrderInv, ServerInv
<1>1. ASSUME NEW w \in Workers, ClientFunc(w) PROVE DeliveredInOrder'
  <2>1. PICK c \in Clients :
           /\ delivered' = [delivered EXCEPT ![c] = Append(@, Len(@) + 1)]
           /\ delivered'[c] = Append(delivered[c], Len(delivered[c]) + 1)
    BY <1>1, ClientFuncDelivers
  <2>2. \A d \in Clients : d # c => delivered'[d] = delivered[d]
    BY <1>0, <2>1 DEF TypeOK
  <2>3. delivered[c] \in Seq(1..MaxRequests) /\ Len(delivered[c]) \in Nat
    BY <1>0, UnreadType DEF TypeOK
  <2>4. delivered[c] \in Seq(Nat)
    BY <2>3, SeqMonotonic, ParametersAssumption
  <2> DEFINE n == Len(delivered[c])
  <2>5. n + 1 \in Nat
    BY <2>3
  <2>6. /\ Len(Append(delivered[c], n + 1)) = n + 1
        /\ \A i \in 1..n : Append(delivered[c], n + 1)[i] = delivered[c][i]
        /\ Append(delivered[c], n + 1)[n + 1] = n + 1
    BY <2>4, <2>5, AppendProperties
  <2>7. /\ Len(delivered'[c]) = n + 1 /\ delivered'[c][n + 1] = n + 1
        /\ \A i \in 1..n : delivered'[c][i] = delivered[c][i]
    BY <2>1, <2>6
  <2>8. \A i \in 1..n : delivered[c][i] = i
    BY <1>0 DEF DeliveredInOrder
  <2> HIDE DEF n
  <2>9. \A i \in 1..Len(delivered'[c]) : delivered'[c][i] = i
    BY <2>5, <2>7, <2>8, <2>3 DEF n
  <2> QED
    BY <1>0, <2>2, <2>9 DEF DeliveredInOrder
<1>2. CASE \A w \in Workers : ~ClientFunc(w)
  BY <1>0, <1>2, DeliversOnlyInClientFunc DEF DeliveredInOrder
<1> QED
  BY <1>1, <1>2

\* Answers to c, those it has read and those on their way, from the first.
Answered(c) == received[c] \o outbox[c]

LEMMA AnsweredType ==
    ASSUME TypeOK, NEW c \in Clients
    PROVE  /\ received[c] \in Seq(Answers) /\ outbox[c] \in Seq(Answers)
           /\ Len(received[c]) \in Nat /\ Len(outbox[c]) \in Nat
           /\ Answered(c) \in Seq(Answers)
           /\ Len(Answered(c)) = Len(received[c]) + Len(outbox[c])
           /\ \A i \in 1..(Len(received[c]) + Len(outbox[c])) :
                 Answered(c)[i] = IF i <= Len(received[c]) THEN received[c][i]
                                  ELSE outbox[c][i - Len(received[c])]
<1>1. received[c] \in Seq(Answers) /\ outbox[c] \in Seq(Answers)
  BY DEF TypeOK
<1>2. Len(received[c]) \in Nat /\ Len(outbox[c]) \in Nat
  BY <1>1
<1> QED
  BY <1>1, <1>2, ConcatProperties DEF Answered

\* Appending to the second of two lists of answers appends to both.
LEMMA AppendToConcat ==
    ASSUME NEW s \in Seq(Answers), NEW t \in Seq(Answers), NEW x \in Answers
    PROVE  s \o Append(t, x) = Append(s \o t, x)
<1>1. s \o t \in Seq(Answers) /\ <<x>> \in Seq(Answers)
  BY ConcatProperties
<1>2. Append(t, x) = t \o <<x>> /\ Append(s \o t, x) = (s \o t) \o <<x>>
  BY <1>1, AppendIsConcat
<1>3. s \o (t \o <<x>>) = (s \o t) \o <<x>>
  BY <1>1, ConcatAssociative
<1> QED
  BY <1>2, <1>3

LEMMA AnswersStep == OrderInv /\ [Next]_vars => AnswersInStep'
<1> SUFFICES ASSUME OrderInv, [Next]_vars PROVE AnswersInStep'
  OBVIOUS
<1> USE DEF clientVars, listenVars, streamVars, epollVars, serverVars,
       workerVars, history, acceptorUnchanged
<1> DEFINE Right(c) ==
               /\ \A i \in 1..Len(Answered(c)) :
                     Answered(c)[i] = [asker |-> c, seq |-> i]
               /\ client_pc[c] # "closed" =>
                     Len(received[c]) + Len(outbox[c]) = Len(delivered[c])
<1>0. TypeOK /\ TypeOK' /\ \A c \in Clients : Right(c)
  BY InvStep DEF OrderInv, ServerInv, AnswersInStep, AnswersGoToAsker, Answered
<1> SUFFICES ASSUME NEW d \in Clients PROVE Right(d)'
  BY DEF AnswersInStep, AnswersGoToAsker, Answered
<1>1. ASSUME received'[d] = received[d], outbox'[d] = outbox[d],
             client_pc'[d] # "closed" =>
                client_pc[d] # "closed" /\ delivered'[d] = delivered[d]
      PROVE  Right(d)'
  BY <1>0, <1>1 DEF Answered
<1>2. ASSUME NEW c \in Clients, ClientStep(c) PROVE Right(d)'
  <2>0. delivered' = delivered
    BY <1>2 DEF ClientStep, Connect, SendHeader, SendData, Receive, Close
  <2>1. CASE Connect(c) \/ SendHeader(c) \/ SendData(c)
    <3>1. UNCHANGED <<received, outbox>>
      BY <2>1 DEF Connect, SendHeader, SendData
    <3>2. /\ client_pc[c] # "closed"
          /\ \E pc : client_pc' = [client_pc EXCEPT ![c] = pc]
      BY <2>1 DEF Connect, SendHeader, SendData
    <3>3. client_pc'[d] # "closed" => client_pc[d] # "closed"
      BY <1>0, <3>2 DEF TypeOK
    <3> QED
      BY <1>1, <2>0, <3>1, <3>3
  <2>2. CASE d # c
    <3>1. received'[d] = received[d]
      <4>1. received' = received \/ \E s :
               received' = [received EXCEPT ![c] = s]
        BY <1>2 DEF ClientStep, Connect, SendHeader, SendData, Receive, Close
      <4> QED
        BY <1>0, <2>2, <4>1 DEF TypeOK
    <3>2. outbox'[d] = outbox[d]
      <4>1. outbox' = outbox \/ \E s : outbox' = [outbox EXCEPT ![c] = s]
        BY <1>2 DEF ClientStep, Connect, SendHeader, SendData, Receive, Close
      <4> QED
        BY <1>0, <2>2, <4>1 DEF TypeOK
    <3>3. client_pc'[d] = client_pc[d]
      <4>1. client_pc' = client_pc \/ \E pc :
               client_pc' = [client_pc EXCEPT ![c] = pc]
        BY <1>2 DEF ClientStep, Connect, SendHeader, SendData, Receive, Close
      <4> QED
        BY <1>0, <2>2, <4>1 DEF TypeOK
    <3> QED
      BY <1>1, <2>0, <3>1, <3>2, <3>3
  <2>3. CASE d = c /\ Receive(c)
    <3>1. /\ outbox[c] # << >> /\ client_pc' = client_pc
          /\ outbox'[c] = Tail(outbox[c])
          /\ received'[c] = Append(received[c], Head(outbox[c]))
      BY <1>0, <2>3 DEF Receive, TypeOK
    <3>2. /\ received[c] \in Seq(Answers) /\ outbox[c] \in Seq(Answers)
          /\ Len(received[c]) \in Nat /\ Len(outbox[c]) \in Nat
      BY <1>0, AnsweredType
    <3>3. Answered(c)' = Answered(c)
      BY <3>1, <3>2, MoveHead DEF Answered
    <3>4. Len(received'[c]) + Len(outbox'[c])
             = Len(received[c]) + Len(outbox[c])
      <4>1. /\ Head(outbox[c]) \in Answers
            /\ Len(Tail(outbox[c])) = Len(outbox[c]) - 1
        BY <3>1, <3>2, HeadTailProperties
      <4>2. Len(Append(received[c], Head(outbox[c]))) = Len(received[c]) + 1
        BY <3>2, <4>1, AppendProperties
      <4>3. /\ Len(received'[c]) = Len(received[c]) + 1
            /\ Len(outbox'[c]) = Len(outbox[c]) - 1
        BY <3>1, <4>1, <4>2
      <4> DEFINE m == Len(received[c])
                 k == Len(outbox[c])
      <4>4. m \in Nat /\ k \in Nat
        BY <3>2
      <4> HIDE DEF m, k
      <4>5. (m + 1) + (k - 1) = m + k
        BY <4>4
      <4> QED
        BY <4>3, <4>5 DEF m, k
    <3> QED
      BY <1>0, <2>0, <2>3, <3>1, <3>3, <3>4
  <2>4. CASE d = c /\ Close(c)
    <3>1. /\ outbox'[c] = << >> /\ received' = received
          /\ client_pc'[c] = "closed"
      BY <1>0, <2>4 DEF Close, TypeOK
    <3>2. /\ received[c] \in Seq(Answers)
          /\ Len(received[c]) \in Nat /\ Len(outbox[c]) \in Nat
          /\ Len(Answered(c)) = Len(received[c]) + Len(outbox[c])
          /\ \A i \in 1..(Len(received[c]) + Len(outbox[c])) :
                Answered(c)[i] = IF i <= Len(received[c]) THEN received[c][i]
                                 ELSE outbox[c][i - Len(received[c])]
      BY <1>0, AnsweredType
    <3>3. Answered(c)' = received[c]
      BY <3>1, <3>2, ConcatEmptySeq DEF Answered
    <3>4. ASSUME NEW i \in 1..Len(received[c])
          PROVE  /\ i \in 1..Len(Answered(c))
                 /\ Answered(c)[i] = received[c][i]
      <4>1. /\ i \in 1..(Len(received[c]) + Len(outbox[c]))
            /\ i <= Len(received[c])
        <5> DEFINE m == Len(received[c])
                   k == Len(outbox[c])
        <5>1. m \in Nat /\ k \in Nat /\ i \in 1..m
          BY <3>2
        <5> HIDE DEF m, k
        <5>2. i \in 1..(m + k) /\ i <= m
          BY <5>1
        <5> QED
          BY <5>2 DEF m, k
      <4> QED
        BY <3>2, <4>1
    <3> QED
      BY <1>0, <2>4, <3>1, <3>3, <3>4
  <2> QED
    BY <1>2, <2>1, <2>2, <2>3, <2>4 DEF ClientStep
<1>3. ASSUME NEW w \in Workers, ClientFunc(w) PROVE Right(d)'
  <2>1. PICK c \in Clients :
           /\ c = open[event(w).fd] /\ Len(delivered[c]) < sent[c]
           /\ delivered' = [delivered EXCEPT ![c] = Append(@, Len(@) + 1)]
           /\ delivered'[c] = Append(delivered[c], Len(delivered[c]) + 1)
    BY <1>3, ClientFuncDelivers
  <2>2. comm_msg[w].conn = c /\ comm_msg[w].seq = Len(delivered[c]) + 1
    BY <1>3, <2>1, MessageIsLastRead DEF ClientFunc
  <2> DEFINE answer == [asker |-> comm_msg[w].conn, seq |-> comm_msg[w].seq]
  <2>3. /\ SendAnswer(event(w).fd, answer) /\ received' = received
        /\ client_pc' = client_pc
    BY <1>3 DEF ClientFunc, Deliver
  <2>4. answer = [asker |-> c, seq |-> Len(delivered[c]) + 1]
    BY <2>2
  <2> HIDE DEF answer
  <2>5. IF PeerOpen(c) THEN outbox' = [outbox EXCEPT ![c] = Append(@, answer)]
                       ELSE outbox' = outbox
    BY <2>1, <2>3 DEF SendAnswer
  <2>6. CASE d # c \/ client_pc[c] = "closed"
    <3>1. outbox'[d] = outbox[d]
      BY <1>0, <2>5, <2>6 DEF PeerOpen, TypeOK
    <3>2. d # c => delivered'[d] = delivered[d]
      BY <1>0, <2>1 DEF TypeOK
    <3> QED
      BY <1>1, <2>3, <2>6, <3>1, <3>2
  <2>7. CASE d = c /\ client_pc[c] # "closed"
    <3>1. PeerOpen(c)
      BY <2>7, NullApart DEF PeerOpen
    <3>2. outbox'[c] = Append(outbox[c], answer)
      BY <1>0, <2>5, <3>1 DEF TypeOK
    <3>3. /\ received[c] \in Seq(Answers) /\ outbox[c] \in Seq(Answers)
          /\ Len(received[c]) \in Nat /\ Len(outbox[c]) \in Nat
          /\ Answered(c) \in Seq(Answers)
          /\ Len(Answered(c)) = Len(received[c]) + Len(outbox[c])
      BY <1>0, AnsweredType
    <3> DEFINE n == Len(delivered[c])
    <3>4. n \in Nat /\ Len(Answered(c)) = n
      BY <1>0, <2>7, <3>3 DEF TypeOK
    <3>5. answer \in Answers
      <4>1. c \in Clients /\ sent[c] \in 0..MaxRequests
        BY <1>0, <2>1, ZenonT(30) DEF TypeOK
      <4>2. n + 1 \in 1..MaxRequests
        BY <2>1, <3>4, <4>1, ParametersAssumption
      <4> QED
        BY <2>4, <4>1, <4>2 DEF Answers
    <3>6. Answered(c)' = Append(Answered(c), answer)
      <4>1. received[c] \o Append(outbox[c], answer)
               = Append(received[c] \o outbox[c], answer)
        BY <3>3, <3>5, AppendToConcat
      <4> QED
        BY <2>3, <3>2, <4>1 DEF Answered
    <3>7. /\ Len(Answered(c)') = n + 1
          /\ \A i \in 1..n : Answered(c)'[i] = Answered(c)[i]
          /\ Answered(c)'[n + 1] = [asker |-> c, seq |-> n + 1]
      <4> DEFINE a == Answered(c)
      <4>1. a \in Seq(Answers) /\ Len(a) = n
        BY <3>3, <3>4
      <4> HIDE DEF a
      <4>2. /\ Len(Append(a, answer)) = Len(a) + 1
            /\ \A i \in 1..Len(a) : Append(a, answer)[i] = a[i]
            /\ Append(a, answer)[Len(a) + 1] = answer
        BY <3>5, <4>1, AppendProperties
      <4>3. Answered(c)' = Append(a, answer)
        BY <3>6 DEF a
      <4> QED
        BY <2>4, <4>1, <4>2, <4>3 DEF a
    <3>8. Len(received'[c]) + Len(outbox'[c]) = Len(delivered'[c])
      <4>1. Len(outbox'[c]) = Len(outbox[c]) + 1
        BY <3>2, <3>3, <3>5, AppendProperties
      <4>2. Len(delivered'[c]) = n + 1
        <5>1. delivered[c] \in Seq(1..MaxRequests)
          BY <1>0, ZenonT(30) DEF TypeOK
        <5>2. Len(Append(delivered[c], n + 1)) = n + 1
          BY ONLY <5>1
        <5> QED
          BY <2>1, <5>2, Zenon
      <4> DEFINE m == Len(received[c])
                 k == Len(outbox[c])
      <4>3. m \in Nat /\ k \in Nat /\ m + k = n
        BY <3>3, <3>4
      <4>4. Len(received'[c]) = m /\ Len(outbox'[c]) = k + 1
        BY <2>3, <4>1
      <4> HIDE DEF m, k
      <4> QED
        BY <4>2, <4>3, <4>4
    <3>9. ASSUME NEW i \in 1..(n + 1)
          PROVE  Answered(c)'[i] = [asker |-> c, seq |-> i]
      <4>1. CASE i = n + 1
        BY <3>7, <4>1
      <4>2. CASE i # n + 1
        <5>1. i \in 1..n
          BY <3>4, <4>2
        <5> QED
          BY <1>0, <3>4, <3>7, <5>1
      <4> QED
        BY <4>1, <4>2
    <3> QED
      BY <2>7, <3>7, <3>8, <3>9
  <2> QED
    BY <2>6, <2>7
<1>4. ASSUME NEW w \in Workers, WorkerStep(w), ~ClientFunc(w) PROVE Right(d)'
  <2>1. UNCHANGED <<received, outbox, client_pc, delivered>>
    BY <1>4 DEF WorkerStep, Start, TakeTurn, GetSocket, AddSocket, Poll,
       PollFails, EventsDone, CloseOnError, ErrorFunc, StartMessage,
       ReadHeader, ReadData, ReadFails
  <2> QED
    BY <1>1, <2>1
<1>5. CASE CreateThread \/ AcceptorStep \/ UNCHANGED vars
  <2>1. UNCHANGED <<received, outbox, client_pc, delivered>>
    BY <1>5 DEF CreateThread, AcceptorStep, AwaitConnection, AcceptConnection,
       AcceptFails, InsertSocket, vars
  <2> QED
    BY <1>1, <2>1
<1> QED
  BY <1>2, <1>3, <1>4, <1>5 DEF Next

-----------------------------------------------------------------------------
(* The invariant, and what it gives                                        *)

LEMMA OrderInit == Init => OrderInv
<1> SUFFICES ASSUME Init PROVE OrderInv
  OBVIOUS
<1>1. ServerInv
  BY InvInit
<1>2. ConnectionsOnce
  BY NullApart DEF Init, ConnectionsOnce
<1>3. ASSUME NEW c \in Clients PROVE StreamInStep(c)
  <2>1. /\ \A w \in Workers : ~OnMessage(w, c)
        /\ LastDelivered(c) = [seq |-> 0, len |-> 0, part |-> 0]
    BY DEF Init, OnMessage, LastDelivered
  <2>2. Unread(c) = << >> /\ sent[c] = 0
    BY DEF Init, Unread
  <2>3. \A r : LastRead(c, r) => r = [seq |-> 0, len |-> 0, part |-> 0]
    BY <2>1 DEF LastRead
  <2>4. InStream([seq |-> 0, len |-> 0, part |-> 0], << >>, 0, TRUE)
    BY DEF InStream, Ends
  <2>5. client_pc[c] # "closed"
    BY DEF Init
  <2> QED
    BY <2>2, <2>3, <2>4, <2>5 DEF StreamInStep
<1>4. MessageIsNext /\ DeliveredInOrder
  BY DEF Init, MessageIsNext, DeliveredInOrder
<1>5. AnswersInStep
  <2>1. ASSUME NEW c \in Clients
        PROVE  received[c] = << >> /\ outbox[c] = << >> /\ delivered[c] = << >>
    BY DEF Init
  <2>2. << >> \o << >> = << >> /\ Len(<< >>) = 0 /\ 0 + 0 = 0 /\ 1..0 = {}
    OBVIOUS
  <2>3. ASSUME NEW c \in Clients
        PROVE  /\ Len(received[c] \o outbox[c]) = 0
               /\ Len(received[c]) + Len(outbox[c]) = Len(delivered[c])
    BY <2>1, <2>2
  <2> QED
    BY <2>2, <2>3 DEF AnswersInStep, AnswersGoToAsker
<1> QED
  BY <1>1, <1>2, <1>3, <1>4, <1>5 DEF OrderInv

LEMMA OrderStep == OrderInv /\ [Next]_vars => OrderInv'
<1> SUFFICES ASSUME OrderInv, [Next]_vars PROVE OrderInv'
  OBVIOUS
<1>1. ServerInv'
  BY InvStep DEF OrderInv
<1>2. \A c \in Clients : StreamInStep(c)'
  BY StreamStep
<1> QED
  BY <1>1, <1>2, ConnectionsStep, MessageIsNextStep, DeliveredStep, AnswersStep
     DEF OrderInv

\* The second inductive invariant: what is unread of a connection follows what
\* was last read of it; a message in hand is the next to deliver; deliveries
\* are in order; and, until a client closes, each has one answer, read or on
\* its way.
THEOREM OrderInvariant == Spec => []OrderInv
BY OrderInit, OrderStep, PTL DEF Spec

\* comm_worker_run reads whole messages although a read may be partial, the
\* stream waits between events, and connections close in the middle: what a
\* read meets is the next header or the next data of the message in hand, so
\* that client_func gets the requests of a connection in order, each once.
THEOREM OrderCorrect == Spec => []RequestsInOrder
<1>1. OrderInv => RequestsInOrder
  <2> SUFFICES ASSUME OrderInv PROVE RequestsInOrder
    OBVIOUS
  <2>1. ASSUME NEW w \in Workers, NEW c \in Clients, c = open[event(w).fd],
               inbox[c] # << >>
        PROVE  Unread(c) # << >> /\ Unread(c)[1] = Head(inbox[c])
    <3>1. inbox[c] \in Seq(Units) /\ sending[c] \in Seq(Units)
      BY UnreadType DEF OrderInv, ServerInv
    <3>2. /\ inbox[c] \o sending[c] # << >>
          /\ (inbox[c] \o sending[c])[1] = Head(inbox[c])
      BY <2>1, <3>1, HeadOfConcat
    <3> QED
      BY <3>2 DEF Unread
  <2>2. ASSUME NEW w \in Workers, worker_pc[w] = "header",
               NEW c, c = open[event(w).fd], inbox[c] # << >>
        PROVE  /\ Head(inbox[c]).part = 0
               /\ Head(inbox[c]).seq = Len(delivered[c]) + 1
    <3>1. /\ c \in Clients
          /\ InStream(LastDelivered(c), Unread(c), sent[c],
                      client_pc[c] # "closed")
      BY <2>2, HeaderIsNext
    <3>2. Follows(LastDelivered(c), Head(inbox[c]))
      BY <2>1, <2>2, <3>1 DEF InStream
    <3> QED
      BY <3>2 DEF Follows, LastDelivered
  <2>3. ASSUME NEW w \in Workers, worker_pc[w] = "data",
               NEW c, c = open[event(w).fd], inbox[c] # << >>
        PROVE  /\ Head(inbox[c]).part = comm_msg[w].count + 1
               /\ Head(inbox[c]).seq = comm_msg[w].seq
    <3>1. /\ c \in Clients
          /\ InStream(UnitOf(comm_msg[w]), Unread(c), sent[c],
                      client_pc[c] # "closed")
      BY <2>3, MessageIsLastRead
    <3>2. Follows(UnitOf(comm_msg[w]), Head(inbox[c]))
      BY <2>1, <2>3, <3>1 DEF InStream
    <3>3. comm_msg[w].count < comm_msg[w].len
      BY <2>3 DEF OrderInv, ServerInv, MessageInStep
    <3> QED
      BY <3>2, <3>3 DEF Follows, UnitOf
  <2> QED
    BY <2>2, <2>3 DEF RequestsInOrder, OrderInv, DeliveredInOrder
<1> QED
  BY <1>1, OrderInvariant, PTL

\* comm_servresp_send answers on a descriptor, which close and accept hand to
\* another connection: an answer sent from client_func still goes to the client
\* that asked, in order, each once.
THEOREM AnswersCorrect == Spec => []AnswersGoToAsker
BY OrderInvariant, PTL DEF OrderInv, AnswersInStep

-----------------------------------------------------------------------------
(* The refinement: asked is sent; the other variables have their names.    *)

LEMMA StepServes ==
    ASSUME OrderInv, [Next]_vars
    PROVE  [Service!Next]_Service!serviceVars
<1> USE DEF clientVars, listenVars, streamVars, epollVars, serverVars,
        workerVars, history, acceptorUnchanged
<1>0. TypeOK
  BY DEF OrderInv, ServerInv
<1>1. ASSUME UNCHANGED <<sent, delivered, received>>
      PROVE  [Service!Next]_Service!serviceVars
  BY <1>1 DEF Service!serviceVars
<1>2. ASSUME NEW c \in Clients, ClientStep(c)
      PROVE  [Service!Next]_Service!serviceVars
  <2>1. CASE SendHeader(c)
    <3>1. Service!Ask(c)
      BY <2>1 DEF SendHeader, Service!Ask
    <3> QED
      BY <3>1 DEF Service!Next
  <2>2. CASE Receive(c)
    <3>1. /\ client_pc[c] # "closed" /\ outbox[c] # << >>
          /\ received' = [received EXCEPT ![c] = Append(@, Head(outbox[c]))]
          /\ UNCHANGED <<sent, delivered>>
      BY <2>2 DEF Receive
    <3>2. /\ received[c] \in Seq(Answers) /\ outbox[c] \in Seq(Answers)
          /\ Len(received[c]) \in Nat /\ Len(outbox[c]) \in Nat
          /\ Len(Answered(c)) = Len(received[c]) + Len(outbox[c])
          /\ \A i \in 1..(Len(received[c]) + Len(outbox[c])) :
                Answered(c)[i] = IF i <= Len(received[c]) THEN received[c][i]
                                 ELSE outbox[c][i - Len(received[c])]
      BY <1>0, AnsweredType
    <3>3. /\ Len(received[c]) + Len(outbox[c]) = Len(delivered[c])
          /\ \A i \in 1..Len(Answered(c)) :
                Answered(c)[i] = [asker |-> c, seq |-> i]
      BY <3>1 DEF OrderInv, AnswersInStep, AnswersGoToAsker, Answered
    <3>4. Len(outbox[c]) >= 1 /\ Head(outbox[c]) = outbox[c][1]
      BY <3>1, <3>2, EmptySeq
    <3> DEFINE m == Len(received[c])
               k == Len(outbox[c])
    <3>5. m \in Nat /\ k \in Nat /\ k >= 1
      BY <3>2, <3>4
    <3> HIDE DEF m, k
    <3>6. /\ m < m + k /\ m + 1 \in 1..(m + k)
          /\ ~(m + 1 <= m) /\ (m + 1) - m = 1
      BY <3>5
    <3>7. Answered(c)[m + 1] = outbox[c][1]
      BY <3>2, <3>6 DEF m, k
    <3>8. Answered(c)[m + 1] = [asker |-> c, seq |-> m + 1]
      BY <3>2, <3>3, <3>6 DEF m, k
    <3>9. m < Len(delivered[c])
      BY <3>3, <3>6 DEF m, k
    <3>10. received' = [received EXCEPT ![c] =
                          Append(@, [asker |-> c, seq |-> Len(@) + 1])]
      BY <3>1, <3>4, <3>7, <3>8 DEF m
    <3>11. Service!Receive(c)
      BY <3>1, <3>9, <3>10 DEF m, Service!Receive
    <3> QED
      BY <3>11 DEF Service!Next
  <2>3. CASE Connect(c) \/ SendData(c) \/ Close(c)
    BY <1>1, <2>3 DEF Connect, SendData, Close
  <2> QED
    BY <1>2, <2>1, <2>2, <2>3 DEF ClientStep
<1>3. ASSUME NEW w \in Workers, ClientFunc(w)
      PROVE  [Service!Next]_Service!serviceVars
  <2>1. PICK c \in Clients :
           /\ Len(delivered[c]) < sent[c]
           /\ delivered' = [delivered EXCEPT ![c] = Append(@, Len(@) + 1)]
    BY <1>3, ClientFuncDelivers
  <2>2. UNCHANGED <<sent, received>>
    BY <1>3 DEF ClientFunc, Deliver
  <2>3. Service!Deliver(c)
    BY <2>1, <2>2 DEF Service!Deliver
  <2> QED
    BY <2>3 DEF Service!Next
<1>4. ASSUME NEW w \in Workers, WorkerStep(w), ~ClientFunc(w)
      PROVE  [Service!Next]_Service!serviceVars
  BY <1>1, <1>4 DEF WorkerStep, Start, TakeTurn, GetSocket, AddSocket, Poll,
     PollFails, EventsDone, CloseOnError, ErrorFunc, StartMessage, ReadHeader,
     ReadData, ReadFails
<1>5. CASE CreateThread \/ AcceptorStep \/ UNCHANGED vars
  BY <1>1, <1>5 DEF CreateThread, AcceptorStep, AwaitConnection,
     AcceptConnection, AcceptFails, InsertSocket, vars
<1> QED
  BY <1>2, <1>3, <1>4, <1>5 DEF Next

\* The server, the kernel and the clients together are a message service: a
\* request is delivered once, in order and after it was sent, and a client
\* receives the answers to its own requests, in order, each after its delivery.
THEOREM ServerImplementsService == Spec => ImplementsService
<1>1. Init => Service!Init
  BY DEF Init, Service!Init
<1>2. OrderInv /\ [Next]_vars => [Service!Next]_Service!serviceVars
  BY StepServes
<1> QED
  BY <1>1, <1>2, OrderInvariant, PTL
     DEF Spec, ImplementsService, Service!Spec

-----------------------------------------------------------------------------
(* Clients that wait for each answer and stay: no data without an event    *)

\* While nobody closes, epoll reports data and nothing else.
Stays ==
    /\ reset = {} /\ \A c \in Clients : client_pc[c] # "closed"
    /\ \A w \in Workers :
          /\ worker_pc[w] # "error_func"
          /\ \A i \in 1..Len(events[w]) : events[w][i].mask = {"EPOLLIN"}

\* At most one request of a client has not been delivered.
OneAtATime == \A c \in Clients : sent[c] <= Len(delivered[c]) + 1

\* w knows, or will be told, that there is something to read on f.
Listed(w, f) == \E i \in 1..Len(events[w]) : events[w][i].fd = f
Noticed(w, f) ==
    inbox[open[f]] # << >> => InList(f, ready[w]) \/ Listed(w, f)

NoticeInv ==
    /\ OrderInv /\ Stays /\ OneAtATime
    /\ \A w \in Workers : \A f \in epoll[w] : Noticed(w, f)

\* Registered descriptors are open.
LEMMA RegisteredIsOpen ==
    ASSUME ServerInv, NEW w \in Workers, NEW f \in epoll[w]
    PROVE  f \in Fds /\ open[f] \in Clients /\ open[f] # NULL
<1>1. f \in Fds
  BY DEF ServerInv, TypeOK
<1>2. open[f] # NULL
  BY <1>1 DEF ServerInv, PlacesInStep, OnePlace, InEpoll
<1> QED
  BY <1>1, <1>2 DEF ServerInv, TypeOK

\* epoll reports data, and while nobody closes only that.
LEMMA MaskOfData ==
    ASSUME NEW c \in Clients, inbox[c] # << >>
    PROVE  Mask(c) # {}
BY DEF Mask

LEMMA MaskWhileOpen ==
    ASSUME Stays, NEW c \in Clients, Mask(c) # {}
    PROVE  Mask(c) = {"EPOLLIN"}
BY DEF Mask, Stays

\* The numbering of a finite set reaches every element.
LEMMA OrdersCover ==
    ASSUME NEW S \in SUBSET Nat, IsFiniteSet(S), NEW order \in Orders(S),
           NEW e \in S
    PROVE  \E i \in 1..Cardinality(S) : order[i] = e
<1> DEFINE k == Cardinality(S)
<1>1. k \in Nat
  BY FS_CardinalityType
<1>2. /\ order \in [1..k -> S]
      /\ \A i, j \in 1..k : i < j => order[i] < order[j]
  BY DEF Orders
<1>3. IsFiniteSet(1..k) /\ Cardinality(1..k) = k
  BY <1>1, FS_Interval
<1>4. ASSUME NEW i \in 1..k, NEW j \in 1..k, order[i] = order[j]
      PROVE  i = j
  <2>1. order[i] \in Nat /\ order[j] \in Nat
    BY <1>2
  <2>2. ~(i < j) /\ ~(j < i)
    BY <1>2, <1>4, <2>1
  <2> QED
    BY <1>1, <2>2
<1>5. order \in Injection(1..k, S)
  BY <1>2, <1>4 DEF Injection, IsInjective
<1>6. order \in Surjection(1..k, S)
  BY <1>3, <1>5, FS_Injection
<1> QED
  BY <1>6 DEF Surjection

\* A wake-up leaves what is on the ready lists and adds the connection's
\* descriptor.
LEMMA WakeLists ==
    ASSUME OrderInv, NEW c \in Clients, Wake(c), NEW w \in Workers,
           NEW f \in epoll[w], open[f] = c \/ InList(f, ready[w])
    PROVE  InList(f, ready'[w])
<1> DEFINE woken == {g \in epoll[w] : open[g] = c /\ ~ InList(g, ready[w])}
           g == CHOOSE g \in woken : TRUE
<1>0. ready[w] \in Seq(Fds) /\ f \in Fds /\ epoll[w] \in SUBSET Fds
  BY RegisteredIsOpen DEF OrderInv, ServerInv, TypeOK
<1>1. ready'[w] = IF woken = {} THEN ready[w] ELSE Append(ready[w], g)
  BY DEF Wake
<1>2. CASE woken = {}
  BY <1>1, <1>2
<1>3. CASE woken # {}
  <2>1. g \in woken
    BY <1>3
  <2>2. g \in Fds /\ open[g] = c
    BY <1>0, <2>1
  <2>3. ready'[w] = Append(ready[w], g)
    BY <1>1, <1>3
  <2> HIDE DEF g, woken
  <2>4. /\ Len(ready'[w]) = Len(ready[w]) + 1 /\ Len(ready[w]) \in Nat
        /\ \A i \in 1..Len(ready[w]) : ready'[w][i] = ready[w][i]
        /\ ready'[w][Len(ready[w]) + 1] = g
    BY <1>0, <2>2, <2>3, AppendProperties
  <2>5. open[f] = c => f = g
    BY <1>0, <2>2, NullApart DEF OrderInv, ConnectionsOnce
  <2>6. InList(f, ready[w]) => InList(f, ready'[w])
    BY <2>4 DEF InList
  <2>7. InList(g, ready'[w])
    BY <2>4 DEF InList
  <2> QED
    BY <2>5, <2>6, <2>7
<1> QED
  BY <1>2, <1>3

\* A worker that is reading has its peer there, and none sees an error.
LEMMA NoFailures ==
    ASSUME OrderInv, Stays, NEW w \in Workers, events[w] # << >>
    PROVE  /\ ~IsError(event(w)) /\ PeerOpen(open[event(w).fd])
           /\ worker_pc[w] # "error_func"
<1>1. worker_pc[w] # "error_func"
  BY DEF Stays
<1>2. event(w) = events[w][1] /\ open[event(w).fd] \in Clients
  BY <1>1, EventInHand DEF OrderInv
<1>3. Len(events[w]) \in Nat /\ Len(events[w]) >= 1
  BY EmptySeq DEF OrderInv, ServerInv, TypeOK
<1>4. event(w).mask = {"EPOLLIN"}
  BY <1>2, <1>3 DEF Stays
<1> QED
  BY <1>1, <1>2, <1>4, NullApart DEF IsError, PeerOpen, Stays

\* So these are the steps a worker takes.
LEMMA QuietSteps ==
    ASSUME OrderInv, Stays, NEW w \in Workers, WorkerStep(w)
    PROVE  \/ Start(w) \/ TakeTurn(w) \/ GetSocket(w) \/ AddSocket(w)
           \/ Poll(w) \/ PollFails(w) \/ EventsDone(w) \/ StartMessage(w)
           \/ ReadHeader(w) \/ ReadData(w) \/ ClientFunc(w)
<1>1. worker_pc[w] \in Handling => events[w] # << >>
  BY DEF OrderInv, ServerInv, BatchInStep
<1>2. ~CloseOnError(w) /\ ~ErrorFunc(w)
  BY NoFailures DEF CloseOnError, ErrorFunc, Stays
<1>3. ~ReadFails(w)
  BY <1>1, NoFailures DEF ReadFails, Handling
<1> QED
  BY <1>2, <1>3 DEF WorkerStep

\* client_func answers a peer that is there.
LEMMA AnswerQuietly ==
    ASSUME OrderInv, Stays, NEW w \in Workers, ClientFunc(w)
    PROVE  /\ UNCHANGED <<client_pc, sent, inbox, reset, ready, open, epoll>>
           /\ events[w] # << >>
           /\ events' = [events EXCEPT ![w] = Tail(@)]
           /\ worker_pc' = [worker_pc EXCEPT ![w] = "events"]
<1>1. events[w] # << >>
  BY DEF OrderInv, ServerInv, BatchInStep, Handling, ClientFunc
<1>2. PeerOpen(open[event(w).fd])
  BY <1>1, NoFailures
<1>3. Deliver(w, event(w).fd)
  BY DEF ClientFunc
<1>4. UNCHANGED <<reset, ready>>
  BY <1>2, <1>3 DEF Deliver, SendAnswer
<1> QED
  BY <1>1, <1>3, <1>4 DEF ClientFunc, Deliver, Goto, clientVars

\* The request client_func has is the last the client has sent.
LEMMA NothingLeft ==
    ASSUME NoticeInv, NEW w \in Workers, worker_pc[w] = "client_func"
    PROVE  inbox[open[event(w).fd]] = << >>
<1> DEFINE c == open[event(w).fd]
           msg == comm_msg[w]
<1>1. /\ c \in Clients /\ msg.seq = Len(delivered[c]) + 1 /\ msg.seq \in Nat
      /\ InStream(UnitOf(msg), Unread(c), sent[c], client_pc[c] # "closed")
  BY MessageIsLastRead DEF NoticeInv
<1>2. /\ inbox[c] \in Seq(Units) /\ sending[c] \in Seq(Units)
      /\ Unread(c) \in Seq(Units) /\ sent[c] \in Nat
  BY <1>1, UnreadType DEF NoticeInv, OrderInv, ServerInv
<1>3. msg.count = msg.len /\ msg.len \in Nat
  BY MessageIsLastRead DEF NoticeInv, OrderInv, MessageIsNext
<1>4. sent[c] <= msg.seq
  BY <1>1 DEF NoticeInv, OneAtATime
<1> HIDE DEF c, msg
<1>5. ASSUME Unread(c) # << >> PROVE FALSE
  <2>1. Follows(UnitOf(msg), Unread(c)[1])
    BY <1>1, <1>5 DEF InStream
  <2>2. Unread(c)[1].seq = msg.seq + 1
    BY <1>3, <2>1 DEF Follows, UnitOf
  <2>3. Len(Unread(c)) \in Nat /\ Len(Unread(c)) >= 1
    BY <1>2, <1>5, EmptySeq
  <2>4. Unread(c)[1].seq <= sent[c]
    BY <1>1, <2>3 DEF InStream
  <2> QED
    BY <1>1, <1>2, <1>4, <2>2, <2>4
<1>6. inbox[c] # << >> => Unread(c) # << >>
  BY <1>2, HeadOfConcat DEF Unread
<1> QED
  BY <1>5, <1>6 DEF c

LEMMA StaysStep ==
    ASSUME ~Closing, OrderInv, Stays, [Next]_vars
    PROVE  Stays'
<1> USE DEF clientVars, listenVars, streamVars, epollVars, serverVars,
        workerVars, history, acceptorUnchanged, Goto
<1>0. TypeOK
  BY DEF OrderInv, ServerInv
<1>1. ASSUME UNCHANGED <<reset, events>>,
             \A c \in Clients : client_pc'[c] # "closed",
             \A w \in Workers : worker_pc'[w] # "error_func"
      PROVE  Stays'
  BY <1>1 DEF Stays
<1>2. ASSUME NEW c \in Clients, ClientStep(c) PROVE Stays'
  <2>1. ~Close(c)
    BY DEF Close
  <2>2. UNCHANGED <<reset, events, worker_pc>>
    BY <1>2, <2>1 DEF ClientStep, Connect, SendHeader, SendData, Receive
  <2>3. \/ client_pc' = client_pc
        \/ client_pc' = [client_pc EXCEPT ![c] = "idle"]
        \/ client_pc' = [client_pc EXCEPT ![c] = "sending"]
    BY <1>2, <2>1 DEF ClientStep, Connect, SendHeader, SendData, Receive
  <2> QED
    BY <1>0, <1>1, <2>2, <2>3 DEF Stays, TypeOK
<1>3. CASE CreateThread
  BY <1>1, <1>3, ThreadStarts DEF CreateThread, Stays, OrderInv
<1>4. CASE AcceptorStep \/ UNCHANGED vars
  BY <1>1, <1>4 DEF AcceptorStep, AwaitConnection, AcceptConnection,
     AcceptFails, InsertSocket, vars, Stays
<1>5. ASSUME NEW w \in Workers, WorkerStep(w) PROVE Stays'
  <2>1. CASE \/ Start(w) \/ TakeTurn(w) \/ GetSocket(w) \/ AddSocket(w)
             \/ PollFails(w) \/ EventsDone(w) \/ StartMessage(w)
             \/ ReadHeader(w) \/ ReadData(w)
    <3>1. UNCHANGED <<reset, events, client_pc>>
      BY <2>1 DEF Start, TakeTurn, GetSocket, AddSocket, PollFails,
         EventsDone, StartMessage, ReadHeader, ReadData
    <3>2. \E pc \in WorkerPcs \ {"error_func"} :
             worker_pc' = [worker_pc EXCEPT ![w] = pc]
      BY <2>1 DEF Start, TakeTurn, GetSocket, AddSocket, PollFails,
         EventsDone, StartMessage, ReadHeader, ReadData, WorkerPcs
    <3>3. \A v \in Workers : worker_pc'[v] # "error_func"
      BY <1>0, <3>2 DEF Stays, TypeOK
    <3> QED
      BY <1>1, <3>1, <3>3 DEF Stays
  <2>2. ASSUME NEW batch, events' = [events EXCEPT ![w] = batch],
               \A i \in 1..Len(batch) : batch[i].mask = {"EPOLLIN"},
               worker_pc' = [worker_pc EXCEPT ![w] = "events"],
               UNCHANGED <<reset, client_pc>>
        PROVE  Stays'
    <3>1. \A v \in Workers : events'[v] = IF v = w THEN batch ELSE events[v]
      BY <1>0, <2>2 DEF TypeOK
    <3>2. \A v \in Workers : worker_pc'[v] # "error_func"
      BY <1>0, <2>2 DEF Stays, TypeOK
    <3> QED
      BY <2>2, <3>1, <3>2 DEF Stays
  <2>3. CASE Poll(w)
    <3> DEFINE n == IF Len(ready[w]) < MAXEVENTS
                    THEN Len(ready[w]) ELSE MAXEVENTS
               reported == {i \in 1..n : Mask(open[ready[w][i]]) # {}}
               k == Cardinality(reported)
    <3>1. PICK order \in Orders(reported) :
             events' = [events EXCEPT ![w] =
                [i \in 1..k |-> EventOf(ready[w][order[i]])]]
      BY <2>3 DEF Poll
    <3>2. n \in Nat /\ n <= Len(ready[w]) /\ ready[w] \in Seq(Fds)
      BY <1>0, ParametersAssumption DEF TypeOK
    <3> HIDE DEF n
    <3>3. k \in Nat
      <4>1. IsFiniteSet(1..n) /\ reported \in SUBSET (1..n)
        BY <3>2, FS_Interval
      <4> QED
        BY <4>1, FS_Subset, FS_CardinalityType
    <3>4. \A i \in 1..k : order[i] \in reported
      BY DEF Orders
    <3>5. ASSUME NEW i \in 1..k
          PROVE  Mask(open[ready[w][order[i]]]) = {"EPOLLIN"}
      <4>0. order[i] \in 1..n /\ Mask(open[ready[w][order[i]]]) # {}
        BY <3>4
      <4>1. order[i] \in 1..Len(ready[w])
        BY <3>2, <4>0
      <4>2. ready[w][order[i]] \in epoll[w]
        BY <4>1 DEF OrderInv, ServerInv, ReadyInStep
      <4>3. open[ready[w][order[i]]] \in Clients
        BY <4>2, RegisteredIsOpen DEF OrderInv
      <4> QED
        BY <4>0, <4>3, MaskWhileOpen
    <3> DEFINE batch == [i \in 1..k |-> EventOf(ready[w][order[i]])]
    <3>6. /\ worker_pc' = [worker_pc EXCEPT ![w] = "events"]
          /\ UNCHANGED <<reset, client_pc>>
      BY <2>3 DEF Poll
    <3> HIDE DEF k, reported
    <3>7. Len(batch) = k /\ \A i \in 1..k : batch[i].mask = {"EPOLLIN"}
      BY <3>3, <3>5 DEF EventOf
    <3>8. events' = [events EXCEPT ![w] = batch]
      BY <3>1
    <3> HIDE DEF batch
    <3> QED
      BY <2>2, <3>6, <3>7, <3>8
  <2>4. CASE ClientFunc(w)
    <3>1. /\ UNCHANGED <<client_pc, reset>> /\ events[w] # << >>
          /\ events' = [events EXCEPT ![w] = Tail(@)]
          /\ worker_pc' = [worker_pc EXCEPT ![w] = "events"]
      BY <2>4, AnswerQuietly
    <3>2. /\ Len(Tail(events[w])) = Len(events[w]) - 1
          /\ Len(events[w]) \in Nat
          /\ \A i \in 1..Len(Tail(events[w])) :
                Tail(events[w])[i] = events[w][i + 1]
      BY <1>0, <3>1, TailOfBatch DEF TypeOK
    <3>3. \A i \in 1..Len(Tail(events[w])) :
             Tail(events[w])[i].mask = {"EPOLLIN"}
      BY <3>2 DEF Stays
    <3> QED
      BY <2>2, <3>1, <3>3
  <2> QED
    BY <1>5, <2>1, <2>3, <2>4, QuietSteps
<1> QED
  BY <1>2, <1>3, <1>4, <1>5 DEF Next

LEMMA OneAtATimeStep ==
    ASSUME ~Pipelining, OrderInv, Stays, OneAtATime, [Next]_vars
    PROVE  OneAtATime'
<1>0. TypeOK
  BY DEF OrderInv, ServerInv
<1>1. ASSUME NEW c \in Clients
      PROVE  /\ sent[c] \in Nat /\ Len(delivered[c]) \in Nat
             /\ Len(received[c]) \in Nat
             /\ Len(received[c]) <= Len(delivered[c])
  <2>1. /\ Len(received[c]) \in Nat /\ Len(outbox[c]) \in Nat
        /\ sent[c] \in Nat /\ Len(delivered[c]) \in Nat
    BY <1>0, AnsweredType, UnreadType
  <2>2. Len(received[c]) + Len(outbox[c]) = Len(delivered[c])
    BY DEF OrderInv, AnswersInStep, Stays
  <2> DEFINE m == Len(received[c])
             k == Len(outbox[c])
             n == Len(delivered[c])
  <2>3. m \in Nat /\ k \in Nat /\ m + k = n
    BY <2>1, <2>2
  <2> HIDE DEF m, k, n
  <2>4. m <= n
    BY <2>3
  <2> QED
    BY <2>1, <2>4 DEF m, n
<1>2. ASSUME UNCHANGED <<sent, delivered>> PROVE OneAtATime'
  BY <1>2 DEF OneAtATime
<1>3. ASSUME NEW c \in Clients, SendHeader(c) PROVE OneAtATime'
  <2>1. /\ Len(received[c]) = sent[c] /\ delivered' = delivered
        /\ sent' = [sent EXCEPT ![c] = @ + 1]
    BY <1>3 DEF SendHeader, history
  <2>2. ASSUME NEW d \in Clients
        PROVE  sent'[d] <= Len(delivered[d]) + 1
    <3>1. sent'[d] = IF d = c THEN sent[c] + 1 ELSE sent[d]
      BY <1>0, <2>1 DEF TypeOK
    <3> QED
      BY <1>1, <2>1, <3>1 DEF OneAtATime
  <2> QED
    BY <2>1, <2>2 DEF OneAtATime
<1>4. ASSUME NEW w \in Workers, ClientFunc(w) PROVE OneAtATime'
  <2>1. PICK c \in Clients :
           /\ delivered' = [delivered EXCEPT ![c] = Append(@, Len(@) + 1)]
           /\ delivered'[c] = Append(delivered[c], Len(delivered[c]) + 1)
    BY <1>4, ClientFuncDelivers
  <2>2. sent' = sent
    BY <1>4, AnswerQuietly
  <2>3. Len(delivered'[c]) = Len(delivered[c]) + 1
    BY <1>0, <2>1 DEF TypeOK
  <2>4. ASSUME NEW d \in Clients
        PROVE  sent[d] <= Len(delivered'[d]) + 1
    <3>1. d # c => delivered'[d] = delivered[d]
      BY <1>0, <2>1 DEF TypeOK
    <3> QED
      BY <1>1, <2>3, <3>1 DEF OneAtATime
  <2> QED
    BY <2>2, <2>4 DEF OneAtATime
<1>5. CASE \/ \E c \in Clients : ClientStep(c) /\ ~SendHeader(c)
           \/ CreateThread \/ AcceptorStep \/ UNCHANGED vars
           \/ \E w \in Workers : WorkerStep(w) /\ ~ClientFunc(w)
  <2>1. ASSUME NEW c \in Clients, ClientStep(c), ~SendHeader(c)
        PROVE  UNCHANGED <<sent, delivered>>
    <3>1. CASE Connect(c)
      BY <3>1 DEF Connect, history
    <3>2. CASE SendData(c)
      BY <3>2 DEF SendData, history
    <3>3. CASE Receive(c)
      BY <3>3 DEF Receive, history
    <3>4. CASE Close(c)
      BY <3>4 DEF Close, history
    <3> QED
      BY <2>1, <3>1, <3>2, <3>3, <3>4 DEF ClientStep
  <2>2. ASSUME CreateThread \/ AcceptorStep \/ UNCHANGED vars
        PROVE  UNCHANGED <<sent, delivered>>
    <3>1. CASE CreateThread
      BY <3>1 DEF CreateThread, clientVars, history
    <3>2. CASE AcceptorStep
      BY <3>2 DEF AcceptorStep, AwaitConnection, AcceptConnection,
         AcceptFails, InsertSocket, acceptorUnchanged, clientVars, history
    <3>3. CASE UNCHANGED vars
      BY <3>3 DEF vars, clientVars, history
    <3> QED
      BY <2>2, <3>1, <3>2, <3>3
  <2>3. ASSUME NEW w \in Workers, WorkerStep(w), ~ClientFunc(w)
        PROVE  UNCHANGED <<sent, delivered>>
    <3>1. CASE OtherWork(w)
      BY <3>1 DEF OtherWork, Start, TakeTurn, GetSocket, AddSocket, Poll,
         PollFails, EventsDone, ErrorFunc, StartMessage, clientVars, history
    <3>2. CASE ~OtherWork(w)
      BY <2>3, <3>2, WorkerSteps DEF CloseOnError, ReadHeader, ReadData,
         ReadFails, clientVars, history
    <3> QED
      BY <3>1, <3>2
  <2>4. UNCHANGED <<sent, delivered>>
    BY <1>5, <2>1, <2>2, <2>3
  <2> QED
    BY <1>2, <2>4
<1> QED
  BY <1>3, <1>4, <1>5 DEF Next

\* A descriptor's events stay, whatever happens to other connections.
LEMMA NoticedStays ==
    ASSUME NEW w \in Workers, NEW f, Noticed(w, f), open'[f] = open[f],
           inbox'[open[f]] # << >> => inbox[open[f]] # << >>,
           InList(f, ready[w]) => InList(f, ready'[w]),
           Listed(w, f) => Listed(w, f)'
    PROVE  Noticed(w, f)'
BY DEF Noticed

LEMMA NoticedPoll ==
    ASSUME NoticeInv, NEW w \in Workers, Poll(w), NEW f \in epoll[w]
    PROVE  Noticed(w, f)'
<1> DEFINE n == IF Len(ready[w]) < MAXEVENTS THEN Len(ready[w]) ELSE MAXEVENTS
           reported == {i \in 1..n : Mask(open[ready[w][i]]) # {}}
           k == Cardinality(reported)
           list == SubSeq(ready[w], n + 1, Len(ready[w]))
<1>0. TypeOK /\ ServerInv
  BY DEF NoticeInv, OrderInv, ServerInv
<1>1. PICK order \in Orders(reported) :
         events' = [events EXCEPT ![w] =
            [i \in 1..k |-> EventOf(ready[w][order[i]])]]
  BY DEF Poll
<1>2. n \in Nat /\ n <= Len(ready[w]) /\ ready[w] \in Seq(Fds)
  BY <1>0, ParametersAssumption DEF TypeOK
<1>3. /\ ready' = [ready EXCEPT ![w] = list] /\ worker_pc[w] = "poll"
      /\ UNCHANGED <<inbox, open>>
  BY DEF Poll, streamVars
<1> HIDE DEF n
<1>4. k \in Nat /\ IsFiniteSet(reported) /\ reported \in SUBSET Nat
  <2>1. IsFiniteSet(1..n) /\ reported \in SUBSET (1..n)
    BY <1>2, FS_Interval
  <2> QED
    BY <1>2, <2>1, FS_Subset, FS_CardinalityType
<1>5. /\ Len(list) = Len(ready[w]) - n
      /\ \A i \in 1..Len(list) : list[i] = ready[w][i + n]
  <2>1. \A i \in (n + 1)..Len(ready[w]) : ready[w][i] \in Fds
    BY <1>2
  <2>2. /\ Len(list) = IF n + 1 <= Len(ready[w])
                       THEN Len(ready[w]) - (n + 1) + 1 ELSE 0
        /\ \A i \in 1..(Len(ready[w]) - (n + 1) + 1) :
              list[i] = ready[w][(n + 1) + i - 1]
    BY <1>2, <2>1, SubSeqProperties
  <2> QED
    BY <1>2, <2>2
<1> DEFINE batch == [i \in 1..k |-> EventOf(ready[w][order[i]])]
<1>6. ready'[w] = list
  <2> HIDE DEF list
  <2> QED
    BY <1>0, <1>3 DEF TypeOK
<1>7. events'[w] = batch
  <2> HIDE DEF batch
  <2> QED
    BY <1>0, <1>1 DEF TypeOK, batch
<1> HIDE DEF list
<1> SUFFICES ASSUME inbox[open[f]] # << >>
             PROVE  InList(f, ready'[w]) \/ Listed(w, f)'
  BY <1>3 DEF Noticed
<1>8. events[w] = << >>
  BY <1>0, <1>3 DEF ServerInv, BatchInStep, Handling
<1>9. ~Listed(w, f)
  BY <1>8 DEF Listed
<1>10. PICK i \in 1..Len(ready[w]) : ready[w][i] = f
  BY <1>9 DEF NoticeInv, Noticed, InList
<1>11. CASE i \in 1..n
  <2>1. open[f] \in Clients
    BY <1>0, RegisteredIsOpen
  <2>2. Mask(open[ready[w][i]]) # {}
    BY <1>10, <2>1, MaskOfData
  <2>3. i \in reported
    BY <1>11, <2>2
  <2> HIDE DEF reported
  <2>4. PICK j \in 1..k : order[j] = i
    BY <1>4, <2>3, OrdersCover
  <2>5. Len(batch) = k /\ batch[j].fd = f
    BY <1>4, <1>10, <2>4 DEF EventOf
  <2> QED
    BY <1>7, <2>5 DEF Listed
<1>12. CASE i \notin 1..n
  <2>1. i - n \in 1..Len(list) /\ (i - n) + n = i
    BY <1>2, <1>5, <1>12
  <2>2. list[i - n] = f
    BY <1>5, <1>10, <2>1
  <2> QED
    BY <1>6, <2>1, <2>2 DEF InList
<1> QED
  BY <1>11, <1>12

LEMMA NoticedAdded ==
    ASSUME NoticeInv, NEW v \in Workers, AddSocket(v),
           NEW w \in Workers, NEW f \in epoll'[w]
    PROVE  Noticed(w, f)'
<1>0. TypeOK /\ ServerInv
  BY DEF NoticeInv, OrderInv, ServerInv
<1>1. UNCHANGED <<inbox, open, events>>
  BY DEF AddSocket, streamVars
<1>2. Listed(w, f)' <=> Listed(w, f)
  BY <1>1 DEF Listed
<1>3. CASE UNCHANGED epollVars
  BY <1>1, <1>2, <1>3, NoticedStays DEF NoticeInv, epollVars
<1>4. CASE ~UNCHANGED epollVars
  <2> DEFINE g == queue_entry[v]
             list == IF Mask(open[g]) = {} THEN ready[v]
                     ELSE Append(ready[v], g)
  <2>1. /\ epoll' = [epoll EXCEPT ![v] = @ \cup {g}]
        /\ ready' = [ready EXCEPT ![v] = list] /\ open[g] # NULL
    BY <1>4 DEF AddSocket
  <2>2. g \in Fds /\ open[g] \in Clients /\ ready[v] \in Seq(Fds)
    <3>1. g # NULL
      BY <1>0 DEF AddSocket, ServerInv, PlacesInStep, HandsInStep
    <3> QED
      BY <1>0, <2>1, <3>1 DEF TypeOK
  <2> HIDE DEF g, list
  <2>3. /\ ready'[v] = list /\ epoll'[v] = epoll[v] \cup {g}
        /\ \A u \in Workers :
              u # v => ready'[u] = ready[u] /\ epoll'[u] = epoll[u]
    BY <1>0, <2>1 DEF TypeOK
  <2>4. InList(f, ready[v]) => InList(f, list)
    <3>1. CASE list = ready[v]
      BY <3>1
    <3>2. CASE list = Append(ready[v], g)
      <4>1. /\ Len(list) = Len(ready[v]) + 1 /\ Len(ready[v]) \in Nat
            /\ \A i \in 1..Len(ready[v]) : list[i] = ready[v][i]
        BY <2>2, <3>2, AppendProperties
      <4> QED
        BY <4>1 DEF InList
    <3> QED
      BY <3>1, <3>2 DEF list
  <2>5. InList(f, ready[w]) => InList(f, ready'[w])
    BY <2>3, <2>4
  <2>6. CASE f \in epoll[w]
    BY <1>1, <1>2, <2>5, <2>6, NoticedStays DEF NoticeInv
  <2>7. CASE w = v /\ f = g
    <3>1. inbox[open[g]] # << >> => Mask(open[g]) # {}
      BY <2>2, MaskOfData
    <3>2. Mask(open[g]) # {} => InList(g, list)
      <4>1. Mask(open[g]) # {} => list = Append(ready[v], g)
        BY DEF list
      <4>2. /\ Len(Append(ready[v], g)) = Len(ready[v]) + 1
            /\ Len(ready[v]) \in Nat
            /\ Append(ready[v], g)[Len(ready[v]) + 1] = g
        BY <2>2, AppendProperties
      <4>3. InList(g, Append(ready[v], g))
        BY <4>2 DEF InList
      <4> QED
        BY <4>1, <4>3
    <3> QED
      BY <1>1, <2>3, <2>7, <3>1, <3>2 DEF Noticed
  <2> QED
    BY <2>3, <2>6, <2>7
<1> QED
  BY <1>3, <1>4

LEMMA NoticedDelivered ==
    ASSUME NoticeInv, NEW v \in Workers, ClientFunc(v),
           NEW w \in Workers, NEW f \in epoll[w]
    PROVE  Noticed(w, f)'
<1>0. TypeOK /\ Noticed(w, f)
  BY DEF NoticeInv, OrderInv, ServerInv
<1>1. /\ UNCHANGED <<inbox, ready, open>> /\ events[v] # << >>
      /\ events' = [events EXCEPT ![v] = Tail(@)]
  BY AnswerQuietly DEF NoticeInv
<1>2. CASE w # v
  <2>1. events'[w] = events[w]
    BY <1>0, <1>1, <1>2 DEF TypeOK
  <2> QED
    BY <1>0, <1>1, <2>1 DEF Noticed, Listed
<1>3. CASE w = v /\ f = event(v).fd
  <2>1. inbox[open[f]] = << >>
    BY <1>3, NothingLeft DEF ClientFunc
  <2> QED
    BY <1>1, <2>1 DEF Noticed
<1>4. CASE w = v /\ f # event(v).fd
  <2>1. /\ events'[v] = Tail(events[v]) /\ event(v) = events[v][1]
        /\ Len(events[v]) \in Nat
        /\ Len(Tail(events[v])) = Len(events[v]) - 1
        /\ \A i \in 1..Len(Tail(events[v])) :
              Tail(events[v])[i] = events[v][i + 1]
    BY <1>0, <1>1, TailOfBatch DEF TypeOK, event
  <2>2. ASSUME Listed(v, f) PROVE Listed(v, f)'
    <3>1. PICK i \in 1..Len(events[v]) : events[v][i].fd = f
      BY <2>2 DEF Listed
    <3>2. i # 1
      BY <1>4, <2>1, <3>1
    <3>3. i - 1 \in 1..Len(Tail(events[v])) /\ (i - 1) + 1 = i
      BY <2>1, <3>2
    <3>4. events'[v][i - 1].fd = f
      BY <2>1, <3>1, <3>3
    <3> QED
      BY <2>1, <3>3, <3>4 DEF Listed
  <2> QED
    BY <1>0, <1>1, <1>4, <2>2, NoticedStays
<1> QED
  BY <1>2, <1>3, <1>4

LEMMA NoticedStep ==
    ASSUME ~Closing, NoticeInv, [Next]_vars,
           NEW w \in Workers, NEW f \in epoll'[w]
    PROVE  Noticed(w, f)'
<1> USE DEF clientVars, listenVars, streamVars, epollVars, serverVars,
        workerVars, history, acceptorUnchanged
<1>0. TypeOK /\ ServerInv /\ OrderInv /\ Stays
  BY DEF NoticeInv, OrderInv, ServerInv
<1>1. ASSUME f \in epoll[w] PROVE /\ Noticed(w, f) /\ f \in Fds
                                  /\ open[f] \in Clients /\ open[f] # NULL
  BY <1>0, <1>1, RegisteredIsOpen DEF NoticeInv
<1>2. ASSUME UNCHANGED <<inbox, open, events, ready, epoll>>
      PROVE  Noticed(w, f)'
  BY <1>1, <1>2 DEF Noticed, Listed
<1>3. ASSUME NEW c \in Clients, SendHeader(c) \/ SendData(c)
      PROVE  Noticed(w, f)'
  <2>1. /\ UNCHANGED <<open, events, epoll>> /\ Wake(c)
        /\ \E list : inbox' = [inbox EXCEPT ![c] = list]
    BY <1>3 DEF SendHeader, SendData
  <2>2. f \in epoll[w]
    BY <2>1
  <2>3. open[f] = c \/ InList(f, ready[w]) => InList(f, ready'[w])
    BY <1>0, <2>1, <2>2, WakeLists
  <2>4. CASE open[f] = c
    BY <2>1, <2>3, <2>4 DEF Noticed
  <2>5. CASE open[f] # c
    <3>1. inbox'[open[f]] = inbox[open[f]]
      BY <1>0, <1>1, <2>1, <2>2, <2>5 DEF TypeOK
    <3>2. Listed(w, f)' <=> Listed(w, f)
      BY <2>1 DEF Listed
    <3> QED
      BY <1>1, <2>1, <2>2, <2>3, <3>1, <3>2, NoticedStays
  <2> QED
    BY <2>4, <2>5
<1>4. ASSUME NEW c \in Clients, ClientStep(c) PROVE Noticed(w, f)'
  <2>1. ~Close(c)
    BY DEF Close
  <2>2. CASE Connect(c) \/ Receive(c)
    BY <1>2, <2>2 DEF Connect, Receive
  <2> QED
    BY <1>3, <1>4, <2>1, <2>2 DEF ClientStep
<1>5. CASE AcceptConnection
  <2>1. /\ UNCHANGED <<inbox, events, ready, epoll>> /\ FreeFds # {}
        /\ open' = [open EXCEPT ![LowestFd] = Head(backlog)]
    BY <1>5 DEF AcceptConnection
  <2>2. open[LowestFd] = NULL /\ LowestFd \in Fds
    BY <2>1, LowestIsFree
  <2> HIDE DEF LowestFd
  <2>3. open'[f] = open[f]
    BY <1>0, <1>1, <2>1, <2>2 DEF TypeOK
  <2> QED
    BY <1>1, <2>1, <2>3 DEF Noticed, Listed
<1>6. CASE \/ CreateThread \/ AwaitConnection \/ AcceptFails \/ InsertSocket
           \/ UNCHANGED vars
  BY <1>2, <1>6 DEF CreateThread, AwaitConnection, AcceptFails, InsertSocket,
     vars
<1>7. ASSUME NEW v \in Workers, WorkerStep(v) PROVE Noticed(w, f)'
  <2>1. CASE \/ Start(v) \/ TakeTurn(v) \/ GetSocket(v) \/ PollFails(v)
             \/ EventsDone(v) \/ StartMessage(v)
    BY <1>2, <2>1 DEF Start, TakeTurn, GetSocket, PollFails, EventsDone,
       StartMessage
  <2>2. CASE AddSocket(v)
    BY <2>2, NoticedAdded
  <2>3. CASE Poll(v)
    <3>1. epoll' = epoll
      BY <2>3 DEF Poll
    <3>2. CASE w = v
      BY <2>3, <3>1, <3>2, NoticedPoll
    <3>3. CASE w # v
      <4>1. UNCHANGED <<inbox, open>>
        BY <2>3 DEF Poll
      <4>2. ready'[w] = ready[w]
        <5>1. \E list : ready' = [ready EXCEPT ![v] = list]
          BY <2>3 DEF Poll
        <5> QED
          BY <1>0, <3>3, <5>1 DEF TypeOK
      <4>3. events'[w] = events[w]
        <5>1. \E batch : events' = [events EXCEPT ![v] = batch]
          BY <2>3 DEF Poll
        <5> QED
          BY <1>0, <3>3, <5>1 DEF TypeOK
      <4> QED
        BY <1>1, <3>1, <4>1, <4>2, <4>3 DEF Noticed, Listed
    <3> QED
      BY <3>2, <3>3
  <2>4. CASE ReadHeader(v) \/ ReadData(v)
    <3>1. UNCHANGED <<open, events, ready, epoll>>
      BY <2>4 DEF ReadHeader, ReadData
    <3>2. PICK c : /\ Readable(c)
                   /\ inbox' = [inbox EXCEPT ![c] = Tail(@)]
      BY <2>4 DEF ReadHeader, ReadData
    <3>3. inbox'[open[f]] # << >> => inbox[open[f]] # << >>
      BY <1>0, <1>1, <3>1, <3>2 DEF TypeOK, Readable
    <3>4. Listed(w, f)' <=> Listed(w, f)
      BY <3>1 DEF Listed
    <3> QED
      BY <1>1, <3>1, <3>3, <3>4, NoticedStays
  <2>5. CASE ClientFunc(v)
    <3>1. epoll' = epoll
      BY <1>0, <2>5, AnswerQuietly
    <3> QED
      BY <2>5, <3>1, NoticedDelivered
  <2> QED
    BY <1>0, <1>7, <2>1, <2>2, <2>3, <2>4, <2>5, QuietSteps
<1> QED
  BY <1>4, <1>5, <1>6, <1>7 DEF Next, AcceptorStep

LEMMA NoticeInit == Init => NoticeInv
<1> SUFFICES ASSUME Init PROVE NoticeInv
  OBVIOUS
<1>1. OrderInv
  BY OrderInit
<1>2. Stays
  BY DEF Init, Stays
<1>3. OneAtATime
  <2>1. ASSUME NEW c \in Clients PROVE sent[c] = 0 /\ delivered[c] = << >>
    BY DEF Init
  <2>2. Len(<< >>) = 0
    OBVIOUS
  <2> QED
    BY <2>1, <2>2 DEF OneAtATime
<1>4. \A w \in Workers : epoll[w] = {}
  BY DEF Init
<1> QED
  BY <1>1, <1>2, <1>3, <1>4 DEF NoticeInv

\* comm_worker_run registers edge-triggered and reads one message per event: if
\* clients wait for each answer and stay, no request waits on a connection
\* without an event for it, whatever registrations and epoll_waits fail.
THEOREM NoDataStranded ==
    ASSUME ~Pipelining, ~Closing
    PROVE  Spec => []NoStrandedData
<1>1. NoticeInv /\ [Next]_vars => NoticeInv'
  <2> SUFFICES ASSUME NoticeInv, [Next]_vars PROVE NoticeInv'
    OBVIOUS
  <2>1. OrderInv' /\ Stays' /\ OneAtATime'
    BY OrderStep, StaysStep, OneAtATimeStep DEF NoticeInv
  <2>2. ASSUME NEW w \in Workers, NEW f \in epoll'[w] PROVE Noticed(w, f)'
    BY <2>2, NoticedStep
  <2> QED
    BY <2>1, <2>2 DEF NoticeInv
<1>2. NoticeInv => NoStrandedData
  BY DEF NoticeInv, Noticed, Listed, Stays, NoStrandedData
<1> QED
  BY <1>1, <1>2, NoticeInit, PTL DEF Spec
=============================================================================
