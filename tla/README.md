# A verification project for comm_system

comm_system is a C library for message passing within a node (Unix sockets)
and between nodes (TCP).  A server process calls `comm_server_init`, which
starts an acceptor thread and a pool of worker threads and returns; a client
calls `comm_client_init`, then `comm_client_send` and `comm_client_wait`.  The
server's application gets each request in a callback, `client_func`, and
answers with `comm_servresp_send`.  A logging library completes the system.

This directory holds TLA+ modules that model the library, TLC configurations
that check them on small instances, and proofs that TLAPS checks.

## 1. Inventory

### Work queue (`comm_work_queue.c`) - modelled

* State: `queue_in` (a linked list, newest entry first), `queue_out` (a linked
  list, oldest first) and a mutex; entries allocated by the acceptor and freed
  by the worker that gets them.
* Operations: `comm_init_queueroot`, `comm_queue_insert` (lock-free push with a
  compare-and-swap), `comm_queue_get` (under the mutex: pop from `queue_out`;
  if that is empty, detach all of `queue_in` with a compare-and-swap and
  reverse it onto `queue_out`).
* Used by: the acceptor (insert) and every worker (get).
* Hard: three memory accesses of an insert interleave with those of a get; an
  entry's address comes back from `malloc` while another thread holds a stale
  copy; the loops on the compare-and-swap have no bound.
* Correct when: it is a FIFO queue on which each call takes effect at one
  instant; every entry has one owner from `malloc` to `free`; the loops end.

### Server: acceptor and workers (`comm_server.c`) - modelled in part

* State: the listening socket, the queue, each worker's epoll instance and the
  batch of events it is handling, the message it is reading, and
  `cur_worker_index`, the turn, which is global.
* Operations: `comm_server_init` (create the workers, then the acceptor);
  `comm_serv_thread` (on the listening socket's edge, accept until accept
  fails, insert each socket); `comm_get_worker_index` (look at the turn; pass
  it on if it was ours); `comm_worker_run` (on its turn get one socket and
  register it, edge-triggered; poll; per event either close the socket and call
  `error_func`, or read one message and call `client_func`).
* Interactions: acceptor to workers through the queue; workers among themselves
  through the turn; with the kernel through epoll; with the application through
  the two callbacks; with clients through the sockets.
* Hard: edge-triggered events, each reported once; batches of events that grow
  stale while they are handled; descriptor numbers reused by `accept` while a
  batch still names them; a worker that spins on a message of which a part has
  not arrived; peers that close or crash at any time; system calls that fail.
* Correct when: a connection is held by one thread at a time and gets from
  `accept` to an epoll instance; requests reach `client_func` whole, in order
  and once; answers reach who asked; no data waits without an event to come;
  every request is answered.

### Send and receive calls (`comm_tcp_client.c`, `comm_unix_client.c`, `comm_client.c`, `comm_server.c`) - modelled in part

* State: the socket buffers; the locals of the transfer loops (pointer, counts).
* Operations: `comm_client_send`, `_send_header`, `_send_data`, `_wait`,
  `_finish`; `comm_servresp_send`, `_send_header`, `_send_data`; the read loops
  of `comm_worker_run`.
* Interactions: the client and the server's worker, over the connection.
* Hard: short reads and writes, retries in the middle, messages sent in pieces,
  a peer that closes in the middle of a message, full socket buffers on both
  sides.
* Correct when: the receiver's memory holds the message that was sent, each
  byte in its place; return values tell what happened; no call waits for ever
  while both sides follow the protocol.

### Socket set-up (`comm_server.c`, the clients' init functions) - modelled

* State: the address (a path or a port) and the sockets bound to it, the
  backlog, the acceptor's epoll instance, the client's handle.
* Operations: `comm_create_and_bind`, `comm_make_socket_non_blocking`, the
  start of `comm_serv_thread`, `comm_client_init` with
  `comm_tcp_client_init` and `comm_unix_client_init`, `comm_client_finish`.
* Hard: servers started on one path unlink each other's sockets; servers on
  one port share it until one listens; failures in the acceptor are logged and
  the thread goes on with a descriptor it does not have; a connection may come
  between `listen` and `epoll_ctl`, with no edge of its own; an `accept` that
  fails leaves the backlog to the next edge.
* Correct when: the address leads to a server that listens; who has a handle
  is accepted, or was left by an `accept` that failed.

### Log levels, families and output (`log_functions.c`, `log_macros.h`) - modelled in part

* State: a level and a destination (type, path and buffer) per component, the
  table of error families, each thread's context in thread-specific data.
* Operations: `SetComponentLogLevel`, `SetLevelDebug`, `InitLogging`, the
  SIGUSR1 and SIGUSR2 handlers; `AddFamilyError`, `ReturnNameFamilyError`,
  `MakeLogError`; `SetComponentLogFile`, `SetDefaultLogging`,
  `SetComponentLogBuffer`, `SetNameFunction`, `DisplayLogComponentLevel`.
* Hard: handlers that read one level and write all, in the middle of each other,
  at the same time on several threads, and while the program sets levels; a
  table that is read while a registration is half stored and its name half
  copied; logging functions that log their own failures; a type and a path, or a
  buffer, stored, and read, one after the other.
* Correct when: changes of level that do not overlap add up, and in others no
  signal counts twice; a lookup finds what was registered, whole, and of what is
  being registered nothing that is wrong; a message goes where its component was
  last told to, with its own thread's name, and causes one more at most.

### Log formatting (`log_vsnprintf`) - modelled

* State: the place in the format, the argument list, the families chosen by
  `%J` and `%K`.
* Hard: `vsnprintf` works on a copy of the argument list, and the function
  steps its own list over what it must have used: one mistake, and every later
  conversion prints another's argument.
* Correct when: the list stays in step with the format, and every conversion
  is written from its own arguments.

### Build files and `comm_domain.h` - not modelled

No state.

## 2. Modules

| module | models | lines of code it stands for |
|---|---|---|
| `FifoQueue` | what the work queue promises | `comm_queue_insert`, `comm_queue_get` and their callers, as atomic operations |
| `CommWorkQueue` | the work queue, access by access | `comm_work_queue.c`, and the `malloc` and `free` of the callers |
| `CommWorkQueueProofs` | invariants of `CommWorkQueue`, and that it implements `FifoQueue`, proved | |
| `CommServer` | one server with its clients, system call by system call | `comm_server_init`, `comm_serv_thread`, `comm_get_worker_index`, `comm_worker_run` |
| `CommServerProofs` | invariants of `CommServer`, that it implements `MessageService`, and that no data is stranded, proved | |
| `MessageService` | what client and server promise the application | `comm_client_send`, `client_func`, `comm_client_wait`, as atomic operations |
| `CommStream` | the send and receive calls on one connection, byte by byte | all send and wait functions, the worker's read loops |
| `CommStreamProofs` | invariants of `CommStream`, proved | |
| `TurnRotation` | what `comm_get_worker_index` promises: the turn moves by one, modulo a server's size | `comm_get_worker_index`, atomic |
| `CommTurn` | the turn and its mutex, access by access, for all servers of a process | `comm_get_worker_index`, and when `comm_server_init` and `comm_worker_run` reach it |
| `CommTurnProofs` | invariants of `CommTurn`, and that it implements `TurnRotation`, proved | |
| `CommSetup` | how servers and clients find each other, call by call | `comm_create_and_bind`, the start of `comm_serv_thread`, the clients' init functions |
| `CommSetupProofs` | the address leads to a server that listens, and who has a handle is noticed, proved | |
| `LogLevels` | the levels, one access a step | the level setters, the environment, the signal handlers |
| `LogLevelsProofs` | the changes of all levels add up, and none counts twice, proved | |
| `LogFamilies` | the table of error families, one field a step | `AddFamilyError`, `InitLogging`'s part, the lookups |
| `LogFamiliesProofs` | a registered number keeps its family, and lookups find it whole, proved | |
| `LogOutput` | a message's way to its destination, and the choice of destinations | `DisplayLogComponentLevel` and what it calls, `Log_GetThreadContext`, the destination setters |
| `LogOutputProofs` | names, destinations, defaults and the depth of a thread's calls, proved | |
| `LogFormat` | the scan of a format and the walk along the argument list | `log_vsnprintf` |
| `MC...` | instances for TLC, with symmetry sets | |

`CommServer` composes with the queue through `FifoQueue`: its `InsertSocket`
and `GetSocket` are the atomic insert and get that `CommWorkQueue` is shown to
implement.  It abstracts a message to units (a header and some data units);
`CommStream` shows that the loops do transfer messages whole, byte by byte.
Its `TakeTurn` is `comm_get_worker_index` in one step, which `CommTurn` is shown
to implement under the mutex; `CommSetup` ends where its acceptor begins.
`CommServer` in turn is shown to implement `MessageService`.

### CommWorkQueue

One action per shared-memory access.  `next[e]` and `socket_fd[e]` are the
fields of the entry at address `e`; `entry`, `in_queue` and `head` are the
locals.  `NewEntry` is `malloc` in `comm_serv_thread`: the entry's `next` field
is left as it was (the `memset` there clears only `sizeof(pointer)` bytes), so
it is any value.  `ReadIn` and `CasIn` are `comm_queue_insert`.  `Lock`,
`CheckOut`, `ReadHead`, `Detach`, `Move` (one iteration of the reversal), `Pop`
and `Unlock` are `comm_queue_get`; `Release` is the worker's use and `free`.

Any number of inserters is allowed, although a server has one.

`fifo`, `moving` and `ready` are history variables: the entries queued in the
order in which their compare-and-swap succeeded, and how many of the oldest are
in transit and on `queue_out`.  No guard reads them.

Memory is sequentially consistent: the accesses are made by
`__sync_bool_compare_and_swap`, a full barrier, or under the mutex; the store
to `entry->next` comes before the barrier that publishes it.  The plain read of
`queue_in` before the compare-and-swap may be stale, which only makes the
compare-and-swap fail.

### CommServer

* `CreateThread` is the loop of `comm_server_init`.
* `AwaitConnection`, `AcceptConnection`, `AcceptFails` and `InsertSocket` are
  the acceptor's event loop.
* `Start`, `TakeTurn`, `GetSocket`, `AddSocket`, `Poll`, `PollFails`,
  `EventsDone`, `CloseOnError`, `ErrorFunc`, `StartMessage`, `ReadHeader`,
  `ReadData`, `ReadFails` and `ClientFunc` are a worker.
* The clients (`Connect`, `SendHeader`, `SendData`, `Receive`, `Close`) follow
  the client library; the kernel is modelled from how the code uses it.

What is assumed of the surroundings:

* epoll is edge-triggered as registered: something that happens on a socket
  puts it on the ready list, `epoll_wait` takes it off, and registering a
  socket that is readable puts it there at once.  A Unix socket whose peer has
  closed reports `EPOLLHUP`, with `EPOLLIN` as long as there is data; a TCP
  socket reports `EPOLLIN` when the peer has closed in order, and `EPOLLERR`
  and `EPOLLHUP` when the connection was reset.
* `accept` returns the lowest free descriptor, and close makes it free.
* `client_func` answers once, with `comm_servresp_send`, before it returns;
  the application ignores SIGPIPE.
* One thread uses a connection on the client's side.
* `client_func` and `error_func` are set.  A failed `malloc` of a message ends
  in `assert(0)` in the code and is left out.

### CommStream

The ten send functions are two copies each of one loop, and the two wait
functions and the worker's read loops of another; they differ in the socket
they use and in what they transfer.  The calls are actions of their own
(`comm_tcp_client_send`, `comm_unix_servresp_send_header`, ...), chosen by
`ipc_type` as `comm_client_t` chooses them; the loops are `WriteSome`,
`WriteRetries`, `WriteFails`, `HeaderSent`, `DataSent` and `ReadSome`,
`ReadRetries`, `PeerClosed`, `HeaderReceived`, `DataReceived`.

A byte is the message it belongs to, that message's length and its position, so
that a byte in the wrong place is seen.  The sender may pass a message in
pieces (`msg_write_len`).  It never passes an empty piece of a message that has
data, since `msg_write_len = 0` means the whole.  Unix clients use only send
and wait: `comm_unix_client_init` leaves the other two pointers unset.  What a
sending call has put on the wire is history (`put`); `SendResult` compares it
with what the call's arguments ask for.

### CommTurn

`cur_worker_index` and `global_cur_worker_lock` are global, so that all servers
of a process share one turn, although each counts its own workers and each
`comm_server_init` initialises the mutex again (`InitMutex`).  The build does
not optimise, so the two assignments of `comm_get_worker_index` are four
accesses: `LoadIndex`, `StoreSum`, `LoadSum`, `StoreNext`.  The mutex is the C
library's (`Lock`, `Contend`, `UnlockAndWake`, `UnlockOnly`): 0, 1, or 2 when
threads may sleep on it.  `Exit` is a worker whose `epoll_create1` or `calloc`
fails.

`QuietStart` says that servers are started only while no worker is in the
mutex.  The C library calls anything else undefined, but nothing in the
repository forbids it, so `TurnInRange` is checked and proved without it.

`TurnRotation` has the turn alone.  Under the refinement mapping (`turnBar`) the
turn moves when the new index is stored.

### CommSetup

Each server is a process.  `Socket`, `Unlink`, `Bind`, `MakeNonBlocking`,
`Listen`, `EpollCreate` and `EpollAdd` are its calls in the order of the code;
each may fail for want of resources (`faults` counts these), and the acceptor
goes on as the code does, for example with a socket it has not got.
`AwaitConnection` and `Accept` are the event loop, `ClientSocket`, `Connect` and
`Finish` the client.  `accept` may fail at any time for want of a descriptor or
of memory: the code then leaves the loop with the backlog as it is, and only the
next connection brings another edge.  `left` is history: the clients such a
failure has left there, until somebody connects.  `path` is the server that a
Unix path leads to; for a port the kernel lets several servers bind it until one
listens (`Free`).

### LogLevels

One access of a level a step.  `Signal` with `ReturnLevelDebug`, and then
`SetNext`, are a handler: it reads the level of `COMPONENT_ALL` and writes one
component after the other.  A handler blocks only its own signal (the masks are
empty), and only in the thread that took it, so that `Handlers`, the runs of a
handler that may be under way at once, come in any order, in the middle of each
other and of the program's calls.  Those are made from one thread, as
`log_functions.h` asks.  The environment may give a level to any component,
`COMPONENT_ALL` included.

Three variables are history: `due` is the level that the changes of all lead to
if none overlaps another, and -1 once two have overlapped; `possible` has the
levels they may lead to, each signal counted once or lost; `own` has the
components given a level of their own since.

### LogFamilies

`FindSlot`, `Claim`, `StoreTable` and `StoreName` are `AddFamilyError`, in one
registering thread; `Ask`, `LookAt` and `Fetch` a lookup of a table in another,
and `ReadName` the reading of a name behind the pointer that
`ReturnNameFamilyError` returned.  No lock is taken, so that a name is copied
and read in `NameParts` parts: `strcpy` may store them in any order, and the
reader goes from the first to the NUL.  Tables and names are numbered by the
registration they come from.  `added` and `sure` are history variables: the
slots whose registration is complete, and the answer a lookup that begins now
must give.

### LogOutput

A thread's calls form a stack, since the logging functions log. `ReadType` is
the switch of `DisplayLogComponentLevel`; `Once`, `InitKeys`, `FoundContext`,
`MadeContext` and `NoContext` are `Log_GetThreadContext`, whose `malloc` and
`pthread_setspecific` may fail; `Emit` is the writing, to where the path or the
buffer, read at that moment, says. `Compare`, `StoreType`, `StoreFile` and
`Report` are `SetComponentLogFile`, which `SetDefaultLogging` calls for one
component after the other; `SetComponentLogBuffer` and `StoreBuffer` are the two
stores of that function, between which a message may be written to the buffer of
before, or to none. A message carries what was `chosen` for its component when
it began, and whether the component was changed meanwhile (`torn`); both are
history.

### LogFormat

A format is a sequence of characters, of which those that the scan treats alike
are one (all digits, all letters that take a double).  It is written from a
sequence of conversions, which the scan does not see: `conversions` is history,
and from it the properties know what each conversion must take and write.
`ScanText`, `ScanWidth`, `ScanPrecision` and `ScanLength` are the scan,
`ConvertPlain`, `ConvertErrors`, `ChangeFamily` and `ConvertNumber` what is done
with the letter.  An argument is its type, and its value where that chooses a
family.  `Misread` lists the conversions whose arguments the function steps over
wrongly (section 4); they are among the inputs.

## 3. Runs

| run | question | instance | states |
|---|---|---|---|
| `queue` | do the lists hold the queue, has every entry one owner, is it a FIFO queue with atomic calls, do inserts return and entries leave? | 1 inserter, 2 getters, 3 entries, 3 sockets | 98 thousand |
| `server_tcp_safety` | one holder per socket, valid events, answers to the asker | 2 workers, 2 clients, 2 descriptors, one request of 0 or 2 data units each; closing | 1.2 million |
| `server_unix_faults` | one holder, valid events, requests whole, in order and once, and the message service, across descriptor reuse and failing calls | 2 workers, 3 clients, 1 descriptor, two requests of 2 data units, of one client or of two; pipelining, closing, all faults | 1.5 million |
| `server_request_answer` | is no data stranded, every connection adopted, every request delivered and answered? | 2 workers, 2 clients that wait for each answer and stay | 178 thousand |
| `server_pipelining_strands` | the finding, section 4 | 1 client | |
| `stream` | is the message in the receiver's memory, are the results right, do all calls return? | 2-byte header, up to 2 data bytes, 2-byte buffers, a request and its answer, TCP and Unix calls, closing | 144 thousand |
| `turn` | one worker inside, a turn that stays in range, rotates, keeps moving, and stops only where nobody runs? | servers of 1 and 3 workers, started in any order; workers that exit | 11 thousand |
| `setup` | does the address lead to a server that listens, is every client with a handle accepted, or left by an `accept` that failed? | 2 servers, 2 clients, Unix and TCP, up to 2 failing calls of a start, any failing `accept` | 43 thousand |
| `levels_signals` | do changes of all levels add up, does none count twice? | 3 components, both signals, 2 handlers at once, 2 levels asked for, 4 environments | 4.3 million |
| `families_lookups` | does a lookup find what was registered, and no mixture, does a family stay? | 4 slots, 4 registrations, 1 reader, names of 3 parts | 113 thousand |
| `output` | messages where they are to go, with their own name, one more at most, defaults that reach all? | 2 threads, 3 components, 2 changes, paths, the empty path and a buffer, failing allocations | 6.2 million |
| `format_writes` | is the argument list in step, is everything written? | every format of 0 to 2 conversions, misread ones included, and of 3 with families; with and without text | 550 thousand |

Type invariants are checked for the queue, the server, the stream and the turn,
and proved for these and for `CommSetup`, `LogFamilies`, `LogLevels` and
`LogOutput`, whose runs do not list them.

Why the bounds are enough.

* Queue: a stale compare-and-swap needs one thread that has read and others
  that change the head and bring the address back, which two getters and three
  entries allow; three entries make lists on which order shows, with one on
  each of `queue_in`, in transit and `queue_out`.  A server has one inserter;
  the proofs of section 5 allow any number.
* Server: two clients make batches of two events, the least with an event that
  waits behind another; a request of two data units makes a message whose middle
  can be hit; two requests of one client (in `server_unix_faults`) let the
  second arrive before the first is read; three clients on one descriptor make a
  number that is reused twice, the second time while another worker holds an old
  event.
* Stream: with header, data and buffers of two bytes every transfer can be
  whole or short, and a buffer is smaller than a message, so that writers must
  wait for readers.  All locals of a call are set when it begins, so that a
  second request adds nothing but its number.
* Turn: the sizes 1 and 3 differ, so that the modulo a worker takes depends on
  its server; four workers let one hold the mutex, one contend and two sleep.  A
  server started while the mutex is held is not in the run: that the turn stays
  in range even then is proved (`RangeCorrect`).
* Set-up: two servers are the least that can take each other's path, and the
  second may be stopped between any two calls; two clients make one connection
  that comes with the event and one that comes without.
* Levels: `COMPONENT_ALL` and two others let a handler interrupt a change of one
  component before and after its own loop has passed it; two handlers and the
  program's call make three changes that overlap.
* Families: four slots and four registrations fill the table (slot 0 is the
  system's) and go one beyond it; numbers may be free, taken, refused or chosen
  by the function.  A name of three parts has a middle, so that it can be copied
  with a gap.
* Output: the three components are those the code treats apart, of which
  `STDOUT` also stands for the others in all but `SetDefaultLogging`; two
  changes let a new type meet the path of the one before.
* Format: what the code keeps from one conversion to the next is the argument
  list, the count of `*` and the families; a pair shows the first two, a triple
  two families and a number.

Symmetry is used in safety runs only, over names the code does not order: the
clients in the two safety runs of the server, the handlers in
`levels_signals`, the threads in `output`.  Workers are numbered by the turn,
and `accept` orders descriptors.

Deadlock is checked except in five runs.  In `server_unix_faults` every thread
may have failed to start, and in `turn` every worker may have exited.  In
`stream` the bound `MaxMsgs` ends the exchange, and a close ends it earlier.  In
`setup` all may be served, and in `format_writes` the format ends.  (The other
servers always poll; the queue's getters always ask; log calls can always be
made.)

`MaxRequests`, `MaxSent`, `MaxMsgs`, `MaxLen`, `MaxFaults`, `MaxAdds`,
`MaxChanges` and `MaxIndex` are bounds of the models; `num_workers`, `MAXEVENTS`
and `ipc_type` are the code's parameters; `Handlers` bounds the handlers that
run at once, `NameParts` the copying of a name; `NumFds` stands for the
descriptor limit, `Capacity` for the size of socket buffers, and
`MAX_NUM_FAMILY` is smaller than the code's.

### Fairness

* Queue: weak fairness of each thread inside a call (the scheduler runs it) and
  of the next `comm_queue_get` (a worker asks again each time its turn comes).
  `EveryInsertReturns` is checked with one inserter, as a server has: a getter
  can only make a push fail by emptying the list.
* Server: weak fairness of `comm_server_init`, the acceptor and each worker
  (threads are scheduled), of `SendData` (a client that has begun a request
  goes on) and `Receive` (it reads its answer).  No fairness of `Connect`,
  `SendHeader` or `Close`: nothing forces a client to do these.  Without that
  of `SendData` a worker may spin in its data loop for ever, and with it the
  turn stays where it is; the code has no time limit there.
* Stream: weak fairness of each party's transfers and of the callers.
  `WriteRetries` and `ReadRetries` are unconstrained: loops may go round as
  often as they like, as long as a transfer that stays possible is made.
* Turn: weak fairness of `comm_server_init`'s loop and of each worker, and
  strong fairness of getting the mutex and of being woken: it is held for a few
  instructions, between which each worker polls, and the kernel wakes sleepers
  in order.  Whether a server is started at all is left open.
* Set-up: weak fairness of each server's steps; none of the clients.  That of
  `Accept` does not make it succeed: it may fail for ever.

## 4. Findings

`server_pipelining_strands` is a violation run, whose one property TLC refutes.
The worker's sockets are edge-triggered and one message is read per event.  If a
client sends two requests before the first is read, the second stays in the
socket with no event to come.  The rule that all data must be read in this mode
is stated by a comment of `comm_server.c`, line 876, in the acceptor's loop.
`server_request_answer` shows the use in which this does not occur: clients that
wait for each answer and stay connected.

Other behaviour of the code that the models contain, or that the instances
leave out because the properties fail with it:

* `comm_server.c:665` and `:736`.  End of file on one connection jumps to
  `poll_again`; the other events of the batch, already taken off the ready list,
  are dropped.  With `Closing = TRUE` `NoStrandedData` fails.
* `comm_server.c:615`.  A Unix client that sends and closes in order is
  reported as `EPOLLIN | EPOLLHUP`; the branch that the comment calls an error
  or a socket "not ready for reading" closes the socket with the request
  unread.
* `comm_server.c:849`.  When `accept` fails for want of a descriptor or of
  memory, the clients in the backlog wait until another one connects.
  `ConnectedIsAccepted` excepts them (`left`).
* `log_functions.c:970`. For a double with the modifier `l` the argument list is
  moved past a `long double`, so that the arguments behind a `%lf` are read from
  the wrong place. For `%ls` and `%lc` (954-973) and for `%n` the list is not
  moved at all. A precision that is a `.` alone (711) swallows the letter of its
  conversion. The number of an error whose family is not registered stays in the
  list (1043). All these are in the inputs of `format_writes`: `ArgumentsInStep`
  says that they are exactly those that bring the list out of step. (A `.` with
  no letter behind it is not: the scan then passes the end of the format.)
* `log_functions.c:336`.  A level that the environment gives to `COMPONENT_ALL`
  is stored in that entry of the table alone, where `SetComponentLogLevel` sets
  all; `log_macros.h:8` calls it "Used for changing logging for all components".
  In `LogLevels` the other components then keep levels of their own.
* `log_functions.c:230`.  The handlers' masks are empty, so that SIGUSR2 can be
  handled in the middle of SIGUSR1's loop, and either on two threads at once.
  The interrupted loop then goes on with its own level: signals can be lost, and
  components end at different levels until the next change that is alone.
  `ChangesAddUp` allows this of changes that overlap, and no more.
* `log_functions.c:491`.  `strcpy` copies a family's name into the array that
  `ReturnNameFamilyError` gives out (503), after the number is stored: who asks
  for a family that is being registered may read a beginning of its name.
* `log_functions.c:1352`.  `SetComponentLogBuffer` stores the type before the
  buffer: a message in between is written to the buffer of before, or to NULL.
* `log_functions.c:1253`.  `isValidLogPath` switches on the result of `access`,
  not on `errno`: every path is accepted, and `Compare` does so too.

## 5. Proofs

`CommWorkQueueProofs` proves, for any sets of inserters, getters, entries and
sockets, `Spec => []` of

* `TypeOK` (`TypeCorrect`),
* `ListsRepresentQueue` (`ListsCorrect`): the lists hold the queued entries, in
  insertion order, in every interleaving and for every reuse of addresses,
* `EntryHasOneOwner` (`OwnershipCorrect`): no entry leaks, is freed twice or
  used after it was freed.

The only assumption is `NULLAssumption`: NULL is not an entry, a socket or a
thread.

None of the three is inductive.  The lists are right only because owners do not
overlap (a thread that inserts an entry writes its `next` field), because the
mutex keeps a single getter in transit, and because the field written before
the compare-and-swap still holds what was read.  `ThreadsInStep` states these
facts about the threads' locals, and `IInv` is the conjunction of the four;
`InductiveInvariant` proves it.

The argument for reuse of addresses (ABA): both compare-and-swaps compare the
head alone, but the push writes its own entry's `next` with the value compared,
so a head that went away and came back is the right link again; and the detach
takes the whole list, whatever is behind the head.  This is why `ThreadsInStep`
needs only `next[entry[p]] = in_queue[p]`, and not that the head has not
changed.

The proof has one lemma per action that rebuilds a list (`CasInStep`,
`MoveStep`, `PopStep`); in the others the lists are unchanged, because the
entries they write are not queued.

It also proves `QueueImplementsFifo`: `Spec => ImplementsFifo`.  Under the
refinement mapping (`queueBar`, `offeredBar`, `answerBar`, `takenBar`)
`NewEntry` is `Offer`, a compare-and-swap that inserts is `Insert`, `Lock` is
`Call`, a detach of the empty list is `FindEmpty`, a pop is `Take` and `Release`
is `Return`; every other step changes nothing.  The instant at which a get
answers "empty" is its successful compare-and-swap of NULL with NULL: at that
instant both lists are empty, since nothing is in transit while the mutex is
held, and `queue_out` was seen empty and only the holder adds to it.  One more
invariant is needed, `SocketKnown`: an allocated entry carries a socket.

`CommTurnProofs` proves, for any servers of any sizes,

* `Spec => []TypeOK` (`TypeCorrect`) and `Spec => []TurnInRange`
  (`RangeCorrect`), even if the mutex is initialised while it is held,
* `QuietStart /\ Spec => []OneInside` (`ExclusionCorrect`)
  and `QuietStart /\ Spec => ImplementsRotation` (`RotationCorrect`).

They assume `ParametersAssumption`: each server has at least one worker.
`TurnInRange` needs `RegisterInRange` (what a worker has loaded to store is an
index of its own server) and `CreatedInOrder` (a worker that was not created
does nothing); it holds with two workers inside, because whatever one of them
stores is a sum that its own next steps bring into range, or an index that its
server has.  The rotation needs that a worker inside is alone (`FreeIsEmpty`,
`OneInside`), so that `cur_worker_index` is what it last loaded or stored
(`IndexInStep`).  Then `StoreNext` is `Take`, and every other step leaves the
turn of the mapping where it is.

`LogFamiliesProofs` proves `Spec => FamiliesStay` (`FamiliesCorrect`) and
`Spec => []TypeOK` (`TypeCorrect`), for a table of any size, any readers and
any registrations; they assume `ParametersAssumption`.  A lookup takes the
first slot with the number, so a later registration could only shadow an older
one from a lower slot.  None can, because slots are filled from the first on
(`FilledInOrder`) and the call under way has seen every slot before its own in
use (`AddingInStep`); before `InitLogging` no slot is free (`EmptyBefore`).
`FirstStays` is the step of that argument.  That a set of slots has a first one
(`LeastSlot`) comes from the library's theorem that the finite sets are well
founded by inclusion.

It also proves `Spec => []LookupsFindFamilies` (`LookupsCorrect`), for names
copied and read in any number of parts. The readers take no lock, so the
invariant (`LookupInv`) has to follow a lookup through the registrations that
are made meanwhile. A slot holds its registration, its table and some parts of
its name, or nothing (`FieldsInStep`), and a part of one only while the call
that stores it is at it (`FilledAreAdded`). A lookup that must find an answer
has it ahead of it, in the first slot with the number (`Ahead`), or is at that
slot (`Found`). Since the first slot with a number stays the first, no
registration gets between the lookup and its answer. A reader of a name has read
parts of that slot's registration only (`HasRead`): it stops at the first part
that is not copied, and what is copied stays.

`CommServerProofs` proves, for any clients, workers, descriptors, batch sizes,
lengths and faults, `Spec => []` of `TypeOK` (`TypeCorrect`), `FdHasOneHolder`
(`HoldersCorrect`) and `EventsAreCurrent` (`EventsCorrect`).  The inductive
invariant is `ServerInv` (`ServerInvariant`):

* `CreatedInStep`: a thread that is not created yet does nothing, and the
  acceptor is created last;
* `PlacesInStep`: an open descriptor is in one place (in the acceptor's hand, in
  the queue, in a worker's hand, in an epoll instance or leaked) and a closed
  one in none (`OnePlace`), a thread has one in hand exactly when it is about to
  pass it on (`HandsInStep`), and it is there once (`QueueOnce`, `EntryOnce`,
  `EpollOnce`);
* `ReadyInStep`, `BatchInStep` and `EventsAreCurrent`: a ready list and what is
  left of a batch name registered descriptors, each once, and those of a batch
  are still open on the connection of the event;
* `MessageInStep` and `SendingInStep`: a message that is being read is of the
  connection of its event, and a client that sends has something left to send.

`FdHasOneHolder` alone says nothing of a closed descriptor that a list still
names, which `accept` would hand out a second time; and `EventsAreCurrent` alone
says nothing of the ready list that the next batch is taken from.  That batches
stay current in spite of reuse rests on `EpollOnce`: only the worker that has a
descriptor registered closes it, it does so while handling that descriptor's
event, and a batch has one event of each.

Of the streams it proves `Spec => []RequestsInOrder` (`OrderCorrect`),
`Spec => []AnswersGoToAsker` (`AnswersCorrect`) and `Spec => ImplementsService`
(`ServerImplementsService`), with pipelining, closing and faults.  `OrderInv`
(`OrderInvariant`) adds to `ServerInv`

* `ConnectionsOnce`: a connection is in the backlog or open, once;
* `StreamInStep`: behind the unit that was last read of a connection, what is in
  the kernel and what the client has still to send are the units that follow,
  one by one, up to the end of its last request;
* `MessageIsNext` and `DeliveredInOrder`: the message in a worker's hands is the
  next to deliver, and whole when `client_func` is called;
* `AnswersInStep`: until the client closes, each delivery has one answer, on its
  way or received.

`RequestsInOrder` speaks of what has been delivered; that the next read meets
the right unit is in `StreamInStep`, and that nobody else reads from the same
connection is in `ServerInv`.  Under the mapping `asked` is `sent` and the other
variables have their names: `SendHeader` is `Ask`, `ClientFunc` is `Deliver`,
`Receive` is `Receive`, and every other step changes nothing.

The last theorem is `NoDataStranded`: `Spec => []NoStrandedData` for clients
that wait for each answer (`~Pipelining`) and stay (`~Closing`).  These are the
conditions of `server_request_answer`, and without either the property is false
(section 4).  The argument is in `NoticeInv`.  Nobody closes, so that events
carry `EPOLLIN` alone and neither a read nor an error branch gives up a batch
(`Stays`).  A client has at most one request that is not delivered
(`OneAtATime`), so that when `client_func` is called nothing is left to read on
the connection, and the worker may drop its event.  Until then a connection with
something to read is on its worker's ready list or in its batch (`Noticed`),
because units that arrive put it on the list, a poll moves it to the batch, and
registering it reports what arrived earlier.

All these assume `ParametersAssumption`: at least one worker, room for one event
in a batch, one of the two IPC types.

`CommStreamProofs` proves `Spec => []` of `TypeOK` (`TypeCorrect`),
`BufferHoldsMessage` (`BufferCorrect`), `ReceiveResult` (`ReceiveCorrect`) and
`SendResult` (`SendCorrect`), for headers, messages, pieces and socket buffers
of any size, any number of messages and both types of connection.  They assume
`ParametersAssumption` and `NULLAssumption` (memory that was not written is not
a byte of a message).  `StreamInv` (`StreamInvariant`) has

* `LocalsInStep`: in each loop the cursor, the counts and the result agree
  (`SendLocals`, `ReceiveLocals`), what a sending call has put on the wire is
  the run of bytes from the first it was given to the last it has written
  (`Puts`), memory is filled up to what was read and no further (`Filled`), and
  a failed call has a peer that closed;
* `PartiesTakeTurns`: requests and answers alternate, whatever pieces they are
  sent in;
* `StreamsInStep`: while a party may still read, the wire to it carries the
  bytes of the last message that were written and not read (`Run`), and it is at
  that message, just before it, or waiting for the next with nothing read.

A receiver takes whatever bytes come as its message.  That they are of that
message is an invariant only because the wire is empty when a message is begun,
and this takes both directions (`ReadyForNext`): a client that sends request
n + 1 has read all of answer n, which the server sends after it has read all of
request n.

`LogLevelsProofs` proves `Spec => []TypeInv` (`TypeCorrect`), `TypeOK` and that
every loop stays in the table of components, and `Spec => []ChangesAddUp`
(`ChangesCorrect`), for any number of components and of handlers, any
environment, and however changes overlap.  `ChangesAddUp` speaks of the table;
`LevelInv` (`LevelInvariant`) also of the changes under way.  What a loop gives,
and what is in the table, is possible (`PossibleOnly`): a handler reads a level
that is, and adds its own signal once.  While no two changes have overlapped
(`due` is known) there is one at most; it gives the level that is due, and the
components it has passed have it (`DueInStep`), but for those with a level of
their own.  So at its end all have it, and nothing else is possible any more.  A
change of one component may be interrupted by a change of all.  It disturbs
nothing, since it never writes `COMPONENT_ALL`, and the component it writes is
then in `own`.

`CommSetupProofs` proves, for any servers, clients and failing calls,
`Spec => []SomebodyServes` (`SomebodyIsServing`) and `Spec => []HandleIsNoticed`
(`HandlesCorrect`).  They assume `ParametersAssumption` and that there is a
server.  `SetupInv` (`SetupInvariant`) has, beside the types,

* `ListensInStep`: a socket that listens is past `listen` and, unless a call
  failed, watched when the acceptor waits;
* `PortInStep`: a TCP server that is refused its port, or cannot listen on it,
  has found another one that listens, and nobody stops listening;
* `PathInStep` and `PathComes`: a path leads to a server that will listen or
  does, and while there is none some server is still to bind it.  The second is
  what unlinking needs: who removes another's path is about to bind, and is
  refused only because a third one has bound it meanwhile;
* `BacklogInStep` and `HandlesKept`: only listening sockets have a backlog, they
  do not block, and what is in the backlog of a watched socket is reported to an
  acceptor that waits, or was left there by an `accept` that failed.

`SomebodyServes` speaks of the end of the starts alone, hence the parts about
every call before. `HandleIsNoticed` is the safety part of
`ConnectedIsAccepted`: whoever has a handle has been accepted, or is in the
backlog of an acceptor that is not waiting yet, that is in its `accept` loop, or
that waits and has an event to come, unless an `accept` has failed and nobody
has connected since. That the acceptor then gets there is fairness, and checked
by the run.

`LogOutputProofs` proves, for any components, threads, names, destinations and
changes, with and without failing allocations, `Spec => []` of `TypeOK`
(`TypeCorrect`), `RecursionBounded` (`RecursionIsBounded`), `NamesKept`
(`NamesCorrect`), `MessagesArrive` (`DestinationsCorrect`) and
`DefaultReachesAll` (`DefaultCorrect`). They assume `ParametersAssumption`:
`LOG`, `LOG_EMERG` and `STDOUT` are among the components, no thread's name is
the value that stands for a missing context, and a buffer is not a path.
`OutputInv` (`OutputInvariant`) has

* `StackInStep`: a thread has two calls at most, and if there are two, the inner
  one is a message of `COMPONENT_LOG_EMERG`, which may not log itself, and the
  outer one waits to be written;
* `ContextInStep`: unless the thread is just naming itself, its context has its
  name, or an allocation failed; while `SetNameFunction` is under way, it has
  the name in hand;
* `TablesInStep`: the type of a component is that of the destination chosen for
  it, and the path or the buffer is that destination if it is one, except
  between the two stores of a change (`HalfChanged`), when the type is already
  the new one;
* `CallsInStep`: a message that is written has a name that may be shown
  (`NameShown`), and one whose component was not changed since it began has the
  type that the table has now (`OnItsWay`);
* `DefaultInStep`: while `SetDefaultLogging` is under way, each component has
  the destination or is still to visit.

`MessagesArrive` compares two readings, of the type at the switch and of the
path or the buffer when the message is written, with one choice. `OnItsWay`
carries the first reading to the second: a change of the component marks the
message `torn` with its first store, and a message that begins between the two
stores is torn from the start, so that the second store meets no other message
of that component. For the loop of `SetDefaultLogging` the lemma
`AllButStdoutVisits` says that it comes to every component but one, and `LeftIs`
that those it has left are still to come.

What is only model-checked:

* `ArgumentsInStep` and `WritesWhatIsAsked` of `LogFormat`. Formats and argument
  lists there are concatenations over a list of conversions, computed by
  recursion, so that both properties for all formats are an induction over the
  format, and over the lengths of the runs of characters that the scan skips;
* all liveness, and `ENABLED`: `EveryInsertReturns`, `EveryEntryTaken`,
  `EveryConnectionServed`, `ImplementsFairService`, `EveryCallReturns`,
  `EveryRequestAnswered`, `TurnKeepsMoving`, `TurnStopsWhereNobodyRuns` and
  `ConnectedIsAccepted`.  The prover does not reason about fairness.

## 6. Not modelled

* Answers that the application sends after `client_func` has returned: the
  message then names a descriptor that may stand for another connection, and
  the library gives the application no way to know.
* Two threads that send on one connection: the code takes no lock there, and
  their frames would interleave.
* `malloc` of a queue entry is not tested in the code, and a failed one of a
  message ends in `assert(0)`.
* A Unix client's `comm_client_send_header` and `_send_data`, which
  `comm_unix_client_init` leaves unset.
* Overflow of lengths: the header carries `msg_len` as it was given.
* Signals that interrupt a message, in `malloc`, `syslog` or `pthread_once`: the
  outcome is the C library's.
* Two threads that register error families: `AddFamilyError` takes no lock.
* Formats that end within a conversion: the scan then passes the terminating
  NUL.
* The text of a log line (dates, host, process) and of a conversion, `syslog`,
  and what becomes of a written line.
* Contexts of threads that end: `cleanup_keys` reads the key again, which the C
  library has cleared by then, so each is leaked.

## 7. Plan

Done: every component with state has its module, and the queue, the turn and
the server their abstract specifications.

Proved: every safety property that a run checks, but for those of `LogFormat`,
for the queue, the server, the stream, the turn, the set-up, the families, the
levels and the output; the safety part of `ConnectedIsAccepted`; and the three
refinements.

Next: an induction over formats for `LogFormat`, and a model of two threads that
send on one connection.
