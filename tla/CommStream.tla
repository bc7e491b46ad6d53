------------------------------ MODULE CommStream ------------------------------
(***************************************************************************)
(* The send and receive calls on one connection, byte by byte:             *)
(* comm_client_send, _send_header, _send_data and _wait in the client,     *)
(* comm_servresp_send, _send_header and _send_data in the server, and the  *)
(* two read loops of comm_worker_run.                                      *)
(*                                                                         *)
(* Every call is one or two copies of one loop, for the header and for the *)
(* data: write (or read) what is left, advance the pointer by what the     *)
(* last call transferred, go on until tot_len bytes are transferred.  The  *)
(* copies differ in the socket they use, write or send, and in what they   *)
(* send, so the loops are modelled once, per party.                        *)
(*                                                                         *)
(* A message has msg_len data bytes.  The sender may pass them in pieces,  *)
(* with msg_write_len telling how many this call sends; 0 means all of     *)
(* them.  The client has one request at a time outstanding.                *)
(*                                                                         *)
(* A byte is the message it belongs to, the message's msg_len and its      *)
(* place in the message; the header's bytes come first.                    *)
(***************************************************************************)
EXTENDS Integers, Sequences

CONSTANTS ipc_types,    \* of COMM_TCP and COMM_UNIX, the types in use
          HeaderLen,    \* sizeof(comm_msg_header_t)
          MaxLen,       \* bound: the longest data of a message
          Capacity,     \* bytes the socket buffers of a direction hold
          MaxMsgs,      \* bound: requests sent
          Closing,      \* may a party close its end?
          NULL

Parties == {"client", "server"}
Peer(p) == IF p = "client" THEN "server" ELSE "client"
Positions == 1..(HeaderLen + MaxLen)

COMM_STATUS_GENERIC == -1
COMM_STATUS_PEER_CLOSE == -2

ASSUME ParametersAssumption ==
    /\ ipc_types \subseteq {"COMM_TCP", "COMM_UNIX"}
    /\ HeaderLen \in Nat \ {0}
    /\ MaxLen \in Nat
    /\ Capacity \in Nat \ {0}
    /\ MaxMsgs \in Nat
    /\ Closing \in BOOLEAN

Bytes == [seq : 1..MaxMsgs, len : 0..MaxLen, pos : Positions]

ASSUME NULLAssumption == NULL \notin Bytes

VARIABLES ipc_type,   \* the type of the connection
          wire,       \* the bytes each party has sent and its peer not read
          closed,     \* the parties that have closed their end
          tx,         \* each party's sending call
          rx          \* each party's receiving call

vars == <<wire, closed, tx, rx>>

\* pc is "idle", "header", "data" or "returned"; op names the call.  given
\* is how many data bytes of the message the calls so far were given, this
\* one included, and base where the piece of this call begins.  put is history:
\* the bytes this call has put on the wire.
Senders == [pc : {"idle", "header", "data", "returned"},
            op : {"send", "send_header", "send_data"},
            seq : 0..MaxMsgs, len : 0..MaxLen, given : 0..MaxLen,
            base : 0..(HeaderLen + MaxLen), tot_len : 0..(HeaderLen + MaxLen),
            cursor : Nat, write_count : Nat, count : Nat, ret : Int,
            put : Seq(Bytes)]

\* buffer is the memory of msg_header and, after it, of data.
Receivers == [pc : {"idle", "header", "data", "returned"},
              seq : 0..MaxMsgs, base : 0..HeaderLen,
              tot_len : 0..(HeaderLen + MaxLen),
              cursor : Nat, read_count : Nat, count : Nat, ret : Int,
              buffer : [Positions -> Bytes \cup {NULL}]]

Min(a, b) == IF a < b THEN a ELSE b

Init ==
    /\ ipc_type \in ipc_types
    /\ wire = [p \in Parties |-> << >>]
    /\ closed = {}
    /\ tx = [p \in Parties |->
               [pc |-> "idle", op |-> "send", seq |-> 0, len |-> 0,
                given |-> 0, base |-> 0, tot_len |-> 0, cursor |-> 0,
                write_count |-> 0, count |-> 0, ret |-> 0, put |-> << >>]]
    /\ rx = [p \in Parties |->
               [pc |-> "idle", seq |-> 0, base |-> 0, tot_len |-> 0,
                cursor |-> 0, read_count |-> 0, count |-> 0, ret |-> 0,
                buffer |-> [i \in Positions |-> NULL]]]

-----------------------------------------------------------------------------
(* The calls                                                               *)

\* A party may begin message n: the client when it has received the answer
\* to every request before, the server when it has received request n.
MayBegin(p, n) ==
    /\ n <= MaxMsgs
    /\ rx[p].pc = "idle"
    /\ rx[p].seq = IF p = "client" THEN n - 1 ELSE n

\* The party has no call in progress, and none has failed.
Free(p) ==
    /\ p \notin closed
    /\ tx[p].pc = "idle"
    /\ tx[p].ret >= 0

\* A call that sends a header first; w is msg_write_len.
BeginHeader(p, op, len, w) ==
    /\ Free(p)
    /\ tx[p].given = tx[p].len
    /\ MayBegin(p, tx[p].seq + 1)
    /\ tx' = [tx EXCEPT ![p] =
                [pc |-> "header", op |-> op, seq |-> tx[p].seq + 1,
                 len |-> len,
                 given |-> IF op = "send_header" THEN 0
                           ELSE IF w = 0 THEN len ELSE w,
                 base |-> 0, tot_len |-> HeaderLen, cursor |-> 0,
                 write_count |-> 0, count |-> 0, ret |-> 0, put |-> << >>]]
    /\ UNCHANGED <<wire, closed, rx>>

\* A call that sends a piece of the data of the message begun before; a
\* piece is never empty, since msg_write_len = 0 stands for msg_len.
BeginData(p, w) ==
    /\ Free(p)
    /\ w \in 1..(tx[p].len - tx[p].given)
    /\ tx' = [tx EXCEPT ![p] =
                [@ EXCEPT !.pc = "data", !.op = "send_data",
                          !.given = tx[p].given + w,
                          !.base = HeaderLen + tx[p].given, !.tot_len = w,
                          !.cursor = 0, !.write_count = 0, !.count = 0,
                          !.ret = 0, !.put = << >>]]
    /\ UNCHANGED <<wire, closed, rx>>

comm_tcp_client_send(len, w) ==
    ipc_type = "COMM_TCP" /\ BeginHeader("client", "send", len, w)
comm_tcp_client_send_header(len) ==
    ipc_type = "COMM_TCP" /\ BeginHeader("client", "send_header", len, 0)
comm_tcp_client_send_data(w) ==
    ipc_type = "COMM_TCP" /\ BeginData("client", w)

\* A Unix client has no calls for the pieces: it sends whole messages.
comm_unix_client_send(len) ==
    ipc_type = "COMM_UNIX" /\ BeginHeader("client", "send", len, 0)

comm_tcp_servresp_send(len, w) ==
    ipc_type = "COMM_TCP" /\ BeginHeader("server", "send", len, w)
comm_tcp_servresp_send_header(len) ==
    ipc_type = "COMM_TCP" /\ BeginHeader("server", "send_header", len, 0)
comm_tcp_servresp_send_data(w) ==
    ipc_type = "COMM_TCP" /\ BeginData("server", w)

comm_unix_servresp_send(len, w) ==
    ipc_type = "COMM_UNIX" /\ BeginHeader("server", "send", len, w)
comm_unix_servresp_send_header(len) ==
    ipc_type = "COMM_UNIX" /\ BeginHeader("server", "send_header", len, 0)
comm_unix_servresp_send_data(w) ==
    ipc_type = "COMM_UNIX" /\ BeginData("server", w)

\* The calls, by the name they have in comm_client_t and comm_server_t.
comm_client_send(len, w) ==
    comm_tcp_client_send(len, w) \/ (w = 0 /\ comm_unix_client_send(len))
comm_client_send_header(len) == comm_tcp_client_send_header(len)
comm_client_send_data(w) == comm_tcp_client_send_data(w)
comm_servresp_send(len, w) ==
    comm_tcp_servresp_send(len, w) \/ comm_unix_servresp_send(len, w)
comm_servresp_send_header(len) ==
    comm_tcp_servresp_send_header(len) \/ comm_unix_servresp_send_header(len)
comm_servresp_send_data(w) ==
    comm_tcp_servresp_send_data(w) \/ comm_unix_servresp_send_data(w)

\* msg_write_len is 0, or how much of the data this call sends.
SendCall ==
    \/ \E len \in 0..MaxLen :
          \/ comm_client_send_header(len)
          \/ comm_servresp_send_header(len)
          \/ \E w \in 0..len :
                comm_client_send(len, w) \/ comm_servresp_send(len, w)
    \/ \E w \in 1..MaxLen :
          comm_client_send_data(w) \/ comm_servresp_send_data(w)

-----------------------------------------------------------------------------
(* The sending loop                                                        *)

InLoop(call) == call.pc \in {"header", "data"} /\ call.count < call.tot_len
LoopDone(call) == call.pc \in {"header", "data"} /\ call.count = call.tot_len

\* The n bytes of the message that start cursor bytes into this loop's part.
Chunk(call, cursor, n) ==
    [i \in 1..n |-> [seq |-> call.seq, len |-> call.len,
                     pos |-> call.base + cursor + i]]

\* Mutant of WriteSome: the pointer is advanced by what is left rather than
\* by what the last write took.
WriteSomeRestarts(p) ==
    /\ InLoop(tx[p]) /\ p \notin closed
    /\ \E n \in 1..Min(tx[p].tot_len - tx[p].count,
                       Capacity - Len(wire[p])) :
          /\ wire' = [wire EXCEPT ![p] = @ \o Chunk(tx[p], 0, n)]
          /\ tx' = [tx EXCEPT ![p].write_count = n,
                              ![p].count = @ + n, ![p].ret = @ + n,
                              ![p].put = @ \o Chunk(tx[p], 0, n)]
    /\ UNCHANGED <<closed, rx>>

\* Mutant of WriteSome: the result is what the last write took, not the sum.
WriteSomeLastOnly(p) ==
    /\ InLoop(tx[p]) /\ p \notin closed
    /\ LET cursor == tx[p].cursor + tx[p].write_count
       IN  \E n \in 1..Min(tx[p].tot_len - tx[p].count,
                           Capacity - Len(wire[p])) :
              /\ wire' = [wire EXCEPT ![p] = @ \o Chunk(tx[p], cursor, n)]
              /\ tx' = [tx EXCEPT ![p].cursor = cursor, ![p].write_count = n,
                                  ![p].count = @ + n, ![p].ret = n,
                                  ![p].put = @ \o Chunk(tx[p], cursor, n)]
    /\ UNCHANGED <<closed, rx>>

\* write takes 1 to write_len bytes, as the socket buffer has room.
WriteSome(p) ==
    /\ InLoop(tx[p]) /\ p \notin closed
    /\ LET cursor == tx[p].cursor + tx[p].write_count
       IN  \E n \in 1..Min(tx[p].tot_len - tx[p].count,
                           Capacity - Len(wire[p])) :
              /\ wire' = [wire EXCEPT ![p] = @ \o Chunk(tx[p], cursor, n)]
              /\ tx' = [tx EXCEPT ![p].cursor = cursor, ![p].write_count = n,
                                  ![p].count = @ + n, ![p].ret = @ + n,
                                  ![p].put = @ \o Chunk(tx[p], cursor, n)]
    /\ UNCHANGED <<closed, rx>>

\* Mutant of WriteRetries: write_count keeps its last value, so the pointer
\* is advanced twice.
WriteRetriesTwice(p) ==
    /\ InLoop(tx[p]) /\ p \notin closed
    /\ tx[p].cursor < HeaderLen + MaxLen
    /\ tx' = [tx EXCEPT ![p].cursor = @ + tx[p].write_count]
    /\ UNCHANGED <<wire, closed, rx>>

\* write returns 0, or -1 with EAGAIN or EINTR: the loop goes round with
\* write_count = 0.
WriteRetries(p) ==
    /\ InLoop(tx[p]) /\ p \notin closed
    /\ tx' = [tx EXCEPT ![p].cursor = @ + tx[p].write_count,
                        ![p].write_count = 0]
    /\ UNCHANGED <<wire, closed, rx>>

\* write fails, because the peer has closed.
WriteFails(p) ==
    /\ InLoop(tx[p]) /\ p \notin closed
    /\ Peer(p) \in closed
    /\ tx' = [tx EXCEPT ![p].pc = "returned", ![p].ret = COMM_STATUS_GENERIC]
    /\ UNCHANGED <<wire, closed, rx>>

\* Mutant of HeaderSent: the call ends without the data.
HeaderSentReturns(p) ==
    /\ LoopDone(tx[p]) /\ p \notin closed
    /\ tx[p].pc = "header"
    /\ tx' = [tx EXCEPT ![p].pc = "returned"]
    /\ UNCHANGED <<wire, closed, rx>>

\* The header loop is over: send goes on with the data that this call sends.
HeaderSent(p) ==
    /\ LoopDone(tx[p]) /\ p \notin closed
    /\ tx[p].pc = "header"
    /\ tx' = [tx EXCEPT ![p] =
                IF tx[p].op = "send"
                THEN [@ EXCEPT !.pc = "data", !.base = HeaderLen,
                               !.tot_len = tx[p].given, !.cursor = 0,
                               !.write_count = 0, !.count = 0]
                ELSE [@ EXCEPT !.pc = "returned"]]
    /\ UNCHANGED <<wire, closed, rx>>

DataSent(p) ==
    /\ LoopDone(tx[p]) /\ p \notin closed
    /\ tx[p].pc = "data"
    /\ tx' = [tx EXCEPT ![p].pc = "returned"]
    /\ UNCHANGED <<wire, closed, rx>>

\* The caller takes the result.
SendReturns(p) ==
    /\ tx[p].pc = "returned"
    /\ tx' = [tx EXCEPT ![p].pc = "idle"]
    /\ UNCHANGED <<wire, closed, rx>>

-----------------------------------------------------------------------------
(* The receiving loops                                                     *)

\* A client waits for the answer to the request it has sent, a worker for
\* the next request (an EPOLLIN event tells it that bytes are there).
BeginReceive(p) ==
    /\ p \notin closed
    /\ rx[p].pc = "idle" /\ rx[p].ret >= 0
    /\ tx[p].pc = "idle" /\ tx[p].given = tx[p].len
    /\ rx[p].seq < MaxMsgs
    /\ tx[p].seq = IF p = "client" THEN rx[p].seq + 1 ELSE rx[p].seq
    /\ rx' = [rx EXCEPT ![p] =
                [pc |-> "header", seq |-> rx[p].seq + 1, base |-> 0,
                 tot_len |-> HeaderLen, cursor |-> 0, read_count |-> 0,
                 count |-> 0, ret |-> 0,
                 buffer |-> [i \in Positions |-> NULL]]]
    /\ UNCHANGED <<wire, closed, tx>>

comm_tcp_client_wait == ipc_type = "COMM_TCP" /\ BeginReceive("client")
comm_unix_client_wait == ipc_type = "COMM_UNIX" /\ BeginReceive("client")
comm_client_wait == comm_tcp_client_wait \/ comm_unix_client_wait
comm_worker_read == wire["client"] # << >> /\ BeginReceive("server")

\* read returns 1 to read_len bytes, as they have arrived, and stores them
\* at the pointer.
ReadSome(p) ==
    /\ InLoop(rx[p]) /\ p \notin closed
    /\ LET in == wire[Peer(p)]
           at == rx[p].base + rx[p].cursor + rx[p].read_count
       IN  \E n \in 1..Min(rx[p].tot_len - rx[p].count, Len(in)) :
              /\ wire' = [wire EXCEPT ![Peer(p)] = SubSeq(in, n + 1, Len(in))]
              /\ rx' = [rx EXCEPT
                    ![p].cursor = @ + rx[p].read_count,
                    ![p].read_count = n,
                    ![p].count = @ + n,
                    ![p].ret = @ + n,
                    ![p].buffer = [i \in Positions |->
                        IF i \in (at + 1)..(at + n) THEN in[i - at] ELSE @[i]]]
    /\ UNCHANGED <<closed, tx>>

\* read returns -1 with EAGAIN or EINTR: the loop goes round.
ReadRetries(p) ==
    /\ InLoop(rx[p]) /\ p \notin closed
    /\ rx' = [rx EXCEPT ![p].cursor = @ + rx[p].read_count,
                        ![p].read_count = 0]
    /\ UNCHANGED <<wire, closed, tx>>

\* Mutant of PeerClosed: the loop ends with what was read so far.
PeerClosedBreaks(p) ==
    /\ InLoop(rx[p]) /\ p \notin closed
    /\ wire[Peer(p)] = << >> /\ Peer(p) \in closed
    /\ rx' = [rx EXCEPT ![p].pc = "returned"]
    /\ UNCHANGED <<wire, closed, tx>>

\* Mutant of PeerClosed: a read that returns 0 is retried like EAGAIN.
PeerClosedRetries(p) ==
    /\ InLoop(rx[p]) /\ p \notin closed
    /\ wire[Peer(p)] = << >> /\ Peer(p) \in closed
    /\ UNCHANGED vars

\* read returns 0: the peer has closed and every byte was read.  Or it fails,
\* because the connection was reset.
PeerClosed(p) ==
    /\ InLoop(rx[p]) /\ p \notin closed
    /\ wire[Peer(p)] = << >> /\ Peer(p) \in closed
    /\ \E status \in {COMM_STATUS_PEER_CLOSE, COMM_STATUS_GENERIC} :
          rx' = [rx EXCEPT ![p].pc = "returned", ![p].ret = status]
    /\ UNCHANGED <<wire, closed, tx>>

\* The msg_len that the header in the buffer tells.
msg_len(call) == call.buffer[HeaderLen].len

HeaderReceived(p) ==
    /\ LoopDone(rx[p]) /\ p \notin closed
    /\ rx[p].pc = "header"
    /\ rx' = [rx EXCEPT ![p] =
                [@ EXCEPT !.pc = "data", !.base = HeaderLen,
                          !.tot_len = msg_len(rx[p]), !.cursor = 0,
                          !.read_count = 0, !.count = 0]]
    /\ UNCHANGED <<wire, closed, tx>>

DataReceived(p) ==
    /\ LoopDone(rx[p]) /\ p \notin closed
    /\ rx[p].pc = "data"
    /\ rx' = [rx EXCEPT ![p].pc = "returned"]
    /\ UNCHANGED <<wire, closed, tx>>

ReceiveReturns(p) ==
    /\ rx[p].pc = "returned"
    /\ rx' = [rx EXCEPT ![p].pc = "idle"]
    /\ UNCHANGED <<wire, closed, tx>>

\* A party closes its end, or its process dies: its calls stop where they
\* are.  What it has sent can still be read.
CloseEnd(p) ==
    /\ Closing
    /\ p \notin closed
    /\ closed' = closed \cup {p}
    /\ UNCHANGED <<wire, tx, rx>>

-----------------------------------------------------------------------------

SendStep(p) ==
    WriteSome(p) \/ WriteFails(p) \/ HeaderSent(p) \/ DataSent(p)
        \/ SendReturns(p)

ReceiveStep(p) ==
    ReadSome(p) \/ PeerClosed(p) \/ HeaderReceived(p) \/ DataReceived(p)
        \/ ReceiveReturns(p)

Next ==
    /\ UNCHANGED ipc_type
    /\ \/ SendCall
       \/ comm_client_wait
       \/ comm_worker_read
       \/ \E p \in Parties :
             SendStep(p) \/ ReceiveStep(p) \/ WriteRetries(p) \/ ReadRetries(p)
                \/ CloseEnd(p)

Spec == Init /\ [][Next]_<<ipc_type, vars>>

\* A loop that can transfer does so in the end, however often it is made to
\* retry; callers go on calling; an event tells the worker of a request.
Fairness ==
    /\ \A p \in Parties : WF_vars(SendStep(p)) /\ WF_vars(ReceiveStep(p))
    /\ WF_vars(SendCall)
    /\ WF_vars(comm_client_wait)
    /\ WF_vars(comm_worker_read)

FairSpec == Spec /\ Fairness

-----------------------------------------------------------------------------
(* Properties                                                              *)

\* Type invariant.
TypeOK ==
    /\ ipc_type \in ipc_types
    /\ wire \in [Parties -> Seq(Bytes)]
    /\ closed \in SUBSET Parties
    /\ tx \in [Parties -> Senders]
    /\ rx \in [Parties -> Receivers]

\* The bytes received so far of the message being received.
Got(call) == IF call.pc = "header" THEN call.count ELSE HeaderLen + call.count

\* However writes and reads split the stream, however often they are made to
\* retry and whatever pieces the sender uses, the receiver's memory holds the
\* first bytes of the message it is to receive, each in its place, and the
\* bytes of no other message.
BufferHoldsMessage ==
    \A p \in Parties : rx[p].pc \in {"header", "data"} =>
        \A i \in Positions :
            IF i <= Got(rx[p])
            THEN rx[p].buffer[i] # NULL /\ rx[p].buffer[i].seq = rx[p].seq
                    /\ rx[p].buffer[i].pos = i
            ELSE rx[p].buffer[i] = NULL

\* A receiving call returns the length of the message, header included, with
\* the whole message in memory, or a negative status when the peer closed
\* before the whole message arrived.
ReceiveResult ==
    \A p \in Parties : rx[p].pc = "returned" =>
        IF rx[p].ret < 0 THEN Peer(p) \in closed
        ELSE /\ rx[p].buffer[HeaderLen] # NULL
             /\ rx[p].ret = HeaderLen + msg_len(rx[p])
             /\ \A i \in 1..rx[p].ret : rx[p].buffer[i] # NULL

\* The bytes of a message behind the first a and up to the b-th.
Run(call, a, b) == [i \in 1..(b - a) |->
                      [seq |-> call.seq, len |-> call.len, pos |-> a + i]]

\* Where the bytes a sending call is given begin in their message.
Start(call) == IF call.op = "send_data" THEN call.base ELSE 0

\* The bytes a sending call is given, by its arguments alone: the header, the
\* header and the first given bytes of data, or a piece of the data.
Asked(call) == Run(call, Start(call), HeaderLen + call.given)

\* However its writes are split and retried, a sending call that returns has
\* put on the wire exactly the bytes it was given, each once and in their
\* order, and returns their number; or it returns -1, and the peer has
\* closed.
SendResult ==
    \A p \in Parties : tx[p].pc = "returned" =>
        IF tx[p].ret = COMM_STATUS_GENERIC THEN Peer(p) \in closed
        ELSE tx[p].put = Asked(tx[p]) /\ tx[p].ret = Len(Asked(tx[p]))

\* With one request outstanding at a time no call waits forever, however
\* small the socket buffers are: the two parties never wait for each other
\* to make room.
EveryCallReturns ==
    \A p \in Parties :
        /\ tx[p].pc # "idle" ~> tx[p].pc = "idle" \/ p \in closed
        /\ rx[p].pc # "idle" ~> rx[p].pc = "idle" \/ p \in closed

\* Every request is answered unless a party closes.
EveryRequestAnswered ==
    \A n \in 1..MaxMsgs :
        tx["client"].seq = n ~>
            \/ rx["client"].seq = n /\ rx["client"].pc = "idle"
            \/ closed # {}
=============================================================================
