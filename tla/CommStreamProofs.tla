--------------------------- MODULE CommStreamProofs ---------------------------
(***************************************************************************)
(* Proofs about CommStream, for headers, messages and socket buffers of    *)
(* any size and any number of messages: whatever is sent in pieces and     *)
(* read in pieces is received whole, and the calls return what they say.   *)
(***************************************************************************)
EXTENDS CommStream, SequenceTheorems, TLAPS

Busy(call) == call.pc \in {"header", "data"}

\* The bytes written of the last message begun, and its bytes in all.
Written(call) == IF call.pc = "header" THEN call.count
                 ELSE IF call.pc = "data" THEN call.base + call.count
                 ELSE IF call.seq = 0 THEN 0 ELSE HeaderLen + call.given
Whole(call) == IF call.seq = 0 THEN 0 ELSE HeaderLen + call.len

\* The bytes of the sender's last message that the receiver has read.
Taken(send, recv) == IF recv.seq < send.seq THEN 0
                     ELSE IF recv.seq = send.seq /\ Busy(recv) THEN Got(recv)
                     ELSE Whole(send)

\* What a sending call has put on the wire: the bytes it was given, from the
\* first it was given to the last it has written.
Puts(call) ==
    /\ Busy(call) => call.put = Run(call, Start(call), Written(call))
    /\ call.pc = "returned" /\ call.ret # COMM_STATUS_GENERIC =>
          /\ Start(call) \in Nat /\ Start(call) <= HeaderLen + call.given
          /\ call.put = Run(call, Start(call), HeaderLen + call.given)
          /\ call.ret = HeaderLen + call.given - Start(call)

\* The locals of a sending call.
SendLocals(call) ==
    /\ call.given <= call.len
    /\ call.seq = 0 => call.len = 0 /\ call.pc = "idle"
    /\ Busy(call) => /\ call.cursor + call.write_count = call.count
                     /\ call.count <= call.tot_len
    /\ call.pc = "header" =>
          /\ call.op \in {"send", "send_header"}
          /\ call.op = "send_header" => call.given = 0
          /\ call.base = 0 /\ call.tot_len = HeaderLen
          /\ call.ret = call.count
    /\ call.pc = "data" =>
          /\ call.base + call.tot_len = HeaderLen + call.given
          /\ \/ /\ call.op = "send" /\ call.base = HeaderLen
                /\ call.ret = HeaderLen + call.count
             \/ /\ call.op = "send_data"
                /\ call.ret = call.count
    /\ Puts(call)

\* The memory of a receiving call: the bytes it has got, and no others.
Filled(call) ==
    \A i \in Positions :
        IF i <= Got(call)
        THEN /\ call.buffer[i] # NULL /\ call.buffer[i].seq = call.seq
             /\ call.buffer[i].pos = i
        ELSE call.buffer[i] = NULL

\* The locals of a receiving call.
ReceiveLocals(call) ==
    /\ Busy(call) => /\ call.cursor + call.read_count = call.count
                     /\ call.count <= call.tot_len
                     /\ call.ret = Got(call)
                     /\ Filled(call)
    /\ call.pc = "header" => call.base = 0 /\ call.tot_len = HeaderLen
    /\ call.pc = "data" => /\ call.base = HeaderLen
                           /\ call.tot_len = msg_len(call)
    /\ call.pc = "returned" /\ call.ret >= 0 =>
          /\ call.buffer[HeaderLen] # NULL
          /\ call.ret = HeaderLen + msg_len(call)
          /\ \A i \in 1..call.ret : call.buffer[i] # NULL

LocalsInStep ==
    \A p \in Parties :
        /\ SendLocals(tx[p]) /\ ReceiveLocals(rx[p])
        /\ tx[p].ret < 0 => ~Busy(tx[p]) /\ Peer(p) \in closed
        /\ rx[p].ret < 0 => ~Busy(rx[p]) /\ Peer(p) \in closed

\* A party sends and receives in turn: the client's request n comes before
\* the answer n, the server's after it.
Before(p, recv) == IF p = "client" THEN recv.seq ELSE recv.seq - 1
TakesTurns(p, send, recv) ==
    /\ send.seq \in {Before(p, recv), Before(p, recv) + 1}
    /\ recv.pc # "idle" => send.seq = Before(p, recv)
    /\ send.pc # "idle" \/ send.given # send.len =>
          send.seq = Before(p, recv) + 1 /\ recv.pc = "idle"

PartiesTakeTurns == \A p \in Parties : TakesTurns(p, tx[p], rx[p])

\* The wire carries what was written of the sender's last message and not
\* read yet; the receiver is at that message, before it, or already waits
\* for the next.
Stream(send, recv, w) ==
    /\ \/ recv.seq = send.seq - 1 /\ ~Busy(recv)
       \/ recv.seq = send.seq
       \/ recv.seq = send.seq + 1 /\ recv.pc = "header" /\ recv.count = 0
    /\ Taken(send, recv) <= Written(send)
    /\ w = Run(send, Taken(send, recv), Written(send))
    /\ recv.seq = send.seq /\ Busy(recv) =>
          \A i \in 1..Got(recv) : recv.buffer[i].len = send.len

\* So it is for as long as the receiver may still read.
Reads(p) == p \notin closed /\ rx[p].ret >= 0
StreamsInStep ==
    \A p \in Parties : Reads(Peer(p)) => Stream(tx[p], rx[Peer(p)], wire[p])

StreamInv == TypeOK /\ LocalsInStep /\ PartiesTakeTurns /\ StreamsInStep

-----------------------------------------------------------------------------
(* Runs of bytes                                                           *)

\* Every run of a message's bytes, of whatever place.
Places(call) == {[seq |-> call.seq, len |-> call.len, pos |-> i] : i \in Int}

LEMMA RunProperties ==
    ASSUME NEW call, NEW a \in Nat, NEW b \in Nat, a <= b
    PROVE  /\ Run(call, a, b) \in Seq(Places(call))
           /\ Len(Run(call, a, b)) = b - a
           /\ \A i \in 1..(b - a) : Run(call, a, b)[i] =
                 [seq |-> call.seq, len |-> call.len, pos |-> a + i]
<1>1. \A i \in 1..(b - a) :
         [seq |-> call.seq, len |-> call.len, pos |-> a + i] \in Places(call)
  BY DEF Places
<1>2. Run(call, a, b) \in [1..(b - a) -> Places(call)] /\ b - a \in Nat
  BY <1>1 DEF Run
<1>3. Run(call, a, b) \in Seq(Places(call))
  BY <1>2
<1> QED
  BY <1>2, <1>3 DEF Run

\* What is written next continues the run.
LEMMA RunContinues ==
    ASSUME NEW call, NEW a \in Nat, NEW b \in Nat, NEW n \in Nat, a <= b
    PROVE  Run(call, a, b) \o Run(call, b, b + n) = Run(call, a, b + n)
<1> DEFINE S == Places(call)
           s == Run(call, a, b)
           t == Run(call, b, b + n)
           u == Run(call, a, b + n)
<1>1. /\ s \in Seq(S) /\ Len(s) = b - a
      /\ \A i \in 1..(b - a) :
            s[i] = [seq |-> call.seq, len |-> call.len, pos |-> a + i]
  BY ONLY a \in Nat, b \in Nat, a <= b, RunProperties, Zenon
<1>2. /\ t \in Seq(S) /\ Len(t) = n
      /\ \A i \in 1..n :
            t[i] = [seq |-> call.seq, len |-> call.len, pos |-> b + i]
  <2> DEFINE k == b + n
  <2>1. k \in Nat /\ b <= k /\ k - b = n
    OBVIOUS
  <2> HIDE DEF k
  <2>2. /\ Run(call, b, k) \in Seq(S) /\ Len(Run(call, b, k)) = k - b
        /\ \A i \in 1..(k - b) : Run(call, b, k)[i] =
              [seq |-> call.seq, len |-> call.len, pos |-> b + i]
    BY ONLY b \in Nat, <2>1, RunProperties, Zenon
  <2> HIDE DEF S
  <2>3. t = Run(call, b, k)
    BY DEF k
  <2> HIDE DEF t
  <2> QED
    BY ONLY <2>1, <2>2, <2>3
<1>3. /\ u \in Seq(S) /\ Len(u) = b + n - a
      /\ \A i \in 1..(b + n - a) :
            u[i] = [seq |-> call.seq, len |-> call.len, pos |-> a + i]
  <2> DEFINE k == b + n
  <2>1. k \in Nat /\ a <= k
    OBVIOUS
  <2> HIDE DEF k
  <2>2. /\ Run(call, a, k) \in Seq(S) /\ Len(Run(call, a, k)) = k - a
        /\ \A i \in 1..(k - a) : Run(call, a, k)[i] =
              [seq |-> call.seq, len |-> call.len, pos |-> a + i]
    BY ONLY a \in Nat, <2>1, RunProperties, Zenon
  <2> QED
    BY ONLY <2>2 DEF k, u
<1> HIDE DEF S, s, t, u
<1>4. /\ s \o t \in Seq(S) /\ Len(s \o t) = Len(s) + Len(t)
      /\ \A i \in 1 .. Len(s) + Len(t) :
            (s \o t)[i] = IF i <= Len(s) THEN s[i] ELSE t[i - Len(s)]
  BY <1>1, <1>2, ConcatProperties
<1>5. ASSUME NEW i \in 1..(b + n - a) PROVE (s \o t)[i] = u[i]
  <2>1. CASE i <= b - a
    <3>1. (s \o t)[i] = s[i] /\ i \in 1..(b - a)
      BY <1>1, <1>2, <1>4, <2>1
    <3> QED
      BY <1>1, <1>3, <3>1
  <2>2. CASE ~(i <= b - a)
    <3>1. (s \o t)[i] = t[i - (b - a)] /\ i - (b - a) \in 1..n
          /\ b + (i - (b - a)) = a + i
      BY <1>1, <1>2, <1>4, <2>2
    <3> QED
      BY <1>2, <1>3, <3>1
  <2> QED
    BY <2>1, <2>2
<1>6. Len(s \o t) = b + n - a
  BY <1>1, <1>2, <1>4
<1>7. s \o t = u
  BY <1>3, <1>4, <1>5, <1>6, SeqEqual
<1> QED
  BY <1>7 DEF s, t, u

\* What is left when n bytes have been read.
LEMMA RunShortens ==
    ASSUME NEW call, NEW a \in Nat, NEW b \in Nat, NEW n \in Nat, a + n <= b
    PROVE  SubSeq(Run(call, a, b), n + 1, Len(Run(call, a, b)))
               = Run(call, a + n, b)
<1> DEFINE S == Places(call)
           s == Run(call, a, b)
           m == Len(s)
           t == Run(call, a + n, b)
           u == SubSeq(s, n + 1, m)
<1>1. /\ s \in Seq(S) /\ m = b - a
      /\ \A i \in 1..(b - a) :
            s[i] = [seq |-> call.seq, len |-> call.len, pos |-> a + i]
  <2>1. a <= b
    OBVIOUS
  <2> QED
    BY ONLY a \in Nat, b \in Nat, <2>1, RunProperties, Zenon
<1>2. /\ t \in Seq(S) /\ Len(t) = b - (a + n)
      /\ \A i \in 1..(b - (a + n)) :
            t[i] = [seq |-> call.seq, len |-> call.len, pos |-> a + n + i]
  <2>1. a + n \in Nat /\ a + n <= b
    OBVIOUS
  <2> QED
    BY ONLY b \in Nat, <2>1, RunProperties, Zenon
<1>3. /\ u \in Seq(S)
      /\ Len(u) = IF n + 1 <= m THEN m - (n + 1) + 1 ELSE 0
      /\ \A i \in 1..(m - (n + 1) + 1) : u[i] = s[n + 1 + i - 1]
  <2>1. \A i \in (n + 1)..m : s[i] \in S
    <3> HIDE DEF S
    <3> QED
      BY <1>1, LenProperties
  <2>2. n + 1 \in Int /\ m \in Int
    BY <1>1
  <2> HIDE DEF S, s, m
  <2> QED
    BY <2>1, <2>2, SubSeqProperties
<1> HIDE DEF S, s, m, t, u
<1>4. Len(u) = b - (a + n)
  BY <1>1, <1>3
<1>5. ASSUME NEW i \in 1..Len(u) PROVE u[i] = t[i]
  <2>1. i \in 1..(m - (n + 1) + 1) /\ n + 1 + i - 1 = n + i
        /\ n + i \in 1..(b - a) /\ a + (n + i) = a + n + i
        /\ i \in 1..(b - (a + n))
    BY <1>1, <1>4, SMTT(30)
  <2> QED
    BY <1>1, <1>2, <1>3, <2>1
<1>6. u = t
  BY <1>2, <1>3, <1>4, <1>5, SeqEqual
<1> QED
  BY <1>6 DEF m, s, t, u

LEMMA RunEmpty ==
    ASSUME NEW call, NEW a \in Nat
    PROVE  Run(call, a, a) = << >>
<1>1. a <= a /\ a - a = 0
  OBVIOUS
<1>2. Run(call, a, a) \in Seq(Places(call)) /\ Len(Run(call, a, a)) = a - a
  BY ONLY a \in Nat, <1>1, RunProperties, Zenon
<1> HIDE DEF Run
<1> QED
  BY <1>1, <1>2, EmptySeq

-----------------------------------------------------------------------------
(* One direction                                                           *)

LEMMA PeerOfParty ==
    ASSUME NEW p \in Parties
    PROVE  /\ Peer(p) \in Parties /\ Peer(p) # p /\ Peer(Peer(p)) = p
           /\ \A q \in Parties : q = p \/ q = Peer(p)
BY DEF Parties, Peer

LEMMA SenderFields ==
    ASSUME NEW send \in Senders
    PROVE  /\ send.seq \in Nat /\ send.seq \in 0..MaxMsgs
           /\ send.len \in Nat /\ send.len \in 0..MaxLen
           /\ send.given \in Nat /\ send.given \in 0..MaxLen
           /\ send.base \in Nat /\ send.tot_len \in Nat
           /\ send.cursor \in Nat /\ send.write_count \in Nat
           /\ send.count \in Nat /\ send.ret \in Int
           /\ HeaderLen \in Nat /\ HeaderLen # 0 /\ MaxLen \in Nat
<1>1. /\ send.seq \in 0..MaxMsgs /\ send.len \in 0..MaxLen
      /\ send.given \in 0..MaxLen /\ send.base \in 0..(HeaderLen + MaxLen)
      /\ send.tot_len \in 0..(HeaderLen + MaxLen)
      /\ send.cursor \in Nat /\ send.write_count \in Nat
      /\ send.count \in Nat /\ send.ret \in Int
  BY DEF Senders
<1> QED
  BY <1>1, ParametersAssumption

LEMMA WrittenBounds ==
    ASSUME NEW send \in Senders, SendLocals(send)
    PROVE  /\ Written(send) \in Nat /\ Whole(send) \in Nat
           /\ Written(send) <= Whole(send)
BY SenderFields DEF Written, Whole, SendLocals, Busy

LEMMA GotTaken ==
    ASSUME NEW send \in Senders, NEW recv \in Receivers
    PROVE  /\ Got(recv) \in Nat /\ Whole(send) \in Nat
           /\ Taken(send, recv) \in Nat
<1>1. Got(recv) \in Nat /\ Whole(send) \in Nat
  BY SenderFields, ParametersAssumption DEF Got, Whole, Receivers
<1> QED
  BY <1>1 DEF Taken

\* A step of the sender that writes nothing.
LEMMA StreamStays ==
    ASSUME NEW send, NEW next, NEW recv, NEW w, Stream(send, recv, w),
           next.seq = send.seq, next.len = send.len,
           Written(next) = Written(send)
    PROVE  Stream(next, recv, w)
<1>1. Whole(next) = Whole(send)
  BY DEF Whole
<1>2. Taken(next, recv) = Taken(send, recv)
  BY <1>1 DEF Taken
<1>3. \A a, b : Run(next, a, b) = Run(send, a, b)
  BY DEF Run
<1> QED
  BY <1>2, <1>3 DEF Stream

\* A step of the sender that writes n bytes.
LEMMA StreamGrows ==
    ASSUME NEW send \in Senders, NEW next, NEW recv \in Receivers, NEW w,
           Stream(send, recv, w), SendLocals(send), NEW n \in Nat,
           next.seq = send.seq, next.len = send.len,
           Written(next) = Written(send) + n
    PROVE  Stream(next, recv,
                  w \o Run(send, Written(send), Written(send) + n))
<1> DEFINE a == Taken(send, recv)
           b == Written(send)
<1>1. a \in Nat /\ b \in Nat /\ a <= b
  BY WrittenBounds, GotTaken DEF Stream
<1>2. Whole(next) = Whole(send)
  BY DEF Whole
<1>3. Taken(next, recv) = a
  BY <1>2 DEF Taken
<1>4. \A i, j : Run(next, i, j) = Run(send, i, j)
  BY DEF Run
<1>5. w = Run(send, a, b)
  BY DEF Stream
<1>6. Run(send, a, b) \o Run(send, b, b + n) = Run(send, a, b + n)
  <2> HIDE DEF a, b
  <2> QED
    BY ONLY <1>1, n \in Nat, RunContinues, Zenon
<1>7. a <= b + n
  <2> HIDE DEF a, b
  <2> QED
    BY <1>1
<1> QED
  BY <1>3, <1>4, <1>5, <1>6, <1>7 DEF Stream

\* A step of the receiver that reads nothing.
LEMMA StreamWaits ==
    ASSUME NEW send, NEW recv, NEW next, NEW w, Stream(send, recv, w),
           next.seq = recv.seq, Busy(next) <=> Busy(recv),
           Busy(recv) => Got(next) = Got(recv), next.buffer = recv.buffer,
           recv.pc = "header" /\ recv.count = 0 =>
              next.pc = "header" /\ next.count = 0
    PROVE  Stream(send, next, w)
<1>1. Taken(send, next) = Taken(send, recv)
  BY DEF Taken
<1> QED
  BY <1>1 DEF Stream

\* A receiver that has bytes to read is at the message they belong to.
LEMMA BytesBelong ==
    ASSUME NEW send \in Senders, SendLocals(send), NEW recv \in Receivers,
           Busy(recv), NEW w, Stream(send, recv, w), w # << >>
    PROVE  /\ recv.seq = send.seq /\ Taken(send, recv) = Got(recv)
           /\ w = Run(send, Got(recv), Written(send))
           /\ Got(recv) \in Nat /\ Written(send) \in Nat
           /\ Got(recv) <= Written(send)
           /\ Len(w) = Written(send) - Got(recv)
<1>1. /\ Written(send) \in Nat /\ Whole(send) \in Nat
      /\ Written(send) <= Whole(send)
  BY WrittenBounds
<1>2. Got(recv) \in Nat
  BY GotTaken
<1>3. recv.seq = send.seq
  <2>1. SUFFICES ASSUME recv.seq = send.seq + 1 PROVE FALSE
    BY DEF Stream
  <2>2. send.seq \in Int
    BY DEF Senders
  <2>3. Taken(send, recv) = Whole(send)
    BY <2>1, <2>2 DEF Taken
  <2>4. Whole(send) = Written(send) /\ w = Run(send, Whole(send), Whole(send))
    BY <1>1, <2>3 DEF Stream
  <2>5. Run(send, Whole(send), Whole(send)) = << >>
    BY <1>1, RunEmpty
  <2> QED
    BY <2>4, <2>5
<1>4. Taken(send, recv) = Got(recv)
  BY <1>3 DEF Taken, Senders
<1>5. w = Run(send, Got(recv), Written(send)) /\ Got(recv) <= Written(send)
  BY <1>4 DEF Stream
<1>6. Len(Run(send, Got(recv), Written(send))) = Written(send) - Got(recv)
  BY ONLY <1>1, <1>2, <1>5, RunProperties, Zenon
<1> QED
  BY <1>1, <1>2, <1>3, <1>4, <1>5, <1>6

-----------------------------------------------------------------------------
(* A step of one call                                                      *)

\* A step of the sending call of p touches nothing of the other direction.
LEMMA SenderStep ==
    ASSUME StreamInv, NEW p \in Parties, NEW next \in Senders,
           NEW w \in Seq(Bytes), tx' = [tx EXCEPT ![p] = next],
           wire' = [wire EXCEPT ![p] = w], UNCHANGED <<ipc_type, closed, rx>>,
           SendLocals(next),
           next.ret < 0 => ~Busy(next) /\ Peer(p) \in closed,
           TakesTurns(p, next, rx[p]),
           Reads(Peer(p)) => Stream(next, rx[Peer(p)], w)
    PROVE  StreamInv'
<1>1. /\ tx \in [Parties -> Senders] /\ wire \in [Parties -> Seq(Bytes)]
      /\ ipc_type \in ipc_types /\ closed \in SUBSET Parties
      /\ rx \in [Parties -> Receivers]
  BY DEF StreamInv, TypeOK
<1>2. tx' \in [Parties -> Senders] /\ wire' \in [Parties -> Seq(Bytes)]
  BY <1>1
<1>3. TypeOK'
  BY <1>1, <1>2 DEF TypeOK
<1>4. \A q \in Parties : /\ tx'[q] = IF q = p THEN next ELSE tx[q]
                         /\ wire'[q] = IF q = p THEN w ELSE wire[q]
  BY <1>1
<1>5. ASSUME NEW q \in Parties
      PROVE  /\ SendLocals(tx'[q]) /\ ReceiveLocals(rx'[q])
             /\ tx'[q].ret < 0 => ~Busy(tx'[q]) /\ Peer(q) \in closed'
             /\ rx'[q].ret < 0 => ~Busy(rx'[q]) /\ Peer(q) \in closed'
             /\ TakesTurns(q, tx'[q], rx'[q])
             /\ Reads(Peer(q))' => Stream(tx'[q], rx'[Peer(q)], wire'[q])
  <2>1. /\ rx' = rx /\ closed' = closed /\ ReceiveLocals(rx[q])
        /\ rx[q].ret < 0 => ~Busy(rx[q]) /\ Peer(q) \in closed
    BY DEF StreamInv, LocalsInStep
  <2>2. Reads(Peer(q))' <=> Reads(Peer(q))
    BY <2>1 DEF Reads
  <2>3. CASE q = p
    <3>1. tx'[q] = next /\ wire'[q] = w
      BY <1>4, <2>3
    <3> QED
      BY <2>1, <2>2, <2>3, <3>1
  <2>4. CASE q # p
    <3>1. tx'[q] = tx[q] /\ wire'[q] = wire[q]
      BY <1>4, <2>4
    <3>2. /\ SendLocals(tx[q])
          /\ tx[q].ret < 0 => ~Busy(tx[q]) /\ Peer(q) \in closed
          /\ TakesTurns(q, tx[q], rx[q])
          /\ Reads(Peer(q)) => Stream(tx[q], rx[Peer(q)], wire[q])
      BY DEF StreamInv, LocalsInStep, PartiesTakeTurns, StreamsInStep
    <3> QED
      BY <2>1, <2>2, <3>1, <3>2
  <2> QED
    BY <2>3, <2>4
<1>6. LocalsInStep'
  BY <1>5 DEF LocalsInStep
<1>7. PartiesTakeTurns'
  BY <1>5 DEF PartiesTakeTurns
<1>8. StreamsInStep'
  BY <1>5 DEF StreamsInStep
<1> QED
  BY <1>3, <1>6, <1>7, <1>8 DEF StreamInv

\* A step of a sending call that writes nothing.
LEMMA QuietSender ==
    ASSUME StreamInv, NEW p \in Parties, NEW send, tx[p] = send,
           NEW next \in Senders, tx' = [tx EXCEPT ![p] = next],
           UNCHANGED <<ipc_type, wire, closed, rx>>,
           SendLocals(next),
           next.ret < 0 => ~Busy(next) /\ Peer(p) \in closed,
           TakesTurns(p, next, rx[p]),
           next.seq = send.seq, next.len = send.len,
           Reads(Peer(p)) => Written(next) = Written(send)
    PROVE  StreamInv'
<1>1. wire \in [Parties -> Seq(Bytes)]
  BY DEF StreamInv, TypeOK
<1>2. wire[p] \in Seq(Bytes) /\ wire' = [wire EXCEPT ![p] = wire[p]]
  BY <1>1
<1>3. ASSUME Reads(Peer(p))
      PROVE  Stream(next, rx[Peer(p)], wire[p])
  <2>1. Stream(send, rx[Peer(p)], wire[p])
    BY <1>3 DEF StreamInv, StreamsInStep
  <2>2. Written(next) = Written(send)
    BY <1>3
  <2> QED
    BY <2>1, <2>2, StreamStays
<1> QED
  BY <1>2, <1>3, SenderStep

\* A step of the receiving call of p touches nothing of the other direction.
LEMMA ReceiverStep ==
    ASSUME StreamInv, NEW p \in Parties, NEW next \in Receivers,
           NEW w \in Seq(Bytes), rx' = [rx EXCEPT ![p] = next],
           wire' = [wire EXCEPT ![Peer(p)] = w],
           UNCHANGED <<ipc_type, closed, tx>>,
           ReceiveLocals(next),
           next.ret < 0 => ~Busy(next) /\ Peer(p) \in closed,
           TakesTurns(p, tx[p], next),
           p \notin closed /\ next.ret >= 0 => Stream(tx[Peer(p)], next, w)
    PROVE  StreamInv'
<1>1. /\ tx \in [Parties -> Senders] /\ wire \in [Parties -> Seq(Bytes)]
      /\ ipc_type \in ipc_types /\ closed \in SUBSET Parties
      /\ rx \in [Parties -> Receivers]
  BY DEF StreamInv, TypeOK
<1>0. Peer(p) \in Parties /\ Peer(Peer(p)) = p /\ Peer(p) # p
  BY PeerOfParty
<1>2. rx' \in [Parties -> Receivers] /\ wire' \in [Parties -> Seq(Bytes)]
  BY <1>1
<1>3. TypeOK'
  BY <1>1, <1>2 DEF TypeOK
<1>4. \A q \in Parties : /\ rx'[q] = IF q = p THEN next ELSE rx[q]
                         /\ wire'[q] = IF q = Peer(p) THEN w ELSE wire[q]
  BY <1>1
<1>5. ASSUME NEW q \in Parties
      PROVE  /\ SendLocals(tx'[q]) /\ ReceiveLocals(rx'[q])
             /\ tx'[q].ret < 0 => ~Busy(tx'[q]) /\ Peer(q) \in closed'
             /\ rx'[q].ret < 0 => ~Busy(rx'[q]) /\ Peer(q) \in closed'
             /\ TakesTurns(q, tx'[q], rx'[q])
  <2>1. /\ tx' = tx /\ closed' = closed /\ SendLocals(tx[q])
        /\ tx[q].ret < 0 => ~Busy(tx[q]) /\ Peer(q) \in closed
    BY DEF StreamInv, LocalsInStep
  <2>2. CASE q = p
    <3>1. rx'[q] = next
      BY <1>4, <2>2
    <3> QED
      BY <2>1, <2>2, <3>1
  <2>3. CASE q # p
    <3>1. rx'[q] = rx[q]
      BY <1>4, <2>3
    <3>2. /\ ReceiveLocals(rx[q]) /\ TakesTurns(q, tx[q], rx[q])
          /\ rx[q].ret < 0 => ~Busy(rx[q]) /\ Peer(q) \in closed
      BY DEF StreamInv, LocalsInStep, PartiesTakeTurns
    <3> QED
      BY <2>1, <3>1, <3>2
  <2> QED
    BY <2>2, <2>3
<1>6. ASSUME NEW q \in Parties, Reads(Peer(q))'
      PROVE  Stream(tx'[q], rx'[Peer(q)], wire'[q])
  <2>1. /\ tx' = tx /\ closed' = closed
        /\ Peer(q) \in Parties /\ Peer(Peer(q)) = q
    BY PeerOfParty
  <2>2. CASE Peer(q) = p
    <3>1. q = Peer(p)
      BY <2>1, <2>2
    <3>2. rx'[Peer(q)] = next /\ wire'[q] = w
      BY <1>0, <1>4, <2>2, <3>1
    <3>3. p \notin closed /\ next.ret >= 0
      BY <1>6, <2>1, <2>2, <3>2 DEF Reads
    <3> QED
      BY <2>1, <3>1, <3>2, <3>3
  <2>3. CASE Peer(q) # p
    <3>1. q # Peer(p)
      BY <1>0, <2>3
    <3>2. rx'[Peer(q)] = rx[Peer(q)] /\ wire'[q] = wire[q]
      BY <1>4, <2>1, <2>3, <3>1
    <3>3. Reads(Peer(q))
      BY <1>6, <2>1, <3>2 DEF Reads
    <3>4. Stream(tx[q], rx[Peer(q)], wire[q])
      BY <3>3 DEF StreamInv, StreamsInStep
    <3> QED
      BY <2>1, <3>2, <3>4
  <2> QED
    BY <2>2, <2>3
<1>7. LocalsInStep'
  BY <1>5 DEF LocalsInStep
<1>8. PartiesTakeTurns'
  BY <1>5 DEF PartiesTakeTurns
<1>9. StreamsInStep'
  BY <1>6 DEF StreamsInStep
<1> QED
  BY <1>3, <1>7, <1>8, <1>9 DEF StreamInv

\* A step of a receiving call that reads nothing.
LEMMA QuietReceiver ==
    ASSUME StreamInv, NEW p \in Parties, NEW recv, rx[p] = recv,
           NEW next \in Receivers, rx' = [rx EXCEPT ![p] = next],
           UNCHANGED <<ipc_type, wire, closed, tx>>,
           ReceiveLocals(next),
           next.ret < 0 => ~Busy(next) /\ Peer(p) \in closed,
           TakesTurns(p, tx[p], next),
           p \notin closed /\ next.ret >= 0 =>
              Stream(tx[Peer(p)], next, wire[Peer(p)])
    PROVE  StreamInv'
<1>1. wire \in [Parties -> Seq(Bytes)] /\ Peer(p) \in Parties
  BY PeerOfParty DEF StreamInv, TypeOK
<1>2. /\ wire[Peer(p)] \in Seq(Bytes)
      /\ wire' = [wire EXCEPT ![Peer(p)] = wire[Peer(p)]]
  BY <1>1
<1> QED
  BY <1>2, ReceiverStep

-----------------------------------------------------------------------------
(* The steps of a sending call                                             *)

\* What the invariant says of party p.
LEMMA OfParty ==
    ASSUME StreamInv, NEW p \in Parties
    PROVE  /\ tx[p] \in Senders /\ rx[p] \in Receivers
           /\ wire[p] \in Seq(Bytes)
           /\ SendLocals(tx[p]) /\ ReceiveLocals(rx[p])
           /\ tx[p].ret < 0 => ~Busy(tx[p]) /\ Peer(p) \in closed
           /\ rx[p].ret < 0 => ~Busy(rx[p]) /\ Peer(p) \in closed
           /\ TakesTurns(p, tx[p], rx[p])
           /\ Reads(Peer(p)) => Stream(tx[p], rx[Peer(p)], wire[p])
BY DEF StreamInv, TypeOK, LocalsInStep, PartiesTakeTurns, StreamsInStep

\* When p may begin a message, its peer has read all of the one before: it
\* waits for the next, or has not begun to.
LEMMA ReadyForNext ==
    ASSUME StreamInv, NEW p \in Parties, tx[p].pc = "idle", p \notin closed,
           tx[p].given = tx[p].len, MayBegin(p, tx[p].seq + 1),
           NEW q \in Parties, q = Peer(p), Reads(q)
    PROVE  /\ wire[p] = << >>
           /\ \/ rx[q].seq = tx[p].seq /\ ~Busy(rx[q])
              \/ /\ rx[q].seq = tx[p].seq + 1
                 /\ rx[q].pc = "header" /\ rx[q].count = 0
<1>1. Peer(q) = p
  BY PeerOfParty
<1>2. /\ tx[p].seq \in Int /\ rx[p].seq \in Int
      /\ tx[q].seq \in Int /\ rx[q].seq \in Int
  <2>1. /\ tx[p] \in Senders /\ rx[p] \in Receivers
        /\ tx[q] \in Senders /\ rx[q] \in Receivers
    BY OfParty
  <2>2. rx[p].seq \in Int /\ rx[q].seq \in Int
    BY <2>1 DEF Receivers
  <2> QED
    BY <2>1, <2>2, SenderFields
<1>3. /\ TakesTurns(p, tx[p], rx[p]) /\ TakesTurns(q, tx[q], rx[q])
      /\ Stream(tx[p], rx[q], wire[p])
  BY OfParty
<1>4. Stream(tx[q], rx[p], wire[q])
  <2>1. ~(rx[p].ret < 0)
    BY OfParty DEF Reads
  <2>2. rx[p].ret \in Int
    BY OfParty DEF Receivers
  <2>3. Reads(p)
    BY <2>1, <2>2 DEF Reads
  <2> QED
    BY <1>1, <2>3, OfParty
<1>5. rx[p].pc = "idle" /\ ~Busy(rx[p])
  BY DEF MayBegin, Busy
<1>6. rx[p].seq = tx[q].seq - 1 \/ rx[p].seq = tx[q].seq
  BY <1>4, <1>5 DEF Stream
<1>7. \/ rx[q].seq = tx[p].seq - 1 /\ ~Busy(rx[q])
      \/ rx[q].seq = tx[p].seq
      \/ /\ rx[q].seq = tx[p].seq + 1
         /\ rx[q].pc = "header" /\ rx[q].count = 0
  BY <1>3 DEF Stream
<1>8. Busy(rx[q]) => rx[q].pc # "idle"
  BY DEF Busy
<1>9. \/ rx[q].seq = tx[p].seq /\ ~Busy(rx[q])
      \/ /\ rx[q].seq = tx[p].seq + 1
         /\ rx[q].pc = "header" /\ rx[q].count = 0
  <2>1. CASE p = "client"
    <3>1. q = "server" /\ Before(p, rx[p]) = rx[p].seq
          /\ Before(q, rx[q]) = rx[q].seq - 1
      BY <2>1 DEF Peer, Before
    <3>2. rx[p].seq = tx[p].seq
      BY <1>2, <2>1 DEF MayBegin
    <3>3. /\ tx[q].seq \in {rx[q].seq - 1, rx[q].seq}
          /\ rx[q].pc # "idle" => tx[q].seq = rx[q].seq - 1
      BY <1>2, <1>3, <3>1 DEF TakesTurns
    <3> QED
      BY <1>2, <1>6, <1>7, <1>8, <3>2, <3>3
  <2>2. CASE p = "server"
    <3>1. q = "client" /\ Before(q, rx[q]) = rx[q].seq
      BY <2>2 DEF Peer, Before
    <3>2. rx[p].seq = tx[p].seq + 1
      BY <1>2, <2>2 DEF MayBegin
    <3>3. /\ tx[q].seq \in {rx[q].seq, rx[q].seq + 1}
          /\ rx[q].pc # "idle" => tx[q].seq = rx[q].seq
      BY <1>2, <1>3, <3>1 DEF TakesTurns
    <3> QED
      BY <1>2, <1>6, <1>7, <1>8, <3>2, <3>3
  <2> QED
    BY <2>1, <2>2 DEF Parties
<1>10. Taken(tx[p], rx[q]) = Whole(tx[p])
  BY <1>2, <1>9 DEF Taken
<1>11. Written(tx[p]) = Whole(tx[p])
  BY DEF Written, Whole
<1>12. wire[p] = Run(tx[p], Whole(tx[p]), Whole(tx[p]))
  BY <1>3, <1>10, <1>11 DEF Stream
<1>13. Whole(tx[p]) \in Nat
  BY OfParty, WrittenBounds
<1>14. wire[p] = << >>
  BY <1>12, <1>13, RunEmpty
<1> QED
  BY <1>9, <1>14

LEMMA BeginHeaderStep ==
    ASSUME StreamInv, NEW p \in Parties, NEW op \in {"send", "send_header"},
           NEW len \in 0..MaxLen, NEW w \in 0..len, BeginHeader(p, op, len, w),
           UNCHANGED ipc_type
    PROVE  StreamInv'
<1> DEFINE given == IF op = "send_header" THEN 0 ELSE IF w = 0 THEN len ELSE w
           next == [pc |-> "header", op |-> op, seq |-> tx[p].seq + 1,
                    len |-> len, given |-> given, base |-> 0,
                    tot_len |-> HeaderLen, cursor |-> 0, write_count |-> 0,
                    count |-> 0, ret |-> 0, put |-> << >>]
<1>1. /\ tx' = [tx EXCEPT ![p] = next] /\ UNCHANGED <<wire, closed, rx>>
      /\ Free(p) /\ tx[p].given = tx[p].len /\ MayBegin(p, tx[p].seq + 1)
  BY DEF BeginHeader
<1>2. given \in 0..len /\ (op = "send_header" => given = 0)
  OBVIOUS
<1> HIDE DEF given
<1>3. /\ tx[p] \in Senders /\ TakesTurns(p, tx[p], rx[p])
      /\ rx[p] \in Receivers /\ tx[p].seq \in Nat /\ rx[p].seq \in Nat
  BY OfParty DEF Senders, Receivers
<1>4. tx[p].seq + 1 \in 0..MaxMsgs /\ tx[p].seq + 1 # 0
  BY <1>1, <1>3, ParametersAssumption DEF MayBegin
<1>5. next \in Senders
  <2>1. given \in 0..MaxLen /\ HeaderLen \in 0..(HeaderLen + MaxLen)
        /\ 0 \in 0..(HeaderLen + MaxLen) /\ 0 \in Nat /\ 0 \in Int
        /\ << >> \in Seq(Bytes)
    BY <1>2, EmptySeq, ParametersAssumption
  <2> QED
    BY <1>4, <2>1 DEF Senders
<1>6. SendLocals(next)
  <2>1. Written(next) = 0 /\ Start(next) = 0
    BY DEF Written, Start
  <2>2. Run(next, 0, 0) = << >>
    BY RunEmpty
  <2>3. Puts(next)
    BY <2>1, <2>2 DEF Puts
  <2> QED
    BY <1>2, <1>4, <2>3, ParametersAssumption DEF SendLocals, Busy
<1>7. TakesTurns(p, next, rx[p])
  <2>1. rx[p].pc = "idle" /\ tx[p].seq = Before(p, rx[p])
    BY <1>1, <1>3 DEF MayBegin, Before, Parties
  <2>2. next.seq = Before(p, rx[p]) + 1
    BY <2>1
  <2> QED
    BY <2>1, <2>2 DEF TakesTurns
<1>8. Written(next) = 0 /\ next.seq = tx[p].seq + 1
  BY DEF Written
<1>9. ASSUME Reads(Peer(p))
      PROVE  Stream(next, rx[Peer(p)], wire[p])
  <2> DEFINE q == Peer(p)
             recv == rx[q]
  <2>1. q \in Parties /\ q = Peer(p)
    BY PeerOfParty
  <2>2. /\ wire[p] = << >>
        /\ \/ recv.seq = tx[p].seq /\ ~Busy(recv)
           \/ /\ recv.seq = tx[p].seq + 1
              /\ recv.pc = "header" /\ recv.count = 0
    BY <1>1, <1>9, <2>1, ReadyForNext DEF Free
  <2>3. Taken(next, recv) = 0
    <3>1. recv.seq = tx[p].seq => recv.seq < next.seq
      BY <1>3, <1>8
    <3>2. recv.seq = tx[p].seq + 1 => ~(recv.seq < next.seq)
      BY <1>3, <1>8
    <3> HIDE DEF next
    <3>3. CASE recv.seq = tx[p].seq
      BY <3>1, <3>3 DEF Taken
    <3>4. CASE /\ recv.seq = tx[p].seq + 1
               /\ recv.pc = "header" /\ recv.count = 0
      BY <1>8, <3>2, <3>4 DEF Taken, Busy, Got
    <3> QED
      BY <2>2, <3>3, <3>4
  <2>4. Run(next, 0, 0) = << >>
    BY RunEmpty
  <2>5. \/ recv.seq = next.seq - 1 /\ ~Busy(recv)
        \/ recv.seq = next.seq /\ recv.pc = "header" /\ recv.count = 0
    BY <1>3, <1>8, <2>2
  <2>6. recv.pc = "header" /\ recv.count = 0 => Got(recv) = 0
    BY DEF Got
  <2>7. recv.seq = next.seq /\ Busy(recv) => Got(recv) = 0
    <3> HIDE DEF next
    <3> QED
      BY <1>3, <1>8, <2>5, <2>6
  <2> HIDE DEF next
  <2> QED
    BY <1>8, <2>2, <2>3, <2>4, <2>5, <2>7 DEF Stream
<1>10. wire[p] \in Seq(Bytes) /\ wire' = [wire EXCEPT ![p] = wire[p]]
  BY <1>1 DEF StreamInv, TypeOK
<1>11. ~(next.ret < 0)
  OBVIOUS
<1> HIDE DEF next
<1> QED
  BY <1>1, <1>5, <1>6, <1>7, <1>9, <1>10, <1>11, SenderStep

LEMMA BeginDataStep ==
    ASSUME StreamInv, NEW p \in Parties, NEW w \in 1..MaxLen,
           BeginData(p, w), UNCHANGED ipc_type
    PROVE  StreamInv'
<1> SUFFICES ASSUME NEW send, tx[p] = send
             PROVE  StreamInv'
  OBVIOUS
<1> DEFINE next == [send EXCEPT !.pc = "data", !.op = "send_data",
                       !.given = send.given + w,
                       !.base = HeaderLen + send.given, !.tot_len = w,
                       !.cursor = 0, !.write_count = 0, !.count = 0,
                       !.ret = 0, !.put = << >>]
<1>1. /\ send \in Senders /\ SendLocals(send) /\ TakesTurns(p, send, rx[p])
      /\ send.len \in Nat /\ send.given \in Nat /\ HeaderLen \in Nat
      /\ tx \in [Parties -> Senders]
  <2>1. send \in Senders /\ SendLocals(send) /\ TakesTurns(p, send, rx[p])
    BY OfParty
  <2>2. tx \in [Parties -> Senders] /\ HeaderLen \in Nat
    BY ParametersAssumption DEF StreamInv, TypeOK
  <2> QED
    BY <2>1, <2>2 DEF Senders
<1>2. /\ w \in 1..(send.len - send.given) /\ send.pc = "idle"
      /\ UNCHANGED <<ipc_type, wire, closed, rx>>
  BY DEF BeginData, Free
<1>3. tx' = [tx EXCEPT ![p] = next]
  <2>1. tx' = [tx EXCEPT ![p] =
                 [tx[p] EXCEPT !.pc = "data", !.op = "send_data",
                    !.given = tx[p].given + w,
                    !.base = HeaderLen + tx[p].given, !.tot_len = w,
                    !.cursor = 0, !.write_count = 0, !.count = 0,
                    !.ret = 0, !.put = << >>]]
    BY Zenon DEF BeginData
  <2> QED
    BY ONLY <2>1, tx[p] = send, Zenon
<1>4. send.seq # 0
  BY <1>1, <1>2 DEF SendLocals
<1>5. /\ next.pc = "data" /\ next.op = "send_data" /\ next.seq = send.seq
      /\ next.len = send.len /\ next.given = send.given + w
      /\ next.base = HeaderLen + send.given /\ next.tot_len = w
      /\ next.cursor = 0 /\ next.write_count = 0 /\ next.count = 0
      /\ next.ret = 0 /\ next.put = << >>
  BY <1>1 DEF Senders
<1>6. next \in Senders
  <2>1. /\ send.given + w \in 0..MaxLen /\ w \in 0..(HeaderLen + MaxLen)
        /\ HeaderLen + send.given \in 0..(HeaderLen + MaxLen)
    BY <1>1, <1>2, SenderFields
  <2> DEFINE part == [send EXCEPT !.pc = "data", !.op = "send_data",
                         !.given = send.given + w,
                         !.base = HeaderLen + send.given, !.tot_len = w]
  <2>2. next = [part EXCEPT !.cursor = 0, !.write_count = 0, !.count = 0,
                            !.ret = 0, !.put = << >>]
    BY Zenon
  <2>3. part \in Senders
    BY <1>1, <2>1 DEF Senders
  <2> HIDE DEF next, part
  <2> QED
    <3>1. 0 \in Nat /\ 0 \in Int /\ << >> \in Seq(Bytes)
      BY EmptySeq
    <3>2. ASSUME NEW k \in Nat, NEW i \in Int, NEW put \in Seq(Bytes)
          PROVE  [part EXCEPT !.cursor = k, !.write_count = k, !.count = k,
                              !.ret = i, !.put = put] \in Senders
      BY ONLY <2>3 DEF Senders
    <3> QED
      BY ONLY <2>2, <3>1, <3>2, Zenon
<1> HIDE DEF next
<1>7. SendLocals(next)
  <2>1. /\ Written(next) = HeaderLen + send.given
        /\ Start(next) = HeaderLen + send.given
        /\ HeaderLen + send.given \in Nat
    BY <1>1, <1>5 DEF Written, Start
  <2>2. Run(next, HeaderLen + send.given, HeaderLen + send.given) = << >>
    BY <2>1, RunEmpty
  <2>3. Puts(next)
    BY <1>5, <2>1, <2>2 DEF Puts
  <2> QED
    BY <1>1, <1>2, <1>4, <1>5, <2>3 DEF SendLocals, Busy
<1>8. TakesTurns(p, next, rx[p])
  <2>1. send.given # send.len
    BY <1>1, <1>2
  <2> QED
    BY <1>1, <1>5, <2>1 DEF TakesTurns
<1>9. Written(next) = Written(send)
  <2>1. Written(next) = HeaderLen + send.given
    BY <1>1, <1>5 DEF Written
  <2>2. Written(send) = HeaderLen + send.given
    BY <1>2, <1>4 DEF Written
  <2> QED
    BY <2>1, <2>2
<1>10. ~(next.ret < 0)
  BY <1>5
<1> QED
  BY <1>2, <1>3, <1>5, <1>6, <1>7, <1>8, <1>9, <1>10, QuietSender

\* What one write puts on the wire goes on where the last one ended.
LEMMA Writing ==
    ASSUME NEW send \in Senders, SendLocals(send), InLoop(send),
           ~(send.ret < 0), NEW n \in 1..(send.tot_len - send.count),
           NEW next, next = [send EXCEPT
               !.cursor = send.cursor + send.write_count, !.write_count = n,
               !.count = send.count + n, !.ret = send.ret + n,
               !.put = send.put
                       \o Chunk(send, send.cursor + send.write_count, n)]
    PROVE  /\ next \in Senders /\ SendLocals(next) /\ ~(next.ret < 0)
           /\ next.pc = send.pc /\ next.seq = send.seq
           /\ next.len = send.len /\ next.given = send.given
           /\ Written(next) = Written(send) + n
           /\ Chunk(send, send.cursor + send.write_count, n)
                 = Run(send, Written(send), Written(send) + n)
           /\ Chunk(send, send.cursor + send.write_count, n) \in Seq(Bytes)
<1>1. /\ send.cursor \in Nat /\ send.write_count \in Nat
      /\ send.count \in Nat /\ send.ret \in Int /\ send.tot_len \in Nat
      /\ send.base \in Nat /\ send.given \in Nat /\ send.len \in Nat
      /\ send.seq \in 0..MaxMsgs /\ send.len \in 0..MaxLen
      /\ HeaderLen \in Nat /\ MaxLen \in Nat
  BY ParametersAssumption DEF Senders
<1>2. /\ next.pc = send.pc /\ next.op = send.op /\ next.seq = send.seq
      /\ next.len = send.len /\ next.given = send.given
      /\ next.base = send.base /\ next.tot_len = send.tot_len
      /\ next.cursor = send.cursor + send.write_count
      /\ next.write_count = n /\ next.count = send.count + n
      /\ next.ret = send.ret + n
      /\ next.put = send.put
                    \o Chunk(send, send.cursor + send.write_count, n)
  BY DEF Senders
<1>3. /\ send.pc = "header" \/ send.pc = "data"
      /\ Busy(send) /\ send.count < send.tot_len
      /\ send.cursor + send.write_count = send.count
  BY DEF InLoop, Busy, SendLocals
<1>7. Written(send) = send.base + send.count
  BY <1>1, <1>3 DEF Written, SendLocals
<1>9. Chunk(send, send.cursor + send.write_count, n)
         = Run(send, Written(send), Written(send) + n)
  <2> DEFINE z == Written(send)
             c == send.cursor + send.write_count
  <2>1. z + n - z = n /\ send.base + c = z /\ z \in Nat /\ n \in Nat
    BY <1>1, <1>3, <1>7
  <2> HIDE DEF z, c
  <2>2. Chunk(send, c, n) = [i \in 1..n |-> [seq |-> send.seq,
                                len |-> send.len, pos |-> z + i]]
    BY ONLY <2>1 DEF Chunk
  <2>3. Run(send, z, z + n) = [i \in 1..n |-> [seq |-> send.seq,
                                  len |-> send.len, pos |-> z + i]]
    BY ONLY <2>1 DEF Run
  <2> QED
    BY ONLY <2>2, <2>3 DEF z, c
<1>10. Chunk(send, send.cursor + send.write_count, n) \in Seq(Bytes)
  <2>1. send.seq # 0
    BY <1>3 DEF SendLocals
  <2>2. send.base + send.tot_len <= HeaderLen + send.given
    BY <1>1, <1>3 DEF SendLocals
  <2>3. send.given <= MaxLen
    BY <1>1 DEF SendLocals
  <2>4. ASSUME NEW i \in 1..n
        PROVE  [seq |-> send.seq, len |-> send.len,
                pos |-> send.base + send.count + i] \in Bytes
    <3>1. send.base + send.count + i \in Positions
      BY <1>1, <2>2, <2>3 DEF Positions
    <3>2. send.seq \in 1..MaxMsgs
      BY <1>1, <2>1, ParametersAssumption
    <3> QED
      BY <1>1, <3>1, <3>2 DEF Bytes
  <2>5. n \in Nat
    BY <1>1
  <2> QED
    BY <1>3, <2>4, <2>5 DEF Chunk
<1>4. next \in Senders
  <2>1. /\ send.cursor + send.write_count \in Nat /\ n \in Nat
        /\ send.count + n \in Nat /\ send.ret + n \in Int
    BY <1>1
  <2>2. next.put \in Seq(Bytes)
    <3>1. send.put \in Seq(Bytes)
      BY DEF Senders
    <3> QED
      BY <1>2, <1>10, <3>1, ConcatProperties
  <2> QED
    BY <2>1, <2>2 DEF Senders
<1>6. ~(next.ret < 0)
  BY <1>1, <1>2
<1>8. Written(next) = Written(send) + n
  <2>1. Written(next) = next.base + next.count
    <3>1. send.pc = "header" => send.base = 0 /\ 0 + next.count = next.count
      BY <1>1, <1>2 DEF SendLocals
    <3> QED
      BY <1>2, <1>3, <3>1 DEF Written
  <2> QED
    BY <1>1, <1>2, <1>7, <2>1
<1>5. SendLocals(next)
  <2>1. Start(next) = Start(send) /\ Start(send) \in Nat
        /\ Start(send) <= Written(send) /\ Written(send) \in Nat
    <3>1. Start(next) = Start(send) /\ Start(send) \in {0, send.base}
      BY <1>2 DEF Start
    <3> QED
      BY <1>1, <1>7, <3>1
  <2>2. send.put = Run(send, Start(send), Written(send))
    BY <1>3 DEF SendLocals, Puts
  <2>3. next.put = Run(send, Start(send), Written(send) + n)
    <3>1. n \in Nat
      BY <1>1
    <3>2. next.put = Run(send, Start(send), Written(send))
                       \o Run(send, Written(send), Written(send) + n)
      BY ONLY <1>2, <1>9, <2>2, Zenon
    <3> QED
      BY ONLY <2>1, <3>1, <3>2, RunContinues, Zenon
  <2>4. \A i, j : Run(next, i, j) = Run(send, i, j)
    BY <1>2 DEF Run
  <2>5. next.pc # "returned"
    BY <1>2, <1>3
  <2>6. Puts(next)
    BY <1>8, <2>1, <2>3, <2>4, <2>5 DEF Puts
  <2>7. /\ next.given <= next.len /\ next.seq # 0 /\ Busy(next)
        /\ next.cursor + next.write_count = next.count
        /\ next.count <= next.tot_len
    BY ONLY <1>1, <1>2, <1>3, SendLocals(send),
       n \in 1..(send.tot_len - send.count), SMTT(30) DEF SendLocals, Busy
  <2>8. CASE send.pc = "header"
    BY ONLY <1>1, <1>2, <2>6, <2>7, <2>8, SendLocals(send),
       n \in 1..(send.tot_len - send.count), SMTT(30) DEF SendLocals
  <2>9. CASE send.pc = "data"
    BY ONLY <1>1, <1>2, <2>6, <2>7, <2>9, SendLocals(send),
       n \in 1..(send.tot_len - send.count), SMTT(30) DEF SendLocals
  <2> QED
    BY <1>3, <2>8, <2>9
<1> QED
  BY <1>2, <1>4, <1>5, <1>6, <1>8, <1>9, <1>10

LEMMA WriteSomeStep ==
    ASSUME StreamInv, NEW p \in Parties, WriteSome(p), UNCHANGED ipc_type
    PROVE  StreamInv'
<1> SUFFICES ASSUME NEW send, tx[p] = send
             PROVE  StreamInv'
  OBVIOUS
<1>1. /\ send \in Senders /\ SendLocals(send) /\ TakesTurns(p, send, rx[p])
      /\ wire[p] \in Seq(Bytes) /\ tx \in [Parties -> Senders]
      /\ wire \in [Parties -> Seq(Bytes)] /\ Peer(p) \in Parties
      /\ send.ret < 0 => ~Busy(send)
  BY OfParty, PeerOfParty DEF StreamInv, TypeOK
<1>2. InLoop(send) /\ UNCHANGED <<ipc_type, closed, rx>>
  BY DEF WriteSome
<1>3. ~(send.ret < 0)
  BY <1>1, <1>2 DEF InLoop, Busy
<1>4. PICK n \in 1..Min(tx[p].tot_len - tx[p].count,
                      Capacity - Len(wire[p])) :
         LET cursor == tx[p].cursor + tx[p].write_count
         IN  /\ wire' = [wire EXCEPT ![p] = @ \o Chunk(tx[p], cursor, n)]
             /\ tx' = [tx EXCEPT ![p].cursor = cursor, ![p].write_count = n,
                                 ![p].count = @ + n, ![p].ret = @ + n,
                                 ![p].put = @ \o Chunk(tx[p], cursor, n)]
  BY Zenon DEF WriteSome
<1>5. n \in 1..(send.tot_len - send.count)
  <2>1. send.tot_len - send.count \in Int /\ Capacity - Len(wire[p]) \in Int
    BY <1>1, ParametersAssumption, SMTT(30) DEF Senders
  <2> QED
    BY <2>1 DEF Min
<1>6. PICK next : next = [send EXCEPT
            !.cursor = send.cursor + send.write_count, !.write_count = n,
            !.count = send.count + n, !.ret = send.ret + n,
            !.put = send.put
                    \o Chunk(send, send.cursor + send.write_count, n)]
  OBVIOUS
<1>7. tx' = [tx EXCEPT ![p] = next]
  BY <1>1, <1>4, <1>6
<1>8. /\ next \in Senders /\ SendLocals(next) /\ ~(next.ret < 0)
      /\ next.pc = send.pc /\ next.seq = send.seq
      /\ next.len = send.len /\ next.given = send.given
      /\ Written(next) = Written(send) + n
      /\ Chunk(send, send.cursor + send.write_count, n)
            = Run(send, Written(send), Written(send) + n)
      /\ Chunk(send, send.cursor + send.write_count, n) \in Seq(Bytes)
  BY ONLY <1>1, <1>2, <1>3, <1>5, <1>6, Writing, ZenonT(30)
<1> DEFINE w == wire[p] \o Chunk(send, send.cursor + send.write_count, n)
<1>9. w \in Seq(Bytes)
  BY <1>1, <1>8, ConcatProperties
<1>10. wire' = [wire EXCEPT ![p] = w]
  BY <1>1, <1>4
<1>11. TakesTurns(p, next, rx[p])
  BY <1>1, <1>8 DEF TakesTurns
<1>12. ASSUME Reads(Peer(p))
       PROVE  Stream(next, rx[Peer(p)], w)
  <2>1. Stream(send, rx[Peer(p)], wire[p]) /\ rx[Peer(p)] \in Receivers
    BY <1>1, <1>12, OfParty
  <2>2. n \in Nat
    OBVIOUS
  <2> QED
    BY <1>1, <1>8, <2>1, <2>2, StreamGrows
<1> HIDE DEF w
<1> QED
  BY <1>2, <1>7, <1>8, <1>9, <1>10, <1>11, <1>12, SenderStep

LEMMA WriteRetriesStep ==
    ASSUME StreamInv, NEW p \in Parties, WriteRetries(p), UNCHANGED ipc_type
    PROVE  StreamInv'
<1> SUFFICES ASSUME NEW send, tx[p] = send
             PROVE  StreamInv'
  OBVIOUS
<1> DEFINE next == [send EXCEPT !.cursor = send.cursor + send.write_count,
                                !.write_count = 0]
<1>1. /\ send \in Senders /\ SendLocals(send) /\ TakesTurns(p, send, rx[p])
      /\ send.ret < 0 => ~Busy(send) /\ Peer(p) \in closed
  BY OfParty
<1>2. tx \in [Parties -> Senders]
  BY DEF StreamInv, TypeOK
<1>3. InLoop(send) /\ UNCHANGED <<ipc_type, wire, closed, rx>>
  BY DEF WriteRetries
<1>4. tx' = [tx EXCEPT ![p] = next]
  BY <1>1, <1>2 DEF WriteRetries
<1>5. /\ next.pc = send.pc /\ next.op = send.op /\ next.seq = send.seq
      /\ next.len = send.len /\ next.given = send.given
      /\ next.base = send.base /\ next.tot_len = send.tot_len
      /\ next.cursor = send.cursor + send.write_count
      /\ next.write_count = 0 /\ next.count = send.count
      /\ next.ret = send.ret /\ next.put = send.put
  BY <1>1 DEF Senders
<1>6. next \in Senders
  <2>1. send.cursor + send.write_count \in Nat
    BY <1>1 DEF Senders
  <2> QED
    BY <1>1, <2>1 DEF Senders
<1> HIDE DEF next
<1>7. SendLocals(next)
  <2>1. send.cursor + send.write_count + 0 = send.cursor + send.write_count
    BY <1>1 DEF Senders
  <2>2. Puts(next)
    <3>1. /\ Start(next) = Start(send) /\ Written(next) = Written(send)
          /\ \A i, j : Run(next, i, j) = Run(send, i, j)
      BY <1>5 DEF Start, Written, Run
    <3> QED
      BY <1>1, <1>5, <3>1 DEF SendLocals, Puts, Busy
  <2> QED
    BY <1>1, <1>5, <2>1, <2>2 DEF SendLocals, Busy
<1>8. Written(next) = Written(send) /\ Busy(next) = Busy(send)
  BY <1>5 DEF Written, Busy
<1>9. TakesTurns(p, next, rx[p])
  BY <1>1, <1>5 DEF TakesTurns
<1> QED
  BY <1>1, <1>3, <1>4, <1>5, <1>6, <1>7, <1>8, <1>9, QuietSender

LEMMA WriteFailsStep ==
    ASSUME StreamInv, NEW p \in Parties, WriteFails(p), UNCHANGED ipc_type
    PROVE  StreamInv'
<1> SUFFICES ASSUME NEW send, tx[p] = send
             PROVE  StreamInv'
  OBVIOUS
<1> DEFINE next == [send EXCEPT !.pc = "returned",
                                !.ret = COMM_STATUS_GENERIC]
<1>1. send \in Senders /\ SendLocals(send) /\ TakesTurns(p, send, rx[p])
  BY OfParty
<1>2. tx \in [Parties -> Senders]
  BY DEF StreamInv, TypeOK
<1>3. /\ InLoop(send) /\ Peer(p) \in closed
      /\ UNCHANGED <<ipc_type, wire, closed, rx>>
  BY DEF WriteFails
<1>4. tx' = [tx EXCEPT ![p] = next]
  BY <1>1, <1>2 DEF WriteFails
<1>5. /\ next.pc = "returned" /\ next.seq = send.seq /\ next.len = send.len
      /\ next.given = send.given /\ next.ret = COMM_STATUS_GENERIC
  BY <1>1 DEF Senders
<1>6. next \in Senders
  <2>1. COMM_STATUS_GENERIC \in Int
    BY DEF COMM_STATUS_GENERIC
  <2> QED
    BY <1>1, <2>1 DEF Senders
<1> HIDE DEF next
<1>7. send.pc # "idle"
  BY <1>3 DEF InLoop
<1>8. SendLocals(next) /\ ~Busy(next)
  BY <1>1, <1>5, <1>7 DEF SendLocals, Puts, Busy
<1>9. TakesTurns(p, next, rx[p])
  BY <1>1, <1>5, <1>7 DEF TakesTurns
<1>10. ~Reads(Peer(p))
  BY <1>3 DEF Reads
<1> QED
  BY <1>3, <1>4, <1>5, <1>6, <1>8, <1>9, <1>10, QuietSender

LEMMA HeaderSentStep ==
    ASSUME StreamInv, NEW p \in Parties, HeaderSent(p), UNCHANGED ipc_type
    PROVE  StreamInv'
<1> SUFFICES ASSUME NEW send, tx[p] = send
             PROVE  StreamInv'
  OBVIOUS
<1>1. /\ send \in Senders /\ SendLocals(send) /\ TakesTurns(p, send, rx[p])
      /\ send.ret < 0 => ~Busy(send) /\ Peer(p) \in closed
  BY OfParty
<1>2. tx \in [Parties -> Senders]
  BY DEF StreamInv, TypeOK
<1>3. /\ send.pc = "header" /\ send.count = send.tot_len
      /\ UNCHANGED <<ipc_type, wire, closed, rx>>
  BY DEF HeaderSent, LoopDone
<1>4. /\ Busy(send) /\ send.seq # 0 /\ send.count = HeaderLen
      /\ send.op \in {"send", "send_header"} /\ send.ret = HeaderLen
      /\ send.op = "send_header" => send.given = 0
      /\ send.given \in Nat /\ send.given <= send.len /\ HeaderLen \in Nat
  BY <1>1, <1>3, ParametersAssumption DEF SendLocals, Busy, Senders
<1>5. Written(send) = HeaderLen
  BY <1>3, <1>4 DEF Written
<1>8. send.put = Run(send, 0, HeaderLen)
  <2>1. Start(send) = 0
    BY <1>4 DEF Start
  <2> QED
    BY <1>1, <1>4, <1>5, <2>1 DEF SendLocals, Puts
<1>6. CASE send.op = "send"
  <2> DEFINE next == [send EXCEPT !.pc = "data", !.base = HeaderLen,
                         !.tot_len = send.given, !.cursor = 0,
                         !.write_count = 0, !.count = 0]
  <2>1. tx' = [tx EXCEPT ![p] = next]
    BY <1>6, Zenon DEF HeaderSent
  <2>2. /\ next.pc = "data" /\ next.op = "send" /\ next.seq = send.seq
        /\ next.len = send.len /\ next.given = send.given
        /\ next.base = HeaderLen /\ next.tot_len = send.given
        /\ next.cursor = 0 /\ next.write_count = 0 /\ next.count = 0
        /\ next.ret = HeaderLen /\ next.put = send.put
    BY <1>1, <1>4, <1>6 DEF Senders
  <2>3. next \in Senders
    <3>1. /\ HeaderLen \in 0..(HeaderLen + MaxLen) /\ 0 \in Nat
          /\ send.given \in 0..(HeaderLen + MaxLen)
      BY <1>1, <1>4, ParametersAssumption DEF Senders
    <3> QED
      BY <1>1, <3>1 DEF Senders
  <2> HIDE DEF next
  <2>4. SendLocals(next)
    <3>1. Start(next) = 0 /\ Written(next) = HeaderLen
      BY <1>4, <2>2 DEF Start, Written
    <3>2. next.put = Run(next, 0, HeaderLen)
      BY <1>8, <2>2 DEF Run
    <3>3. Puts(next)
      BY <2>2, <3>1, <3>2 DEF Puts
    <3> QED
      BY <1>4, <2>2, <3>3 DEF SendLocals, Busy
  <2>5. TakesTurns(p, next, rx[p])
    BY <1>1, <1>3, <2>2 DEF TakesTurns
  <2>6. Written(next) = Written(send)
    BY <1>4, <1>5, <2>2 DEF Written
  <2>7. ~(next.ret < 0)
    BY <1>4, <2>2
  <2> QED
    BY <1>3, <2>1, <2>2, <2>3, <2>4, <2>5, <2>6, <2>7, QuietSender
<1>7. CASE send.op = "send_header"
  <2> DEFINE next == [send EXCEPT !.pc = "returned"]
  <2>1. tx' = [tx EXCEPT ![p] = next]
    BY <1>7, Zenon DEF HeaderSent
  <2>2. /\ next.pc = "returned" /\ next.op = "send_header"
        /\ next.seq = send.seq /\ next.len = send.len
        /\ next.given = 0 /\ next.ret = HeaderLen /\ next.put = send.put
    BY <1>1, <1>4, <1>7 DEF Senders
  <2>3. next \in Senders
    BY <1>1 DEF Senders
  <2> HIDE DEF next
  <2>4. SendLocals(next)
    <3>1. Start(next) = 0
      BY <2>2 DEF Start
    <3>2. next.put = Run(next, 0, HeaderLen)
      BY <1>8, <2>2 DEF Run
    <3>3. /\ HeaderLen + 0 = HeaderLen /\ HeaderLen - 0 = HeaderLen
          /\ 0 \in Nat /\ 0 <= HeaderLen
      BY <1>4
    <3>4. Puts(next)
      BY <2>2, <3>1, <3>2, <3>3 DEF Puts, Busy
    <3> QED
      BY <1>4, <1>7, <2>2, <3>4 DEF SendLocals, Busy
  <2>5. TakesTurns(p, next, rx[p])
    BY <1>1, <1>3, <2>2 DEF TakesTurns
  <2>6. Written(next) = Written(send)
    BY <1>4, <1>5, <2>2 DEF Written
  <2>7. ~(next.ret < 0)
    BY <1>4, <2>2
  <2> QED
    BY <1>3, <2>1, <2>2, <2>3, <2>4, <2>5, <2>6, <2>7, QuietSender
<1> QED
  BY <1>4, <1>6, <1>7

\* The call goes on or comes to its end, and changes nothing but its pc.
LEMMA DataSentStep ==
    ASSUME StreamInv, NEW p \in Parties, DataSent(p) \/ SendReturns(p),
           UNCHANGED ipc_type
    PROVE  StreamInv'
<1> SUFFICES ASSUME NEW send, tx[p] = send
             PROVE  StreamInv'
  OBVIOUS
<1>1. /\ send \in Senders /\ SendLocals(send) /\ TakesTurns(p, send, rx[p])
      /\ send.ret < 0 => ~Busy(send) /\ Peer(p) \in closed
  BY OfParty
<1>2. tx \in [Parties -> Senders]
  BY DEF StreamInv, TypeOK
<1>3. PICK pc \in {"idle", "returned"} :
         /\ tx' = [tx EXCEPT ![p].pc = pc]
         /\ UNCHANGED <<ipc_type, wire, closed, rx>>
         /\ \/ /\ send.pc = "data" /\ send.count = send.tot_len
               /\ pc = "returned"
            \/ send.pc = "returned" /\ pc = "idle"
  BY DEF DataSent, SendReturns, LoopDone
<1> DEFINE next == [send EXCEPT !.pc = pc]
<1>4. tx' = [tx EXCEPT ![p] = next]
  BY <1>1, <1>2, <1>3
<1>5. /\ next.pc = pc /\ next.seq = send.seq /\ next.len = send.len
      /\ next.op = send.op /\ next.given = send.given
      /\ next.tot_len = send.tot_len /\ next.ret = send.ret
      /\ next.base = send.base /\ next.put = send.put
  BY <1>1 DEF Senders
<1>6. next \in Senders
  BY <1>1 DEF Senders
<1> HIDE DEF next
<1>7. /\ send.base \in Nat /\ send.tot_len \in Nat /\ send.count \in Nat
      /\ send.given \in Nat /\ HeaderLen \in Nat /\ send.seq # 0
  BY <1>1, <1>3, ParametersAssumption DEF SendLocals, Senders
<1>8. ~Busy(next) /\ SendLocals(next)
  <2>1. ~Busy(next)
    BY <1>5 DEF Busy
  <2>2. CASE send.pc = "data" /\ send.count = send.tot_len
    <3>1. /\ Start(next) = Start(send)
          /\ \A i, j : Run(next, i, j) = Run(send, i, j)
      BY <1>5 DEF Start, Run
    <3>2. Written(send) = HeaderLen + send.given
      BY <1>1, <1>7, <2>2 DEF Written, SendLocals
    <3>3. send.put = Run(send, Start(send), HeaderLen + send.given)
      BY <1>1, <2>2, <3>2 DEF SendLocals, Puts, Busy
    <3>4. /\ Start(send) \in Nat /\ Start(send) <= HeaderLen + send.given
          /\ send.ret = HeaderLen + send.given - Start(send)
      BY <1>1, <1>7, <2>2 DEF SendLocals, Start
    <3>5. Puts(next)
      BY <1>5, <2>1, <3>1, <3>3, <3>4 DEF Puts
    <3> QED
      BY <1>1, <1>5, <1>7, <2>1, <3>5 DEF SendLocals, Busy
  <2>3. CASE send.pc = "returned" /\ pc = "idle"
    <3>1. Puts(next)
      BY <1>5, <2>1, <2>3 DEF Puts
    <3> QED
      BY <1>1, <1>5, <1>7, <2>1, <2>3, <3>1 DEF SendLocals, Busy
  <2> QED
    BY <1>3, <2>1, <2>2, <2>3
<1>9. TakesTurns(p, next, rx[p])
  BY <1>1, <1>3, <1>5 DEF TakesTurns
<1>10. Written(next) = Written(send)
  <2>1. Written(next) = HeaderLen + send.given
    BY <1>3, <1>5, <1>7 DEF Written
  <2>2. CASE send.pc = "data" /\ send.count = send.tot_len
    BY <1>1, <1>7, <2>1, <2>2 DEF Written, SendLocals
  <2>3. CASE send.pc = "returned"
    BY <1>7, <2>1, <2>3 DEF Written
  <2> QED
    BY <1>3, <2>2, <2>3
<1>11. next.ret < 0 => ~Busy(next) /\ Peer(p) \in closed
  BY <1>1, <1>5, <1>8
<1>12. /\ SendLocals(next) /\ next.seq = send.seq /\ next.len = send.len
       /\ UNCHANGED <<ipc_type, wire, closed, rx>>
       /\ Reads(Peer(p)) => Written(next) = Written(send)
  BY <1>3, <1>5, <1>8, <1>10
<1> QED
  BY ONLY StreamInv, p \in Parties, tx[p] = send,
     <1>4, <1>6, <1>9, <1>11, <1>12, QuietSender, Zenon

-----------------------------------------------------------------------------
(* The steps of a receiving call                                           *)

LEMMA BeginReceiveStep ==
    ASSUME StreamInv, NEW p \in Parties, BeginReceive(p), UNCHANGED ipc_type
    PROVE  StreamInv'
<1> SUFFICES ASSUME NEW recv, rx[p] = recv
             PROVE  StreamInv'
  OBVIOUS
<1> DEFINE q == Peer(p)
           next == [pc |-> "header", seq |-> recv.seq + 1, base |-> 0,
                    tot_len |-> HeaderLen, cursor |-> 0, read_count |-> 0,
                    count |-> 0, ret |-> 0,
                    buffer |-> [i \in Positions |-> NULL]]
<1>1. /\ recv \in Receivers /\ TakesTurns(p, tx[p], recv)
      /\ tx[p] \in Senders /\ tx[q] \in Senders /\ SendLocals(tx[q])
  BY OfParty, PeerOfParty
<1>2. /\ p \notin closed /\ recv.pc = "idle" /\ recv.ret >= 0
      /\ tx[p].pc = "idle" /\ tx[p].given = tx[p].len
      /\ recv.seq < MaxMsgs
      /\ tx[p].seq = IF p = "client" THEN recv.seq + 1 ELSE recv.seq
      /\ UNCHANGED <<ipc_type, wire, closed, tx>>
  BY DEF BeginReceive
<1>3. rx' = [rx EXCEPT ![p] = next]
  BY Zenon DEF BeginReceive
<1>4. recv.seq \in Nat /\ tx[q].seq \in Nat
  BY <1>1 DEF Senders, Receivers
<1>5. next \in Receivers
  <2>1. recv.seq + 1 \in 0..MaxMsgs
    BY <1>2, <1>4, ParametersAssumption
  <2>2. /\ 0 \in 0..HeaderLen /\ HeaderLen \in 0..(HeaderLen + MaxLen)
        /\ 0 \in Nat /\ 0 \in Int
    BY ParametersAssumption
  <2> QED
    BY <2>1, <2>2 DEF Receivers
<1>6. /\ next.pc = "header" /\ next.seq = recv.seq + 1 /\ next.base = 0
      /\ next.tot_len = HeaderLen /\ next.cursor = 0 /\ next.read_count = 0
      /\ next.count = 0 /\ next.ret = 0
      /\ \A i \in Positions : next.buffer[i] = NULL
  OBVIOUS
<1> HIDE DEF next
<1>7. Busy(next) /\ Got(next) = 0 /\ ~(next.ret < 0)
  BY <1>6 DEF Busy, Got
<1>8. ReceiveLocals(next)
  <2>1. Filled(next)
    BY <1>6, <1>7, ParametersAssumption DEF Filled, Positions
  <2> QED
    BY <1>6, <1>7, <2>1, ParametersAssumption DEF ReceiveLocals
<1>9. TakesTurns(p, tx[p], next)
  <2>1. tx[p].seq = Before(p, next)
    BY <1>2, <1>4, <1>6 DEF Before
  <2> QED
    BY <1>2, <2>1 DEF TakesTurns
<1>10. ASSUME p \notin closed
       PROVE  Stream(tx[q], next, wire[q])
  <2>1. Stream(tx[q], recv, wire[q])
    BY <1>2, PeerOfParty, OfParty DEF Reads
  <2>2. ~Busy(recv)
    BY <1>2 DEF Busy
  <2>3. recv.seq = tx[q].seq - 1 \/ recv.seq = tx[q].seq
    BY <1>2, <2>1, <2>2 DEF Stream
  <2>4. Taken(tx[q], next) = Taken(tx[q], recv)
    <3>1. CASE recv.seq = tx[q].seq - 1
      <4>1. recv.seq < tx[q].seq /\ next.seq = tx[q].seq
        BY <1>4, <1>6, <3>1
      <4> QED
        BY <1>4, <1>7, <4>1 DEF Taken
    <3>2. CASE recv.seq = tx[q].seq
      <4>1. next.seq = tx[q].seq + 1
        BY <1>6, <3>2
      <4> QED
        BY <1>4, <2>2, <3>2, <4>1 DEF Taken
    <3> QED
      BY <2>3, <3>1, <3>2
  <2>5. next.seq = tx[q].seq \/ next.seq = tx[q].seq + 1
    BY <1>4, <1>6, <2>3
  <2> QED
    BY <1>6, <1>7, <2>1, <2>4, <2>5 DEF Stream
<1> QED
  BY <1>2, <1>3, <1>5, <1>7, <1>8, <1>9, <1>10, QuietReceiver

\* The receiving call after a read of the first n bytes of w.
AfterRead(recv, w, n) ==
    LET at == recv.base + recv.cursor + recv.read_count
    IN  [recv EXCEPT
            !.cursor = recv.cursor + recv.read_count, !.read_count = n,
            !.count = recv.count + n, !.ret = recv.ret + n,
            !.buffer = [i \in Positions |-> IF i \in (at + 1)..(at + n)
                                            THEN w[i - at]
                                            ELSE recv.buffer[i]]]

\* What one read stores goes on where the last one ended.
LEMMA Reading ==
    ASSUME NEW send \in Senders, SendLocals(send), NEW recv \in Receivers,
           ReceiveLocals(recv), InLoop(recv), ~(recv.ret < 0),
           NEW w \in Seq(Bytes), Stream(send, recv, w),
           NEW n \in 1..(recv.tot_len - recv.count), n <= Len(w),
           NEW next, next = AfterRead(recv, w, n)
    PROVE  /\ next \in Receivers /\ ReceiveLocals(next) /\ ~(next.ret < 0)
           /\ next.pc = recv.pc /\ next.seq = recv.seq
           /\ Stream(send, next, SubSeq(w, n + 1, Len(w)))
<1> SUFFICES ASSUME NEW at, at = recv.base + recv.cursor + recv.read_count,
                    NEW buffer, buffer = [i \in Positions |->
                        IF i \in (at + 1)..(at + n) THEN w[i - at]
                        ELSE recv.buffer[i]],
                    next = [recv EXCEPT
                        !.cursor = recv.cursor + recv.read_count,
                        !.read_count = n, !.count = recv.count + n,
                        !.ret = recv.ret + n, !.buffer = buffer]
             PROVE  /\ next \in Receivers /\ ReceiveLocals(next)
                    /\ ~(next.ret < 0)
                    /\ next.pc = recv.pc /\ next.seq = recv.seq
                    /\ Stream(send, next, SubSeq(w, n + 1, Len(w)))
  BY Zenon DEF AfterRead
<1>1. /\ recv.cursor \in Nat /\ recv.read_count \in Nat
      /\ recv.count \in Nat /\ recv.ret \in Int /\ recv.tot_len \in Nat
      /\ recv.base \in Nat /\ HeaderLen \in Nat /\ MaxLen \in Nat
      /\ recv.buffer \in [Positions -> Bytes \cup {NULL}]
      /\ HeaderLen # 0 /\ n \in Nat /\ n # 0 /\ recv.seq \in Int
  BY ParametersAssumption, SMTT(30) DEF Receivers
<1>2. Busy(recv) /\ recv.cursor + recv.read_count = recv.count
  BY DEF InLoop, Busy, ReceiveLocals
<1>3. /\ recv.pc \in {"header", "data"} /\ recv.count < recv.tot_len
      /\ recv.ret = Got(recv) /\ Filled(recv)
  BY <1>2 DEF InLoop, ReceiveLocals
<1>4. at = Got(recv) /\ at = recv.base + recv.count /\ at \in Nat
  <2>1. at = recv.base + recv.count
    BY <1>1, <1>2, SMTT(30)
  <2>2. recv.base = IF recv.pc = "header" THEN 0 ELSE HeaderLen
    BY <1>3 DEF ReceiveLocals
  <2>3. Got(recv) = recv.base + recv.count
    BY <1>1, <2>2 DEF Got
  <2> QED
    BY <1>1, <2>1, <2>3, SMTT(30)
<1>5. w # << >> /\ Len(w) \in Nat
  BY <1>1, EmptySeq, LenProperties
<1>6. /\ recv.seq = send.seq /\ Taken(send, recv) = at
      /\ w = Run(send, at, Written(send)) /\ Written(send) \in Nat
      /\ at <= Written(send) /\ Len(w) = Written(send) - at
  <2>1. /\ recv.seq = send.seq /\ Taken(send, recv) = Got(recv)
        /\ w = Run(send, Got(recv), Written(send))
        /\ Written(send) \in Nat /\ Got(recv) <= Written(send)
        /\ Len(w) = Written(send) - Got(recv)
    BY <1>2, <1>5, BytesBelong, Zenon
  <2> QED
    BY ONLY <1>4, <2>1
<1>7. \A i \in (at + 1)..(at + n) :
         /\ w[i - at] \in Bytes /\ w[i - at].seq = recv.seq
         /\ w[i - at].len = send.len /\ w[i - at].pos = i
  <2>1. ASSUME NEW j \in 1..(Written(send) - at)
        PROVE  Run(send, at, Written(send))[j] =
                  [seq |-> send.seq, len |-> send.len, pos |-> at + j]
    BY ONLY <1>4, <1>6, <2>1, RunProperties, Zenon
  <2>2. ASSUME NEW i \in (at + 1)..(at + n)
        PROVE  /\ i - at \in 1..Len(w) /\ i - at \in 1..(Written(send) - at)
               /\ at + (i - at) = i
    <3>1. /\ at \in Nat /\ n \in Nat /\ Len(w) \in Nat /\ n <= Len(w)
          /\ Written(send) \in Nat /\ Len(w) = Written(send) - at
      BY <1>1, <1>4, <1>5, <1>6
    <3> DEFINE l == Len(w)
               b == Written(send)
    <3> HIDE DEF l, b
    <3>2. /\ at \in Nat /\ n \in Nat /\ l \in Nat /\ n <= l
          /\ b \in Nat /\ l = b - at
      BY <3>1 DEF l, b
    <3>3. i - at \in 1..l /\ i - at \in 1..(b - at) /\ at + (i - at) = i
      BY ONLY <2>2, <3>2
    <3> QED
      BY <3>3 DEF l, b
  <2>3. ASSUME NEW i \in (at + 1)..(at + n)
        PROVE  w[i - at] \in Bytes
    <3>1. i - at \in 1..Len(w)
      BY <2>2
    <3> QED
      BY ONLY w \in Seq(Bytes), <3>1, ElementOfSeq, Zenon
  <2>4. ASSUME NEW i \in (at + 1)..(at + n)
        PROVE  w[i - at] = [seq |-> send.seq, len |-> send.len, pos |-> i]
    <3>1. i - at \in 1..(Written(send) - at) /\ at + (i - at) = i
      BY <2>2
    <3>2. Run(send, at, Written(send))[i - at] =
             [seq |-> send.seq, len |-> send.len, pos |-> at + (i - at)]
      BY ONLY <2>1, <3>1, Zenon
    <3> QED
      BY ONLY <1>6, <3>1, <3>2, Zenon
  <2>5. recv.seq = send.seq
    BY <1>6
  <2> SUFFICES ASSUME NEW i \in (at + 1)..(at + n)
               PROVE  /\ w[i - at] \in Bytes /\ w[i - at].seq = recv.seq
                      /\ w[i - at].len = send.len /\ w[i - at].pos = i
    OBVIOUS
  <2>6. /\ w[i - at] \in Bytes
        /\ w[i - at] = [seq |-> send.seq, len |-> send.len, pos |-> i]
    BY <2>3, <2>4, Zenon
  <2> QED
    BY ONLY <2>5, <2>6
<1>8. buffer \in [Positions -> Bytes \cup {NULL}]
  <2>1. ASSUME NEW i \in Positions
        PROVE  (IF i \in (at + 1)..(at + n) THEN w[i - at]
                ELSE recv.buffer[i]) \in Bytes \cup {NULL}
    <3>1. CASE i \in (at + 1)..(at + n)
      BY ONLY <1>7, <3>1
    <3>2. CASE i \notin (at + 1)..(at + n)
      BY ONLY <1>1, <2>1, <3>2
    <3> QED
      BY <3>1, <3>2
  <2>2. [i \in Positions |-> IF i \in (at + 1)..(at + n) THEN w[i - at]
                           ELSE recv.buffer[i]]
           \in [Positions -> Bytes \cup {NULL}]
    BY ONLY <2>1, Zenon
  <2>3. buffer = [i \in Positions |-> IF i \in (at + 1)..(at + n)
                                      THEN w[i - at] ELSE recv.buffer[i]]
    OBVIOUS
  <2> QED
    BY ONLY <2>2, <2>3
<1>9. next \in Receivers
  <2>1. /\ recv.cursor + recv.read_count \in Nat /\ n \in Nat
        /\ recv.count + n \in Nat /\ recv.ret + n \in Int
    <3>1. recv.count \in Nat /\ n \in Nat /\ recv.ret \in Int
      BY <1>1
    <3>2. recv.cursor \in Nat /\ recv.read_count \in Nat
      BY <1>1
    <3> QED
      BY ONLY <3>1, <3>2, SMTT(30)
  <2> QED
    BY <1>8, <2>1 DEF Receivers
<1>10. /\ next.pc = recv.pc /\ next.seq = recv.seq /\ next.base = recv.base
       /\ next.tot_len = recv.tot_len
       /\ next.cursor = recv.cursor + recv.read_count
       /\ next.read_count = n /\ next.count = recv.count + n
       /\ next.ret = recv.ret + n /\ next.buffer = buffer
  BY DEF Receivers
<1>11. Got(next) = at + n /\ Busy(next) /\ ~(next.ret < 0)
  BY <1>1, <1>2, <1>3, <1>4, <1>10, SMTT(30) DEF Got, Busy
<1>12. \A i \in Positions :
          buffer[i] = IF i \in (at + 1)..(at + n) THEN w[i - at]
                      ELSE recv.buffer[i]
  OBVIOUS
<1>13. NULL \notin Bytes
  BY NULLAssumption
<1>14. Filled(next)
  <2> SUFFICES ASSUME NEW i \in Positions
               PROVE  IF i <= at + n
                      THEN /\ buffer[i] # NULL /\ buffer[i].seq = recv.seq
                           /\ buffer[i].pos = i
                      ELSE buffer[i] = NULL
    BY <1>10, <1>11, SMTT(30) DEF Filled
  <2>1. i \in Int /\ (i <= at \/ i \in (at + 1)..(at + n) \/ ~(i <= at + n))
    BY <1>4 DEF Positions
  <2>2. CASE i \in (at + 1)..(at + n)
    <3>1. i <= at + n
      BY <2>2
    <3> QED
      BY <1>7, <1>12, <1>13, <2>2, <3>1
  <2>3. CASE i \notin (at + 1)..(at + n)
    <3>1. buffer[i] = recv.buffer[i] /\ (i <= at + n <=> i <= at)
      BY <1>1, <1>4, <1>12, <2>1, <2>3, SMTT(30)
    <3> QED
      BY <1>3, <1>4, <3>1 DEF Filled
  <2> QED
    BY <2>2, <2>3
<1>15. ReceiveLocals(next)
  <2>1. /\ next.cursor + next.read_count = next.count
        /\ next.count <= next.tot_len /\ next.ret = Got(next)
    BY <1>1, <1>2, <1>3, <1>4, <1>10, <1>11, SMTT(30)
  <2>2. recv.pc = "data" => msg_len(next) = msg_len(recv)
    <3>1. recv.pc = "data" => HeaderLen <= at
      BY <1>1, <1>4 DEF ReceiveLocals
    <3>2. HeaderLen \in Positions
      BY <1>1, SMTT(30) DEF Positions
    <3>3. recv.pc = "data" => buffer[HeaderLen] = recv.buffer[HeaderLen]
      BY <1>1, <1>4, <1>12, <3>1, <3>2
    <3> QED
      BY <1>10, <3>3 DEF msg_len
  <2>3. next.pc # "returned"
    BY <1>3, <1>10
  <2> QED
    BY <1>10, <1>11, <1>14, <2>1, <2>2, <2>3 DEF ReceiveLocals
<1>16. Stream(send, next, SubSeq(w, n + 1, Len(w)))
  <2>1. Taken(send, next) = at + n
    BY <1>1, <1>6, <1>10, <1>11 DEF Taken
  <2>2. at + n <= Written(send)
    BY <1>1, <1>4, <1>5, <1>6
  <2>3. SubSeq(w, n + 1, Len(w)) = Run(send, at + n, Written(send))
    <3> DEFINE b == Written(send)
               s == Run(send, at, b)
    <3>1. at \in Nat /\ b \in Nat /\ n \in Nat /\ at + n <= b
      BY <1>1, <1>4, <1>6, <2>2
    <3> HIDE DEF b
    <3>2. SubSeq(s, n + 1, Len(s)) = Run(send, at + n, b)
      BY ONLY <3>1, RunShortens, Zenon
    <3>3. w = s
      BY <1>6 DEF b
    <3> HIDE DEF s
    <3> QED
      BY ONLY <3>2, <3>3, Zenon DEF b
  <2>4. ASSUME NEW i \in 1..(at + n) PROVE buffer[i].len = send.len
    <3>1. i \in Positions
      <4>1. at + n \in (at + 1)..(at + n)
        <5>1. at \in Nat /\ n \in Nat /\ n # 0
          BY <1>1, <1>4
        <5> QED
          BY ONLY <5>1
      <4>2. at + n \in Positions
        BY <1>7, <4>1 DEF Bytes
      <4> QED
        BY <1>1, <1>4, <4>2 DEF Positions
    <3>2. CASE i \in (at + 1)..(at + n)
      BY <1>7, <1>12, <3>1, <3>2
    <3>3. CASE i \notin (at + 1)..(at + n)
      <4>1. i \in 1..at
        BY <1>1, <1>4, <3>3
      <4> QED
        BY <1>2, <1>4, <1>6, <1>12, <3>1, <3>3, <4>1 DEF Stream
    <3> QED
      BY <3>2, <3>3
  <2> QED
    BY <1>6, <1>10, <1>11, <2>1, <2>2, <2>3, <2>4 DEF Stream
<1> QED
  BY <1>9, <1>10, <1>11, <1>15, <1>16

LEMMA ReadSomeStep ==
    ASSUME StreamInv, NEW p \in Parties, ReadSome(p), UNCHANGED ipc_type
    PROVE  StreamInv'
<1> DEFINE in == wire[Peer(p)]
           at == rx[p].base + rx[p].cursor + rx[p].read_count
<1>0. Peer(p) \in Parties /\ Peer(Peer(p)) = p
  BY PeerOfParty
<1>1. /\ rx[p] \in Receivers /\ ReceiveLocals(rx[p])
      /\ TakesTurns(p, tx[p], rx[p])
      /\ rx[p].ret < 0 => ~Busy(rx[p]) /\ Peer(p) \in closed
  BY OfParty
<1>2. /\ tx[Peer(p)] \in Senders /\ SendLocals(tx[Peer(p)])
      /\ in \in Seq(Bytes)
  BY <1>0, OfParty
<1>3. rx \in [Parties -> Receivers]
  BY DEF StreamInv, TypeOK
<1>4. /\ InLoop(rx[p]) /\ p \notin closed
      /\ UNCHANGED <<ipc_type, closed, tx>>
  BY DEF ReadSome
<1>5. PICK n \in 1..Min(rx[p].tot_len - rx[p].count, Len(in)) :
         /\ wire' = [wire EXCEPT ![Peer(p)] = SubSeq(in, n + 1, Len(in))]
         /\ rx' = [rx EXCEPT
               ![p].cursor = @ + rx[p].read_count,
               ![p].read_count = n,
               ![p].count = @ + n,
               ![p].ret = @ + n,
               ![p].buffer = [i \in Positions |->
                   IF i \in (at + 1)..(at + n) THEN in[i - at] ELSE @[i]]]
  BY Zenon DEF ReadSome
<1>6. n \in 1..(rx[p].tot_len - rx[p].count) /\ n <= Len(in)
  <2>1. rx[p].tot_len - rx[p].count \in Int /\ Len(in) \in Int
    BY <1>1, <1>2, ParametersAssumption DEF Receivers
  <2> HIDE DEF in
  <2> QED
    BY <2>1 DEF Min
<1>7. PICK buffer : buffer = [i \in Positions |->
         IF i \in (at + 1)..(at + n) THEN in[i - at] ELSE rx[p].buffer[i]]
  OBVIOUS
<1>8. PICK next : next = AfterRead(rx[p], in, n)
  OBVIOUS
<1>9. rx' = [rx EXCEPT ![p] = next]
  <2>1. rx' = [rx EXCEPT
               ![p].cursor = rx[p].cursor + rx[p].read_count,
               ![p].read_count = n,
               ![p].count = rx[p].count + n,
               ![p].ret = rx[p].ret + n,
               ![p].buffer = buffer]
    BY <1>5, <1>7, Zenon
  <2>2. next = [rx[p] EXCEPT
               !.cursor = rx[p].cursor + rx[p].read_count, !.read_count = n,
               !.count = rx[p].count + n, !.ret = rx[p].ret + n,
               !.buffer = buffer]
    BY <1>7, <1>8, Zenon DEF AfterRead
  <2> HIDE DEF in, at
  <2> QED
    BY ONLY <1>1, <1>3, <2>1, <2>2
<1>10. ~(rx[p].ret < 0)
  BY <1>1, <1>4 DEF InLoop, Busy
<1>11. Stream(tx[Peer(p)], rx[p], in)
  <2>1. Reads(p)
    BY <1>1, <1>4, <1>10 DEF Reads, Receivers
  <2> QED
    BY <1>0, <2>1, OfParty
<1>12. /\ next \in Receivers /\ ReceiveLocals(next) /\ ~(next.ret < 0)
       /\ next.pc = rx[p].pc /\ next.seq = rx[p].seq
       /\ Stream(tx[Peer(p)], next, SubSeq(in, n + 1, Len(in)))
  <2> HIDE DEF in
  <2> DEFINE s == tx[Peer(p)]
             r == rx[p]
  <2>1. /\ s \in Senders /\ SendLocals(s) /\ r \in Receivers
        /\ ReceiveLocals(r) /\ InLoop(r) /\ ~(r.ret < 0)
        /\ in \in Seq(Bytes) /\ Stream(s, r, in)
        /\ n \in 1..(r.tot_len - r.count) /\ n <= Len(in)
        /\ next = AfterRead(r, in, n)
    BY ONLY <1>1, <1>2, <1>4, <1>6, <1>8, <1>10, <1>11
  <2> HIDE DEF s, r
  <2>2. /\ next \in Receivers /\ ReceiveLocals(next) /\ ~(next.ret < 0)
        /\ next.pc = r.pc /\ next.seq = r.seq
        /\ Stream(s, next, SubSeq(in, n + 1, Len(in)))
    BY ONLY <2>1, Reading, SMTT(30)
  <2> QED
    BY ONLY <2>2, Zenon DEF s, r
<1>13. PICK w : w = SubSeq(in, n + 1, Len(in))
  OBVIOUS
<1> HIDE DEF in, at
<1>14. w \in Seq(Bytes)
  BY <1>2, <1>6, <1>13, SubSeqProperties, ElementOfSeq, LenProperties
<1>15. wire' = [wire EXCEPT ![Peer(p)] = w]
  BY <1>5, <1>13, Zenon DEF in
<1>16. TakesTurns(p, tx[p], next)
  BY <1>1, <1>12 DEF TakesTurns, Before
<1>17. Stream(tx[Peer(p)], next, w)
  BY <1>12, <1>13
<1> QED
  BY <1>4, <1>9, <1>12, <1>14, <1>15, <1>16, <1>17, ReceiverStep

LEMMA ReadRetriesStep ==
    ASSUME StreamInv, NEW p \in Parties, ReadRetries(p), UNCHANGED ipc_type
    PROVE  StreamInv'
<1> SUFFICES ASSUME NEW recv, rx[p] = recv
             PROVE  StreamInv'
  OBVIOUS
<1> DEFINE next == [recv EXCEPT !.cursor = recv.cursor + recv.read_count,
                                !.read_count = 0]
<1>1. /\ recv \in Receivers /\ ReceiveLocals(recv)
      /\ TakesTurns(p, tx[p], recv)
      /\ recv.ret < 0 => ~Busy(recv) /\ Peer(p) \in closed
  BY OfParty
<1>2. rx \in [Parties -> Receivers]
  BY DEF StreamInv, TypeOK
<1>3. InLoop(recv) /\ UNCHANGED <<ipc_type, wire, closed, tx>>
  BY DEF ReadRetries
<1>4. rx' = [rx EXCEPT ![p] = next]
  BY <1>1, <1>2 DEF ReadRetries
<1>5. /\ next.pc = recv.pc /\ next.seq = recv.seq /\ next.base = recv.base
      /\ next.tot_len = recv.tot_len
      /\ next.cursor = recv.cursor + recv.read_count
      /\ next.read_count = 0 /\ next.count = recv.count
      /\ next.ret = recv.ret /\ next.buffer = recv.buffer
  BY <1>1 DEF Receivers
<1>6. next \in Receivers
  <2>1. recv.cursor + recv.read_count \in Nat
    BY <1>1 DEF Receivers
  <2> QED
    BY <1>1, <2>1 DEF Receivers
<1> HIDE DEF next
<1>7. (Busy(next) <=> Busy(recv)) /\ Got(next) = Got(recv)
  BY <1>5 DEF Busy, Got
<1>8. ReceiveLocals(next)
  <2>1. recv.cursor + recv.read_count + 0 = recv.cursor + recv.read_count
    BY <1>1 DEF Receivers
  <2>2. Filled(next) <=> Filled(recv)
    BY <1>5, <1>7 DEF Filled
  <2>3. msg_len(next) = msg_len(recv)
    BY <1>5 DEF msg_len
  <2> QED
    BY <1>1, <1>5, <1>7, <2>1, <2>2, <2>3 DEF ReceiveLocals
<1>9. TakesTurns(p, tx[p], next)
  BY <1>1, <1>5 DEF TakesTurns, Before
<1>10. p \notin closed /\ next.ret >= 0 =>
          Stream(tx[Peer(p)], next, wire[Peer(p)])
  BY <1>5, <1>7, PeerOfParty, OfParty, StreamWaits DEF Reads
<1> QED
  BY <1>1, <1>3, <1>4, <1>5, <1>6, <1>7, <1>8, <1>9, <1>10, QuietReceiver

LEMMA PeerClosedStep ==
    ASSUME StreamInv, NEW p \in Parties, PeerClosed(p), UNCHANGED ipc_type
    PROVE  StreamInv'
<1> SUFFICES ASSUME NEW recv, rx[p] = recv
             PROVE  StreamInv'
  OBVIOUS
<1>1. recv \in Receivers /\ TakesTurns(p, tx[p], recv)
  BY OfParty
<1>2. rx \in [Parties -> Receivers]
  BY DEF StreamInv, TypeOK
<1>3. PICK status \in {COMM_STATUS_PEER_CLOSE, COMM_STATUS_GENERIC} :
         rx' = [rx EXCEPT ![p].pc = "returned", ![p].ret = status]
  BY DEF PeerClosed
<1>4. /\ InLoop(recv) /\ Peer(p) \in closed
      /\ UNCHANGED <<ipc_type, wire, closed, tx>>
  BY DEF PeerClosed
<1> DEFINE next == [recv EXCEPT !.pc = "returned", !.ret = status]
<1>5. rx' = [rx EXCEPT ![p] = next]
  BY <1>1, <1>2, <1>3
<1>6. status \in Int /\ status < 0
  BY DEF COMM_STATUS_PEER_CLOSE, COMM_STATUS_GENERIC
<1>7. next.pc = "returned" /\ next.seq = recv.seq /\ next.ret = status
  BY <1>1 DEF Receivers
<1>8. next \in Receivers
  BY <1>1, <1>6 DEF Receivers
<1> HIDE DEF next
<1>9. ReceiveLocals(next) /\ ~Busy(next) /\ ~(next.ret >= 0)
  BY <1>6, <1>7 DEF ReceiveLocals, Busy
<1>10. TakesTurns(p, tx[p], next)
  <2>1. recv.pc # "idle" /\ Before(p, next) = Before(p, recv)
    BY <1>4, <1>7 DEF InLoop, Before
  <2> QED
    BY <1>1, <1>7, <2>1 DEF TakesTurns
<1> QED
  BY <1>4, <1>5, <1>8, <1>9, <1>10, QuietReceiver

LEMMA HeaderReceivedStep ==
    ASSUME StreamInv, NEW p \in Parties, HeaderReceived(p),
           UNCHANGED ipc_type
    PROVE  StreamInv'
<1> SUFFICES ASSUME NEW recv, rx[p] = recv
             PROVE  StreamInv'
  OBVIOUS
<1> DEFINE next == [recv EXCEPT !.pc = "data", !.base = HeaderLen,
                                !.tot_len = msg_len(recv), !.cursor = 0,
                                !.read_count = 0, !.count = 0]
<1>1. /\ recv \in Receivers /\ ReceiveLocals(recv)
      /\ TakesTurns(p, tx[p], recv)
      /\ recv.ret < 0 => ~Busy(recv) /\ Peer(p) \in closed
  BY OfParty
<1>2. /\ recv.pc = "header" /\ recv.count = recv.tot_len
      /\ UNCHANGED <<ipc_type, wire, closed, tx>>
  BY DEF HeaderReceived, LoopDone
<1>3. rx' = [rx EXCEPT ![p] = next]
  BY Zenon DEF HeaderReceived
<1>4. /\ Busy(recv) /\ recv.count = HeaderLen /\ Got(recv) = HeaderLen
      /\ Filled(recv) /\ recv.ret = HeaderLen
  BY <1>1, <1>2 DEF ReceiveLocals, Busy, Got
<1>5. HeaderLen \in Positions /\ HeaderLen \in Nat /\ HeaderLen # 0
  BY ParametersAssumption DEF Positions
<1>6. msg_len(recv) \in 0..MaxLen
  <2>1. recv.buffer[HeaderLen] \in Bytes \cup {NULL}
    BY <1>1, <1>5 DEF Receivers
  <2>2. recv.buffer[HeaderLen] # NULL
    BY <1>4, <1>5 DEF Filled
  <2> QED
    BY <2>1, <2>2 DEF msg_len, Bytes
<1>7. /\ next.pc = "data" /\ next.seq = recv.seq /\ next.base = HeaderLen
      /\ next.tot_len = msg_len(recv) /\ next.cursor = 0
      /\ next.read_count = 0 /\ next.count = 0 /\ next.ret = recv.ret
      /\ next.buffer = recv.buffer
  BY <1>1 DEF Receivers
<1>8. next \in Receivers
  <2>1. /\ HeaderLen \in 0..HeaderLen /\ 0 \in Nat
        /\ msg_len(recv) \in 0..(HeaderLen + MaxLen)
    BY <1>5, <1>6, ParametersAssumption
  <2> QED
    BY <1>1, <2>1 DEF Receivers
<1> HIDE DEF next
<1>9. Got(next) = Got(recv) /\ Busy(next)
  BY <1>4, <1>5, <1>7 DEF Got, Busy
<1>10. Filled(next) /\ msg_len(next) = msg_len(recv)
  BY <1>4, <1>7, <1>9 DEF Filled, msg_len
<1>11. ReceiveLocals(next)
  <2>1. /\ next.cursor + next.read_count = next.count
        /\ next.count <= next.tot_len /\ next.ret = Got(next)
    BY <1>4, <1>6, <1>7, <1>9
  <2> QED
    BY <1>7, <1>10, <2>1 DEF ReceiveLocals
<1>12. TakesTurns(p, tx[p], next)
  BY <1>1, <1>2, <1>7 DEF TakesTurns, Before
<1>13. p \notin closed /\ next.ret >= 0 =>
          Stream(tx[Peer(p)], next, wire[Peer(p)])
  BY <1>4, <1>5, <1>7, <1>9, PeerOfParty, OfParty, StreamWaits DEF Reads
<1>14. ~(next.ret < 0)
  BY <1>4, <1>5, <1>7
<1> QED
  BY <1>2, <1>3, <1>8, <1>11, <1>12, <1>13, <1>14, QuietReceiver

LEMMA DataReceivedStep ==
    ASSUME StreamInv, NEW p \in Parties, DataReceived(p), UNCHANGED ipc_type
    PROVE  StreamInv'
<1> SUFFICES ASSUME NEW recv, rx[p] = recv, NEW send, tx[Peer(p)] = send
             PROVE  StreamInv'
  OBVIOUS
<1> DEFINE next == [recv EXCEPT !.pc = "returned"]
<1>1. /\ recv \in Receivers /\ ReceiveLocals(recv)
      /\ TakesTurns(p, tx[p], recv)
      /\ recv.ret < 0 => ~Busy(recv) /\ Peer(p) \in closed
  BY OfParty
<1>2. /\ recv.pc = "data" /\ recv.count = recv.tot_len
      /\ UNCHANGED <<ipc_type, wire, closed, tx>>
  BY DEF DataReceived, LoopDone
<1>3. rx' = [rx EXCEPT ![p] = next]
  BY Zenon DEF DataReceived
<1>4. /\ Busy(recv) /\ recv.tot_len = msg_len(recv)
      /\ Got(recv) = HeaderLen + msg_len(recv)
      /\ Filled(recv) /\ recv.ret = Got(recv)
  BY <1>1, <1>2 DEF ReceiveLocals, Busy, Got
<1>5. HeaderLen \in Positions /\ HeaderLen \in Nat /\ HeaderLen # 0
  BY ParametersAssumption DEF Positions
<1>6. recv.buffer[HeaderLen] \in Bytes /\ recv.seq # 0
      /\ msg_len(recv) \in 0..MaxLen
  <2>1. recv.buffer[HeaderLen] \in Bytes \cup {NULL}
    BY <1>1, <1>5 DEF Receivers
  <2>2. msg_len(recv) \in Nat
    BY <1>1, <1>4 DEF Receivers
  <2>3. HeaderLen <= Got(recv)
    BY <1>4, <1>5, <2>2
  <2>4. /\ recv.buffer[HeaderLen] # NULL
        /\ recv.buffer[HeaderLen].seq = recv.seq
    BY <1>4, <1>5, <2>3 DEF Filled
  <2> QED
    BY <2>1, <2>4 DEF msg_len, Bytes
<1>7. /\ next.pc = "returned" /\ next.seq = recv.seq /\ next.ret = recv.ret
      /\ next.buffer = recv.buffer
  BY <1>1 DEF Receivers
<1>8. next \in Receivers
  BY <1>1 DEF Receivers
<1> HIDE DEF next
<1>9. ~Busy(next) /\ msg_len(next) = msg_len(recv)
  BY <1>7 DEF Busy, msg_len
<1>10. ReceiveLocals(next)
  <2>1. recv.buffer[HeaderLen] # NULL
    BY <1>6, NULLAssumption
  <2>2. ASSUME NEW i \in 1..recv.ret PROVE recv.buffer[i] # NULL
    <3>1. i \in Positions /\ i <= Got(recv)
      BY <1>4, <1>5, <1>6, ParametersAssumption DEF Positions
    <3> QED
      BY <1>4, <3>1 DEF Filled
  <2> QED
    BY <1>4, <1>7, <1>9, <2>1, <2>2 DEF ReceiveLocals
<1>11. TakesTurns(p, tx[p], next)
  BY <1>1, <1>2, <1>7 DEF TakesTurns, Before
<1>12. ASSUME p \notin closed, next.ret >= 0
       PROVE  Stream(send, next, wire[Peer(p)])
  <2>1. Stream(send, recv, wire[Peer(p)]) /\ send \in Senders
    BY <1>7, <1>12, PeerOfParty, OfParty DEF Reads
  <2>2. recv.seq = send.seq
    BY <1>2, <1>4, <2>1 DEF Stream
  <2>3. recv.buffer[HeaderLen].len = send.len
    <3>1. HeaderLen \in 1..Got(recv)
      BY <1>4, <1>5, <1>6
    <3> QED
      BY <1>4, <2>1, <2>2, <3>1 DEF Stream
  <2>4. Taken(send, recv) = Got(recv) /\ Taken(send, next) = Whole(send)
    BY <1>4, <1>7, <1>9, <2>1, <2>2 DEF Taken, Senders
  <2>5. Whole(send) = Got(recv)
    BY <1>4, <1>6, <2>2, <2>3 DEF Whole, msg_len
  <2> QED
    BY <1>7, <1>9, <2>1, <2>2, <2>4, <2>5 DEF Stream
<1>13. ~(next.ret < 0)
  BY <1>4, <1>5, <1>6, <1>7
<1> QED
  BY <1>2, <1>3, <1>8, <1>10, <1>11, <1>12, <1>13, QuietReceiver

LEMMA ReceiveReturnsStep ==
    ASSUME StreamInv, NEW p \in Parties, ReceiveReturns(p),
           UNCHANGED ipc_type
    PROVE  StreamInv'
<1> SUFFICES ASSUME NEW recv, rx[p] = recv
             PROVE  StreamInv'
  OBVIOUS
<1> DEFINE next == [recv EXCEPT !.pc = "idle"]
<1>1. /\ recv \in Receivers /\ TakesTurns(p, tx[p], recv)
      /\ recv.ret < 0 => ~Busy(recv) /\ Peer(p) \in closed
  BY OfParty
<1>2. recv.pc = "returned" /\ UNCHANGED <<ipc_type, wire, closed, tx>>
  BY DEF ReceiveReturns
<1>3. rx' = [rx EXCEPT ![p] = next]
  <2>1. rx \in [Parties -> Receivers]
    BY DEF StreamInv, TypeOK
  <2> QED
    BY <1>1, <2>1 DEF ReceiveReturns
<1>4. /\ next.pc = "idle" /\ next.seq = recv.seq /\ next.ret = recv.ret
      /\ next.buffer = recv.buffer
  BY <1>1 DEF Receivers
<1>5. next \in Receivers
  BY <1>1 DEF Receivers
<1> HIDE DEF next
<1>6. ~Busy(next) /\ ~Busy(recv) /\ ReceiveLocals(next)
  BY <1>2, <1>4 DEF Busy, ReceiveLocals
<1>7. TakesTurns(p, tx[p], next)
  BY <1>1, <1>2, <1>4 DEF TakesTurns, Before
<1>8. p \notin closed /\ next.ret >= 0 =>
         Stream(tx[Peer(p)], next, wire[Peer(p)])
  BY <1>2, <1>4, <1>6, PeerOfParty, OfParty, StreamWaits DEF Reads
<1> QED
  BY <1>1, <1>2, <1>3, <1>4, <1>5, <1>6, <1>7, <1>8, QuietReceiver

LEMMA CloseEndStep ==
    ASSUME StreamInv, NEW p \in Parties, CloseEnd(p), UNCHANGED ipc_type
    PROVE  StreamInv'
<1>1. /\ closed' = closed \cup {p}
      /\ ipc_type' = ipc_type /\ wire' = wire /\ tx' = tx /\ rx' = rx
  BY DEF CloseEnd
<1>2. TypeOK'
  BY <1>1 DEF StreamInv, TypeOK
<1>3. \A q \in Parties : /\ q \in closed => q \in closed'
                         /\ Reads(q)' => Reads(q)
  BY <1>1 DEF Reads
<1>4. LocalsInStep'
  BY <1>1, <1>3, PeerOfParty DEF StreamInv, LocalsInStep
<1>5. PartiesTakeTurns'
  BY <1>1 DEF StreamInv, PartiesTakeTurns
<1>6. StreamsInStep'
  BY <1>1, <1>3, PeerOfParty DEF StreamInv, StreamsInStep
<1> QED
  BY <1>2, <1>4, <1>5, <1>6 DEF StreamInv

-----------------------------------------------------------------------------
(* The invariant                                                           *)

LEMMA StreamInvInit ==
    ASSUME Init PROVE StreamInv
<1> DEFINE send == [pc |-> "idle", op |-> "send", seq |-> 0, len |-> 0,
                    given |-> 0, base |-> 0, tot_len |-> 0, cursor |-> 0,
                    write_count |-> 0, count |-> 0, ret |-> 0,
                    put |-> << >>]
           recv == [pc |-> "idle", seq |-> 0, base |-> 0, tot_len |-> 0,
                    cursor |-> 0, read_count |-> 0, count |-> 0, ret |-> 0,
                    buffer |-> [i \in Positions |-> NULL]]
<1>1. \A p \in Parties : wire[p] = << >> /\ tx[p] = send /\ rx[p] = recv
  BY DEF Init
<1>2. send \in Senders /\ recv \in Receivers
  <2>1. /\ 0 \in 0..MaxMsgs /\ 0 \in 0..MaxLen /\ 0 \in 0..HeaderLen
        /\ 0 \in 0..(HeaderLen + MaxLen) /\ 0 \in Nat /\ 0 \in Int
        /\ << >> \in Seq(Bytes)
    BY EmptySeq, ParametersAssumption
  <2>2. send \in Senders
    BY <2>1 DEF Senders
  <2>3. recv \in Receivers
    BY <2>1 DEF Receivers
  <2> QED
    BY <2>2, <2>3
<1>3. TypeOK
  <2>1. tx = [p \in Parties |-> send] /\ rx = [p \in Parties |-> recv]
    BY DEF Init
  <2> HIDE DEF send, recv
  <2>2. tx \in [Parties -> Senders] /\ rx \in [Parties -> Receivers]
    BY <1>2, <2>1
  <2>3. wire \in [Parties -> Seq(Bytes)]
    BY EmptySeq DEF Init
  <2> QED
    BY <2>2, <2>3 DEF Init, TypeOK
<1>4. /\ send.pc = "idle" /\ send.seq = 0 /\ send.len = 0
      /\ send.given = 0 /\ send.ret = 0
      /\ recv.pc = "idle" /\ recv.seq = 0 /\ recv.ret = 0
  OBVIOUS
<1> HIDE DEF send, recv
<1>5. SendLocals(send) /\ ~Busy(send) /\ ~(send.ret < 0)
  BY <1>4 DEF SendLocals, Puts, Busy
<1>6. ReceiveLocals(recv) /\ ~Busy(recv) /\ ~(recv.ret < 0)
  BY <1>4 DEF ReceiveLocals, Busy
<1>7. \A p \in Parties : TakesTurns(p, send, recv)
  BY <1>4 DEF TakesTurns, Before
<1>8. Stream(send, recv, << >>)
  <2>1. Written(send) = 0 /\ Whole(send) = 0
    BY <1>4 DEF Written, Whole
  <2>2. Taken(send, recv) = 0
    BY <1>4, <1>6, <2>1 DEF Taken
  <2>3. Run(send, 0, 0) = << >>
    BY RunEmpty
  <2> QED
    BY <1>4, <1>6, <2>1, <2>2, <2>3 DEF Stream
<1>9. LocalsInStep
  BY <1>1, <1>5, <1>6 DEF LocalsInStep
<1>10. PartiesTakeTurns
  BY <1>1, <1>7 DEF PartiesTakeTurns
<1>11. StreamsInStep
  BY <1>1, <1>8, PeerOfParty DEF StreamsInStep
<1> QED
  BY <1>3, <1>9, <1>10, <1>11 DEF StreamInv

\* Whatever its name, a call that sends begins a header or a piece of data.
LEMMA SendCalls ==
    ASSUME SendCall
    PROVE  \/ \E p \in Parties, op \in {"send", "send_header"},
                 len \in 0..MaxLen : \E w \in 0..len :
                    BeginHeader(p, op, len, w)
           \/ \E p \in Parties, w \in 1..MaxLen : BeginData(p, w)
<1>1. "client" \in Parties /\ "server" \in Parties
  BY DEF Parties
<1>2. ASSUME NEW len \in 0..MaxLen,
             \/ comm_client_send_header(len)
             \/ comm_servresp_send_header(len)
      PROVE  \E p \in Parties : BeginHeader(p, "send_header", len, 0)
  BY <1>1, <1>2 DEF comm_client_send_header, comm_servresp_send_header,
     comm_tcp_client_send_header, comm_tcp_servresp_send_header,
     comm_unix_servresp_send_header
<1>3. ASSUME NEW len \in 0..MaxLen, NEW w \in 0..len,
             comm_client_send(len, w) \/ comm_servresp_send(len, w)
      PROVE  \E p \in Parties : BeginHeader(p, "send", len, w)
  BY <1>1, <1>3 DEF comm_client_send, comm_servresp_send,
     comm_tcp_client_send, comm_unix_client_send, comm_tcp_servresp_send,
     comm_unix_servresp_send
<1>4. ASSUME NEW w \in 1..MaxLen,
             comm_client_send_data(w) \/ comm_servresp_send_data(w)
      PROVE  \E p \in Parties : BeginData(p, w)
  BY <1>1, <1>4 DEF comm_client_send_data, comm_servresp_send_data,
     comm_tcp_client_send_data, comm_tcp_servresp_send_data,
     comm_unix_servresp_send_data
<1>5. CASE \E len \in 0..MaxLen :
              \/ comm_client_send_header(len)
              \/ comm_servresp_send_header(len)
  <2>1. PICK len \in 0..MaxLen : \/ comm_client_send_header(len)
                                 \/ comm_servresp_send_header(len)
    BY <1>5
  <2>2. PICK p \in Parties : BeginHeader(p, "send_header", len, 0)
    BY <1>2, <2>1
  <2>3. 0 \in 0..len
    BY ParametersAssumption
  <2> QED
    BY <2>2, <2>3
<1>6. CASE \E len \in 0..MaxLen : \E w \in 0..len :
              comm_client_send(len, w) \/ comm_servresp_send(len, w)
  <2>0. PICK len \in 0..MaxLen : \E w \in 0..len :
           comm_client_send(len, w) \/ comm_servresp_send(len, w)
    BY <1>6
  <2>1. PICK w \in 0..len :
           comm_client_send(len, w) \/ comm_servresp_send(len, w)
    BY <2>0
  <2>2. PICK p \in Parties : BeginHeader(p, "send", len, w)
    BY <1>3, <2>1
  <2> QED
    BY <2>2
<1>7. CASE \E w \in 1..MaxLen :
              comm_client_send_data(w) \/ comm_servresp_send_data(w)
  BY <1>4, <1>7
<1> QED
  BY <1>5, <1>6, <1>7 DEF SendCall

LEMMA StreamInvStep ==
    ASSUME StreamInv, [Next]_<<ipc_type, vars>>
    PROVE  StreamInv'
<1>1. ASSUME UNCHANGED <<ipc_type, vars>> PROVE StreamInv'
  <2>1. /\ ipc_type' = ipc_type /\ wire' = wire /\ closed' = closed
        /\ tx' = tx /\ rx' = rx
    BY <1>1 DEF vars
  <2> QED
    BY <2>1 DEF StreamInv, TypeOK, LocalsInStep, PartiesTakeTurns,
       StreamsInStep, Reads
<1>2. SUFFICES ASSUME Next PROVE StreamInv'
  BY <1>1
<1>3. ipc_type' = ipc_type
  BY <1>2 DEF Next
<1>4. CASE SendCall
  BY <1>3, <1>4, SendCalls, BeginHeaderStep, BeginDataStep
<1>5. CASE comm_client_wait \/ comm_worker_read
  <2>1. PICK p \in Parties : BeginReceive(p)
    BY <1>5 DEF comm_client_wait, comm_worker_read, comm_tcp_client_wait,
       comm_unix_client_wait, Parties
  <2> QED
    BY <1>3, <2>1, BeginReceiveStep
<1>6. ASSUME NEW p \in Parties, SendStep(p) \/ WriteRetries(p)
      PROVE  StreamInv'
  BY <1>3, <1>6, WriteSomeStep, WriteRetriesStep, WriteFailsStep,
     HeaderSentStep, DataSentStep DEF SendStep
<1>7. ASSUME NEW p \in Parties, ReceiveStep(p) \/ ReadRetries(p)
      PROVE  StreamInv'
  BY <1>3, <1>7, ReadSomeStep, ReadRetriesStep, PeerClosedStep,
     HeaderReceivedStep, DataReceivedStep, ReceiveReturnsStep
     DEF ReceiveStep
<1>8. ASSUME NEW p \in Parties, CloseEnd(p) PROVE StreamInv'
  BY <1>3, <1>8, CloseEndStep
<1> QED
  BY <1>2, <1>4, <1>5, <1>6, <1>7, <1>8 DEF Next

\* The bytes on a connection and the locals of the four loops stay in step:
\* what every theorem below rests on.
THEOREM StreamInvariant == Spec => []StreamInv
<1>1. Init => StreamInv
  BY StreamInvInit
<1>2. StreamInv /\ [Next]_<<ipc_type, vars>> => StreamInv'
  BY StreamInvStep
<1> QED
  BY <1>1, <1>2, PTL DEF Spec

\* Counters, lengths and the place of a loop in its message keep to their
\* ranges: no pointer leaves the header and the data of one message.
THEOREM TypeCorrect == Spec => []TypeOK
<1>1. StreamInv => TypeOK
  BY DEF StreamInv
<1> QED
  BY <1>1, StreamInvariant, PTL

\* The read loops of comm_client_wait and comm_worker_run store every byte
\* in its place and no byte of another message, however the stream is split.
THEOREM BufferCorrect == Spec => []BufferHoldsMessage
<1>1. StreamInv => BufferHoldsMessage
  BY DEF StreamInv, LocalsInStep, ReceiveLocals, Filled, Busy,
     BufferHoldsMessage
<1> QED
  BY <1>1, StreamInvariant, PTL

\* A receiving call returns the whole message and its length, or a negative
\* status, and that only when the peer has closed.
THEOREM ReceiveCorrect == Spec => []ReceiveResult
<1>1. ASSUME StreamInv PROVE ReceiveResult
  <2> SUFFICES ASSUME NEW p \in Parties, rx[p].pc = "returned"
               PROVE  IF rx[p].ret < 0 THEN Peer(p) \in closed
                      ELSE /\ rx[p].buffer[HeaderLen] # NULL
                           /\ rx[p].ret = HeaderLen + msg_len(rx[p])
                           /\ \A i \in 1..rx[p].ret : rx[p].buffer[i] # NULL
    BY DEF ReceiveResult
  <2>1. /\ ReceiveLocals(rx[p]) /\ rx[p] \in Receivers
        /\ rx[p].ret < 0 => Peer(p) \in closed
    BY <1>1, OfParty
  <2>2. rx[p].ret \in Int
    BY <2>1 DEF Receivers
  <2> QED
    BY <2>1, <2>2 DEF ReceiveLocals
<1> QED
  BY <1>1, StreamInvariant, PTL

\* A sending call puts on the wire exactly the bytes it was given and
\* returns their number, or it returns -1, and that only when the peer has
\* closed.
THEOREM SendCorrect == Spec => []SendResult
<1>1. ASSUME StreamInv PROVE SendResult
  <2> SUFFICES ASSUME NEW p \in Parties, tx[p].pc = "returned"
               PROVE  IF tx[p].ret = COMM_STATUS_GENERIC
                      THEN Peer(p) \in closed
                      ELSE /\ tx[p].put = Asked(tx[p])
                           /\ tx[p].ret = Len(Asked(tx[p]))
    BY DEF SendResult
  <2> DEFINE call == tx[p]
             last == HeaderLen + call.given
  <2>1. /\ SendLocals(call) /\ call \in Senders
        /\ call.ret < 0 => Peer(p) \in closed
    BY <1>1, OfParty
  <2>2. CASE call.ret # COMM_STATUS_GENERIC
    <3>1. /\ Start(call) \in Nat /\ Start(call) <= last /\ last \in Nat
          /\ call.put = Run(call, Start(call), last)
          /\ call.ret = last - Start(call)
      <4>1. Puts(call)
        BY <2>1 DEF SendLocals
      <4> QED
        BY <2>1, <2>2, <4>1, SenderFields DEF Puts
    <3> HIDE DEF call
    <3>2. Asked(call) = Run(call, Start(call), last)
      BY DEF Asked
    <3> HIDE DEF last
    <3>3. Len(Run(call, Start(call), last)) = last - Start(call)
      BY ONLY <3>1, RunProperties, Zenon
    <3> QED
      BY <2>2, <3>1, <3>2, <3>3 DEF call
  <2>3. CASE call.ret = COMM_STATUS_GENERIC
    <3>1. call.ret < 0
      BY <2>3 DEF COMM_STATUS_GENERIC
    <3> QED
      BY <2>1, <2>3, <3>1
  <2> QED
    BY <2>2, <2>3
<1> QED
  BY <1>1, StreamInvariant, PTL
=============================================================================
