------------------------------ MODULE Transfer ------------------------------
(***************************************************************************)
(* The TCP transfers of network/network.c: the send/receive buffers (srb)  *)
(* that the servers and the client hand to srb_operate.                    *)
(*                                                                         *)
(* An asynchronous transfer is a oneshot job of the I/O service, which is  *)
(* taken here by its promise, Reactor: the job tcp_send_recv_async_tpl     *)
(* moves some of the bytes and posts itself again until all are moved.     *)
(* Between the call of the job, which empties the slot of the socket and   *)
(* the operation, and its new post another thread may fill the slot.  A    *)
(* synchronous transfer is a loop in the caller's thread, under the mutex  *)
(* of the server or client that owns the sockets.                          *)
(*                                                                         *)
(* The bytes of a message to be sent are <<srb, 1>>, <<srb, 2>>, ...; the  *)
(* bytes the peer sends are 1, 2, 3, ..., and 0 is a byte of a receive     *)
(* buffer that was never written.  The wrappers refuse an empty buffer.    *)
(***************************************************************************)
EXTENDS Integers, Sequences, Reactor

CONSTANTS
  SendSize,   \* buffer_size of the buffers to send
  RecvSize,   \* buffer_size of the buffers to receive into
  Overlap,    \* may a transfer start while another of its kind is under way?
  Sync        \* are synchronous transfers used?

ASSUME SizeAssumption == SendSize \in Nat \ {0} /\ RecvSize \in Nat \ {0}
ASSUME UseAssumption == Overlap \in BOOLEAN /\ Sync \in BOOLEAN
ASSUME SrbAssumption == NULL \notin Jobs

VARIABLES
  phase,            \* of each srb: "unused", "posted" (in a slot), "job" (its
                    \* job was called), "repost" (the job is about to post
                    \* itself again), "sync" (in the synchronous loop),
                    \* "freed", "lost" (its post was dropped)
  skt,              \* the socket of each srb
  op,               \* srb->operation.op, as the operation of the service
  bytes_operated,   \* srb->bytes_operated
  data,             \* the contents of the buffer of a receiving srb
  result,           \* the callbacks made: their err and bytes
  consumed,         \* kernel: the number of bytes read from each socket
  out,              \* kernel: the bytes written to each socket
  torn,             \* history: the srbs of which a synchronous send has taken
                    \* only a part at a time
  closed,           \* the peer of each socket has closed it, and all its
                    \* bytes are read
  aborted           \* an assertion has failed

reactor == <<accepting, slot, inflight>>
srb == <<phase, skt, op, bytes_operated, data, result>>
sockets == <<consumed, out, torn, closed>>
tvars == <<reactor, srb, sockets, aborted>>

Srbs == Jobs
SendOp == "write"
RecvOp == "read"
Size(o) == IF o = SendOp THEN SendSize ELSE RecvSize
Zeros == [i \in 1..RecvSize |-> 0]

TransferInit ==
  /\ Init
  /\ phase = [s \in Srbs |-> "unused"]
  /\ skt = [s \in Srbs |-> NULL]
  /\ op = [s \in Srbs |-> SendOp]
  /\ bytes_operated = [s \in Srbs |-> 0]
  /\ data = [s \in Srbs |-> Zeros]
  /\ result = [s \in Srbs |-> <<>>]
  /\ consumed = [fd \in Fds |-> 0]
  /\ out = [fd \in Fds |-> <<>>]
  /\ torn = {}
  /\ closed = [fd \in Fds |-> FALSE]
  /\ aborted = FALSE

(***************************************************************************)
(* Starting a transfer.                                                    *)
(***************************************************************************)
Outstanding == {s \in Srbs : phase[s] \in {"posted", "job", "repost", "sync"}}

\* A wrapper has the mutex of the owner: no synchronous transfer is running.
MayStart(s, fd, o) ==
  /\ ~aborted /\ phase[s] = "unused"
  /\ \A t \in Outstanding : phase[t] # "sync"
  /\ Overlap \/ \A t \in Outstanding : skt[t] # fd \/ op[t] # o

\* The service accepts the srb, or drops the post without a sign.
PostSrb(s, fd, o) ==
  \/ Post(fd, o, TRUE, s) /\ phase' = [phase EXCEPT ![s] = "posted"]
  \/ /\ ~accepting \/ slot[fd][o].job # NULL
     /\ phase' = [phase EXCEPT ![s] = "lost"]
     /\ UNCHANGED reactor

\* tcp_send_recv_async.
StartAsync(s, fd, o) ==
  /\ MayStart(s, fd, o)
  /\ skt' = [skt EXCEPT ![s] = fd]
  /\ op' = [op EXCEPT ![s] = o]
  /\ PostSrb(s, fd, o)
  /\ UNCHANGED <<bytes_operated, data, result, sockets, aborted>>

\* tcp_send_recv_sync up to its loop.  The endpoint is chosen by a local
\* variable that is not yet initialised; the one that is not the transfer's
\* has socket -1 and fails the assertion.
StartSync(s, fd, o, garbage) ==
  /\ Sync /\ MayStart(s, fd, o)
  /\ IF garbage = o
       THEN phase' = [phase EXCEPT ![s] = "sync"] /\ UNCHANGED aborted
       ELSE aborted' = TRUE /\ UNCHANGED phase
  /\ skt' = [skt EXCEPT ![s] = fd]
  /\ op' = [op EXCEPT ![s] = o]
  /\ UNCHANGED <<reactor, bytes_operated, data, result, sockets>>

(***************************************************************************)
(* Moving bytes.                                                           *)
(***************************************************************************)

\* recvmsg puts n bytes of the stream into the buffer at an offset, and
\* sendmsg takes n bytes of the buffer from there.
MoveBytes(s, offset, n) ==
  LET fd == skt[s]
  IN  IF op[s] = RecvOp
        THEN /\ data' = [data EXCEPT ![s] =
                  [i \in 1..RecvSize |-> IF i \in offset + 1 .. offset + n
                                         THEN consumed[fd] + i - offset ELSE @[i]]]
             /\ consumed' = [consumed EXCEPT ![fd] = @ + n]
             /\ UNCHANGED out
        ELSE /\ out' = [out EXCEPT ![fd] = @ \o [i \in 1..n |-> <<s, offset + i>>]]
             /\ UNCHANGED <<data, consumed>>

\* What sendmsg and recvmsg may move: up to len bytes; a read from a peer that
\* has closed finds the end of the stream.
Moved(s, len) == IF closed[skt[s]] /\ op[s] = RecvOp THEN {0} ELSE 1..len

\* The callback is called, the srb is freed.
Finish(s, err, bytes) ==
  /\ result' = [result EXCEPT ![s] = Append(@, [err |-> err, bytes |-> bytes])]
  /\ phase' = [phase EXCEPT ![s] = "freed"]

\* Mutant: the next call starts at the beginning of the buffer again.
OffsetZero(s) == 0

\* iov_base of the next call, relative to the buffer.
Offset(s) == bytes_operated[s]

\* Mutant: the count of the last call replaces the sum.
LastCount(s, n) == n

\* bytes_op += bytes_op_cur.
Total(s, n) == bytes_operated[s] + n

\* Mutant: a short transfer counts as a complete one.
IncompleteNever(s, bytes) == FALSE

\* Mutant: the test for the end is off by one.
IncompleteOrFull(s, bytes) == bytes <= Size(op[s])

\* bytes_op < buffer_size(buffer).
Incomplete(s, bytes) == bytes < Size(op[s])

\* tcp_send_recv_async_tpl: the service calls the job.
CallJob(s) ==
  /\ ~aborted
  /\ phase[s] = "posted" /\ slot[skt[s]][op[s]].job = s
  /\ Call(skt[s], op[s])
  /\ phase' = [phase EXCEPT ![s] = "job"]
  /\ UNCHANGED <<skt, op, bytes_operated, data, result, sockets, aborted>>

\* tcp_send_recv_async_tpl: sendmsg or recvmsg moves n bytes.
JobMoves(s, n) ==
  LET bytes == Total(s, n)
  IN  /\ ~aborted /\ phase[s] = "job"
      /\ n \in Moved(s, Size(op[s]) - Offset(s))
      /\ MoveBytes(s, Offset(s), n)
      /\ bytes_operated' = [bytes_operated EXCEPT ![s] = bytes]
      /\ IF Incomplete(s, bytes)
           THEN phase' = [phase EXCEPT ![s] = "repost"] /\ UNCHANGED result
           ELSE Finish(s, FALSE, bytes)
      /\ UNCHANGED <<reactor, skt, op, torn, closed, aborted>>

\* tcp_send_recv_async_tpl: EAGAIN.
JobAgain(s) ==
  /\ ~aborted /\ phase[s] = "job"
  /\ phase' = [phase EXCEPT ![s] = "repost"]
  /\ UNCHANGED <<reactor, skt, op, bytes_operated, data, result, sockets, aborted>>

\* tcp_send_recv_async_tpl: any other error; the peer has closed.
JobFails(s) ==
  /\ ~aborted /\ phase[s] = "job" /\ closed[skt[s]]
  /\ Finish(s, TRUE, bytes_operated[s])
  /\ UNCHANGED <<reactor, skt, op, bytes_operated, data, sockets, aborted>>

\* Mutant: the srb is also freed when its job posts itself again.
RepostAndFree(s) ==
  /\ ~aborted /\ phase[s] = "repost"
  /\ Post(skt[s], op[s], TRUE, s)
  /\ phase' = [phase EXCEPT ![s] = "freed"]
  /\ UNCHANGED <<skt, op, bytes_operated, data, result, sockets, aborted>>

\* tcp_send_recv_async_tpl: the job posts itself again.
Repost(s) ==
  /\ ~aborted /\ phase[s] = "repost"
  /\ PostSrb(s, skt[s], op[s])
  /\ UNCHANGED <<skt, op, bytes_operated, data, result, sockets, aborted>>

\* The job returns to the service.
JobReturns ==
  /\ ~aborted
  /\ \A s \in Srbs : phase[s] \notin {"job", "repost"}
  /\ Return
  /\ UNCHANGED <<srb, sockets, aborted>>

\* One round of the loop of tcp_send_recv_sync.  A blocking recvmsg moves what
\* there is; a blocking sendmsg moves the whole buffer, or less if a signal
\* interrupts it.  The vector is never advanced.
SyncMoves(s, n) ==
  LET bytes == Total(s, n)
  IN  /\ ~aborted /\ phase[s] = "sync"
      /\ n \in Moved(s, Size(op[s]))
      /\ MoveBytes(s, 0, n)
      /\ bytes_operated' = [bytes_operated EXCEPT ![s] = bytes]
      /\ IF Incomplete(s, bytes) THEN UNCHANGED <<phase, result>> ELSE Finish(s, FALSE, bytes)
      /\ torn' = IF op[s] = SendOp /\ n < SendSize THEN torn \cup {s} ELSE torn
      /\ UNCHANGED <<reactor, skt, op, closed, aborted>>

\* The loop of tcp_send_recv_sync is left with an error: the peer has closed, or
\* a signal interrupts the call before a byte is moved.
SyncFails(s) ==
  /\ ~aborted /\ phase[s] = "sync"
  /\ Finish(s, TRUE, bytes_operated[s])
  /\ UNCHANGED <<reactor, skt, op, bytes_operated, data, sockets, aborted>>

\* The peer closes the connection.
PeerCloses(fd) ==
  /\ ~aborted /\ ~closed[fd]
  /\ closed' = [closed EXCEPT ![fd] = TRUE]
  /\ UNCHANGED <<reactor, srb, consumed, out, torn, aborted>>

\* io_service_stop: no job is accepted any more, a job's own included.
StopService ==
  /\ ~aborted /\ accepting
  /\ Refuse
  /\ UNCHANGED <<srb, sockets, aborted>>

\* Nothing is under way and no transfer is left to start.
Quiet ==
  /\ aborted \/ (inflight = {} /\ Outstanding = {} /\ \A s \in Srbs : phase[s] # "unused")
  /\ UNCHANGED tvars

\* A wrapper calls srb_operate.
SrbOperate(s, fd, o) ==
  StartAsync(s, fd, o) \/ \E garbage \in {SendOp, RecvOp} : StartSync(s, fd, o, garbage)

Step(s) ==
  \/ CallJob(s) \/ JobAgain(s) \/ JobFails(s) \/ Repost(s) \/ SyncFails(s)
  \/ \E n \in 0 .. Size(op[s]) : JobMoves(s, n) \/ SyncMoves(s, n)

TransferNext ==
  \/ \E s \in Srbs : Step(s) \/ \E fd \in Fds, o \in {SendOp, RecvOp} : SrbOperate(s, fd, o)
  \/ JobReturns
  \/ \E fd \in Fds : PeerCloses(fd)
  \/ StopService
  \/ Quiet

TransferSpec == TransferInit /\ [][TransferNext]_tvars

\* The loop's thread runs.  Peers that keep a connection open send and read, so
\* that the service calls the jobs it holds (JobServed of IoService), a socket
\* that epoll reports ready is not found blocked for ever, and a blocking call
\* returns.
TransferFairness ==
  /\ WF_tvars(JobReturns)
  /\ \A s \in Srbs :
       /\ WF_tvars(Repost(s)) /\ SF_tvars(CallJob(s))
       /\ WF_tvars(JobAgain(s) \/ JobFails(s) \/ \E n \in 0 .. Size(op[s]) : JobMoves(s, n))
       /\ SF_tvars(\E n \in 0 .. Size(op[s]) : JobMoves(s, n))
       /\ WF_tvars(SyncFails(s) \/ \E n \in 0 .. Size(op[s]) : SyncMoves(s, n))

FairTransferSpec == TransferSpec /\ TransferFairness

(***************************************************************************)
(* Properties.                                                             *)
(***************************************************************************)

\* The type of every variable of the transfers.
TransferTypeOK ==
  /\ phase \in [Srbs -> {"unused", "posted", "job", "repost", "sync", "freed", "lost"}]
  /\ skt \in [Srbs -> Fds \cup {NULL}]
  /\ op \in [Srbs -> {SendOp, RecvOp}]
  /\ bytes_operated \in [Srbs -> Nat]
  /\ data \in [Srbs -> [1..RecvSize -> Nat]]
  /\ result \in [Srbs -> Seq([err : BOOLEAN, bytes : Nat])]
  /\ consumed \in [Fds -> Nat]
  /\ out \in [Fds -> Seq(Srbs \X (1..SendSize))]
  /\ torn \subseteq Srbs
  /\ closed \in [Fds -> BOOLEAN]
  /\ aborted \in BOOLEAN

\* tcp_send_recv_async_tpl owns its srb alone and frees it once: an srb is in
\* the service exactly when it is posted, in its own slot only, one job is
\* under way at a time, and the callback was called once if the srb is freed
\* and not at all before.
SrbOwned ==
  /\ \A s \in Srbs, fd \in Fds, o \in Ops :
       slot[fd][o].job = s <=> phase[s] = "posted" /\ skt[s] = fd /\ op[s] = o
  /\ \A s \in Srbs : phase[s] \in {"job", "repost"} => inflight = {<<skt[s], op[s], s>>}
  /\ \A s \in Srbs : Len(result[s]) = IF phase[s] = "freed" THEN 1 ELSE 0

\* Srbs keep their types and have one owner until tcp_send_recv_async_tpl frees
\* them.
SrbsIntact == TransferTypeOK /\ SrbOwned

\* The bytes of a stream are received in order, each of them once: a buffer
\* holds consecutive bytes as far as bytes_operated says, and every byte read
\* from the socket is in one buffer.
RecvIntact ==
  LET Received(s) == {data[s][i] : i \in 1 .. bytes_operated[s]}
      Receivers(fd) == {s \in Srbs : op[s] = RecvOp /\ skt[s] = fd}
  IN  /\ \A fd \in Fds : \A s \in Receivers(fd) :
           \A i \in 2 .. bytes_operated[s] : data[s][i] = data[s][i - 1] + 1
      /\ \A fd \in Fds : UNION {Received(s) : s \in Receivers(fd)} = 1 .. consumed[fd]
      /\ \A fd \in Fds : \A s, t \in Receivers(fd) :
           s = t \/ Received(s) \cap Received(t) = {}

\* The bytes of a message are sent from its first on, in order, each once and
\* with no byte of another message between them.  The exception is a message of
\* which tcp_send_recv_sync sends a part: it then sends the start again.
SendContiguous ==
  \A fd \in Fds : \A i \in DOMAIN out[fd] :
    LET byte == out[fd][i]
    IN  byte[1] \notin torn =>
        /\ byte[2] = 1 \/ (i > 1 /\ out[fd][i - 1] = <<byte[1], byte[2] - 1>>)
        /\ \A j \in 1 .. i - 1 : out[fd][j] # byte

\* A callback without error reports the whole buffer moved.
SuccessIsWhole ==
  \A s \in Srbs : \A i \in DOMAIN result[s] :
    ~result[s][i].err => result[s][i].bytes = Size(op[s])

\* Messages are sent whole: before the first byte of a message the last one of
\* the message before it has been sent, unless the service was stopped, the peer
\* closed or the message before it is one of which tcp_send_recv_sync sent a
\* part.
MessagesWhole ==
  \A fd \in Fds : accepting /\ ~closed[fd] =>
    \A i \in 2 .. Len(out[fd]) :
      out[fd][i][2] = 1 => out[fd][i - 1][2] = SendSize \/ out[fd][i - 1][1] \in torn

\* A transfer that was started ends with a callback while the peer keeps the
\* connection open, sends and reads, the service is not stopped and no assertion
\* fails.
TransferEnds ==
  \A s \in Srbs :
    phase[s] # "unused" ~>
      phase[s] = "freed" \/ ~accepting \/ aborted \/ \E fd \in Fds : closed[fd]

\* A transfer that was started ends with a callback, also when the peer closes
\* the connection, unless the service is stopped.
TransferEndsOnClose ==
  \A s \in Srbs : phase[s] # "unused" ~> phase[s] = "freed" \/ ~accepting
=============================================================================
