------------------------------ MODULE Datagram ------------------------------
(***************************************************************************)
(* The UDP transfers of network/network.c on one socket of a client.       *)
(*                                                                         *)
(* As in Transfer, an asynchronous transfer is a oneshot job of the I/O    *)
(* service, taken by its promise, Reactor, and a synchronous one runs in   *)
(* the caller's thread under the client's mutex.  A receive asks for the   *)
(* size of the first datagram, and if it is larger than the buffer peeks   *)
(* at it, reports NSRCE_BUFFER_TOO_SMALL and frees the srb, but does not   *)
(* return: it goes on to the receive that is meant for the other case.     *)
(* recvmsg is called without MSG_DONTWAIT and waits for a datagram.        *)
(*                                                                         *)
(* Of a datagram only its number and whether it exceeds the buffers is     *)
(* kept.  A freed srb keeps its contents until it is used again, so its    *)
(* use after free reads what was there.                                    *)
(***************************************************************************)
EXTENDS Integers, Sequences, Reactor

CONSTANTS
  Big,           \* may a datagram exceed the buffers?
  Overlap,       \* may a transfer start while another of its kind is under way?
  QueueLen,      \* bound: the datagrams the socket holds
  MaxDatagrams   \* bound: the datagrams that arrive

ASSUME UseAssumption == Big \in BOOLEAN /\ Overlap \in BOOLEAN
ASSUME BoundAssumption == QueueLen \in Nat \ {0} /\ MaxDatagrams \in Nat
ASSUME SrbAssumption == NULL \notin Jobs

VARIABLES
  phase,     \* of each srb: "unused", "posted", "job" (its job was called,
             \* or its synchronous operation begun), "repost", "peek" and "recv"
             \* (about to call recvmsg), "after" (freed, about to call recvmsg
             \* all the same), "freed", "lost" (its post was dropped)
  op,        \* srb->operation.op, as the operation of the service
  readable,  \* the loop holds an event that says the socket is readable
  sync,      \* the srbs that are operated synchronously
  freed,     \* the number of times each srb was freed
  result,    \* the callbacks made: their err and the datagram moved
  queue,     \* kernel: the datagrams to be received
  arrived,   \* kernel: the number of datagrams that arrived
  sent       \* kernel: the srbs whose datagram was sent

reactor == <<accepting, slot, inflight, readable>>
srb == <<phase, op, sync, freed, result>>
socket == <<queue, arrived, sent>>
dvars == <<reactor, srb, socket>>

Srbs == Jobs
SendOp == "write"
RecvOp == "read"
Skt == CHOOSE fd \in Fds : TRUE
None == [id |-> 0, big |-> FALSE]

DatagramInit ==
  /\ Init
  /\ phase = [s \in Srbs |-> "unused"]
  /\ op = [s \in Srbs |-> SendOp]
  /\ readable = FALSE
  /\ sync = {}
  /\ freed = [s \in Srbs |-> 0]
  /\ result = [s \in Srbs |-> <<>>]
  /\ queue = <<>>
  /\ arrived = 0
  /\ sent = <<>>

Outstanding == {s \in Srbs : phase[s] \notin {"unused", "freed", "lost"}}

\* The client's mutex is free: no synchronous operation is running.
Unlocked == Outstanding \cap sync = {}

MayStart(s, o) ==
  /\ phase[s] = "unused" /\ Unlocked
  /\ Overlap \/ \A t \in Outstanding : op[t] # o

\* client_udp_send_sync, client_udp_send_async: the address is missing or not
\* found; the callback is called and no srb allocated.
AddressUnknown(s) ==
  /\ MayStart(s, SendOp)
  /\ result' = [result EXCEPT ![s] = <<[err |-> "errno", datagram |-> None]>>]
  /\ phase' = [phase EXCEPT ![s] = "freed"]
  /\ UNCHANGED <<reactor, op, sync, freed, socket>>

\* The service accepts the srb, or drops the post without a sign.
PostSrb(s, o) ==
  \/ Post(Skt, o, TRUE, s) /\ phase' = [phase EXCEPT ![s] = "posted"] /\ UNCHANGED readable
  \/ /\ ~accepting \/ slot[Skt][o].job # NULL
     /\ phase' = [phase EXCEPT ![s] = "lost"]
     /\ UNCHANGED reactor

\* udp_send_async, udp_recv_async.
StartAsync(s, o) ==
  /\ MayStart(s, o)
  /\ op' = [op EXCEPT ![s] = o]
  /\ PostSrb(s, o)
  /\ UNCHANGED <<sync, freed, result, socket>>

\* udp_send_sync, udp_recv_sync up to their first system call.
StartSync(s, o) ==
  /\ MayStart(s, o)
  /\ op' = [op EXCEPT ![s] = o]
  /\ phase' = [phase EXCEPT ![s] = "job"]
  /\ sync' = sync \cup {s}
  /\ UNCHANGED <<reactor, freed, result, socket>>

\* epoll_wait reports the socket readable.  The kernel goes on watching for
\* reads while there is a job for writes, so this may be no receive's event.
EpollReadable ==
  /\ inflight = {} /\ ~readable /\ queue # <<>>
  /\ \E o \in Ops : slot[Skt][o].job # NULL
  /\ readable' = TRUE
  /\ UNCHANGED <<accepting, slot, inflight, srb, socket>>

\* The loop finds no receive for the event.
NothingToCall ==
  /\ inflight = {} /\ readable /\ slot[Skt][RecvOp].job = NULL
  /\ readable' = FALSE
  /\ UNCHANGED <<accepting, slot, inflight, srb, socket>>

\* Mutant: a receive is called without waiting for its event.
AnyTime(s) == TRUE

\* The service waits for the event of a job's operation.
EventFor(s) == readable <=> op[s] = RecvOp

\* The service calls the job of an srb, a receive for an event it holds.
CallJob(s) ==
  /\ phase[s] = "posted" /\ slot[Skt][op[s]].job = s
  /\ EventFor(s)
  /\ Call(Skt, op[s])
  /\ readable' = FALSE
  /\ phase' = [phase EXCEPT ![s] = "job"]
  /\ UNCHANGED <<op, sync, freed, result, socket>>

\* The callback is called and the srb freed.
Finish(s, err, datagram) ==
  /\ result' = [result EXCEPT ![s] = Append(@, [err |-> err, datagram |-> datagram])]
  /\ freed' = [freed EXCEPT ![s] = @ + 1]

(***************************************************************************)
(* Sending.                                                                *)
(***************************************************************************)

\* sendmsg takes the datagram as a whole.
SendDatagram(s) ==
  /\ phase[s] = "job" /\ op[s] = SendOp
  /\ sent' = Append(sent, s)
  /\ Finish(s, "ok", None)
  /\ phase' = [phase EXCEPT ![s] = "freed"]
  /\ UNCHANGED <<reactor, op, sync, queue, arrived>>

\* sendmsg fails.
SendFails(s) ==
  /\ phase[s] = "job" /\ op[s] = SendOp
  /\ Finish(s, "errno", None)
  /\ phase' = [phase EXCEPT ![s] = "freed"]
  /\ UNCHANGED <<reactor, op, sync, socket>>

\* Mutant: the datagram was taken although the job posts itself again.
SendAndRetry(s) ==
  /\ phase[s] = "job" /\ op[s] = SendOp /\ s \notin sync
  /\ phase' = [phase EXCEPT ![s] = "repost"]
  /\ sent' = Append(sent, s)
  /\ UNCHANGED <<reactor, op, sync, freed, result, queue, arrived>>

\* udp_send_async_tpl: EAGAIN.
SendAgain(s) ==
  /\ phase[s] = "job" /\ op[s] = SendOp /\ s \notin sync
  /\ phase' = [phase EXCEPT ![s] = "repost"]
  /\ UNCHANGED <<reactor, op, sync, freed, result, socket>>

\* udp_send_async_tpl: the job posts itself again.
Repost(s) ==
  /\ phase[s] = "repost"
  /\ PostSrb(s, op[s])
  /\ UNCHANGED <<op, sync, freed, result, socket>>

(***************************************************************************)
(* Receiving: udp_recv_async_tpl and udp_recv_sync.                        *)
(***************************************************************************)

\* Mutant: the size of the datagram is not looked at.
NeverTooSmall == FALSE

\* bytes_pending > buffer_size(buffer).
TooSmall == queue # <<>> /\ Head(queue).big

\* ioctl(SIOCINQ).
RecvLooks(s) ==
  /\ phase[s] = "job" /\ op[s] = RecvOp
  /\ phase' = [phase EXCEPT ![s] = IF TooSmall THEN "peek" ELSE "recv"]
  /\ UNCHANGED <<reactor, op, sync, freed, result, socket>>

\* recvmsg with MSG_PEEK, which may fail, the callback and the first deallocate.
RecvPeeks(s) ==
  /\ phase[s] = "peek"
  /\ \/ queue # <<>> /\ Finish(s, "small", Head(queue))
     \/ Finish(s, "errno", None)
  /\ phase' = [phase EXCEPT ![s] = "after"]
  /\ UNCHANGED <<reactor, op, sync, socket>>

\* recvmsg takes the first datagram from the socket.
DropFirst == Tail(queue)

\* recvmsg, the callback and deallocate.
RecvDatagram(s) ==
  /\ phase[s] \in {"recv", "after"} /\ queue # <<>>
  /\ Finish(s, "ok", Head(queue))
  /\ queue' = DropFirst
  /\ phase' = [phase EXCEPT ![s] = "freed"]
  /\ UNCHANGED <<reactor, op, sync, arrived, sent>>

\* recvmsg fails (an earlier send was refused): callback and deallocate.
RecvFails(s) ==
  /\ phase[s] \in {"recv", "after"}
  /\ Finish(s, "errno", None)
  /\ phase' = [phase EXCEPT ![s] = "freed"]
  /\ UNCHANGED <<reactor, op, sync, socket>>

\* A job returns to the service.
JobReturns ==
  /\ \A s \in Outstanding \ sync : phase[s] = "posted"
  /\ Return
  /\ UNCHANGED <<readable, phase, op, sync, freed, result, socket>>

(***************************************************************************)
(* The network.                                                            *)
(***************************************************************************)

\* A datagram arrives; one that finds the socket full is lost.
Arrive(big) ==
  /\ arrived < MaxDatagrams /\ (big => Big)
  /\ arrived' = arrived + 1
  /\ queue' = IF Len(queue) < QueueLen THEN Append(queue, [id |-> arrived + 1, big |-> big]) ELSE queue
  /\ UNCHANGED <<reactor, srb, sent>>

\* io_service_stop.
StopService == accepting /\ Refuse /\ UNCHANGED <<readable, srb, socket>>

\* Every transfer is over or waits for a datagram that does not come.
Quiet ==
  /\ \A s \in Srbs : phase[s] \in {"freed", "lost", "posted", "recv", "peek", "after"}
  /\ arrived = MaxDatagrams
  /\ UNCHANGED dvars

Step(s) ==
  \/ \E o \in {SendOp, RecvOp} : StartAsync(s, o) \/ StartSync(s, o)
  \/ AddressUnknown(s)
  \/ CallJob(s) \/ SendDatagram(s) \/ SendFails(s) \/ SendAgain(s) \/ Repost(s)
  \/ RecvLooks(s) \/ RecvPeeks(s) \/ RecvDatagram(s) \/ RecvFails(s)

DatagramNext ==
  \/ \E s \in Srbs : Step(s)
  \/ EpollReadable \/ NothingToCall \/ JobReturns
  \/ \E big \in BOOLEAN : Arrive(big)
  \/ StopService
  \/ Quiet

DatagramSpec == DatagramInit /\ [][DatagramNext]_dvars

(***************************************************************************)
(* Properties.                                                             *)
(***************************************************************************)

\* The type of every variable of the transfers.
DatagramTypeOK ==
  /\ phase \in [Srbs -> {"unused", "posted", "job", "repost", "peek", "recv",
                         "after", "freed", "lost"}]
  /\ op \in [Srbs -> {SendOp, RecvOp}]
  /\ readable \in BOOLEAN
  /\ sync \in SUBSET Srbs
  /\ freed \in [Srbs -> 0..2]
  /\ result \in [Srbs -> Seq([err : {"ok", "small", "errno"},
                             datagram : [id : Nat, big : BOOLEAN]])]
  /\ queue \in Seq([id : 1..MaxDatagrams, big : BOOLEAN])
  /\ arrived \in 0..MaxDatagrams
  /\ sent \in Seq(Srbs)

\* udp_recv_async_tpl does not wait in recvmsg, which would hold up every job
\* of the service, if there are no synchronous receives.
LoopNeverBlocks ==
  (\A t \in sync : op[t] = SendOp) =>
    \A s \in Srbs \ sync : phase[s] \in {"peek", "recv", "after"} => queue # <<>>

\* The datagrams reported received.
Reports ==
  {r \in Srbs \X (1..2) : /\ r[2] <= Len(result[r[1]]) /\ op[r[1]] = RecvOp
                          /\ result[r[1]][r[2]].err = "ok"}

\* A datagram is reported received by one receive only, and datagrams are
\* taken in the order of their arrival.
DatagramsOnceInOrder ==
  LET Id(r) == result[r[1]][r[2]].datagram.id
  IN  /\ \A r, t \in Reports : r = t \/ Id(r) # Id(t)
      /\ \A r \in Reports, i \in DOMAIN queue : Id(r) < queue[i].id

\* A send that retries after EAGAIN sends its datagram once, and a callback
\* without error is made for the datagrams that were sent only.
SentOnce ==
  /\ \A i, j \in DOMAIN sent : i = j \/ sent[i] # sent[j]
  /\ \A s \in Srbs : op[s] = SendOp =>
       ((\E i \in DOMAIN sent : sent[i] = s) <=> result[s] = <<[err |-> "ok", datagram |-> None]>>)

\* Nothing is repeated or made up in either direction: every srb of the UDP
\* operators calls back at most as often as its type allows, a datagram is
\* reported received once and in order, and one reported sent was sent once.
DatagramsIntact == DatagramTypeOK /\ DatagramsOnceInOrder /\ SentOnce

\* The first that udp_recv_async_tpl says of a datagram that exceeds the buffer
\* is NSRCE_BUFFER_TOO_SMALL or an error, not that it was received, if there
\* are no synchronous receives.
NoSilentTruncation ==
  (\A t \in sync : op[t] = SendOp) =>
    \A s \in Srbs \ sync : result[s] # <<>> =>
      ~(result[s][1].err = "ok" /\ result[s][1].datagram.big)

\* An srb is freed once, with one callback, and not used afterwards.
SrbFreedOnce ==
  \A s \in Srbs : phase[s] # "after" /\ freed[s] <= 1 /\ Len(result[s]) <= 1
=============================================================================
