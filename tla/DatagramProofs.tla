--------------------------- MODULE DatagramProofs ---------------------------
(***************************************************************************)
(* Proofs about Datagram for any number of srbs, any queue and any number  *)
(* of datagrams, with and without overlapping transfers.                   *)
(***************************************************************************)
EXTENDS Datagram, SequenceTheorems, TLAPS

(***************************************************************************)
(* The inductive invariant.                                                *)
(***************************************************************************)

\* An srb calls back when it is freed, a second time only when the receive of
\* a datagram that is too large goes on after it.
CallbacksCounted ==
  \A s \in Srbs :
    /\ phase[s] \notin {"after", "freed"} => freed[s] = 0 /\ result[s] = <<>>
    /\ phase[s] = "after" => /\ freed[s] = 1 /\ Len(result[s]) = 1
                             /\ result[s][1].err # "ok"
    /\ Len(result[s]) <= 2

\* Only receives peek and receive, only sends post themselves again.
PhaseOfOp ==
  \A s \in Srbs : /\ phase[s] \in {"peek", "recv", "after"} => op[s] = RecvOp
                  /\ phase[s] = "repost" => op[s] = SendOp

\* Callback i of receive s reports a datagram received, the one of this number.
Received(s, i) == i <= Len(result[s]) /\ result[s][i].err = "ok" /\ op[s] = RecvOp
IdOf(s, i) == result[s][i].datagram.id

\* The datagrams of the queue are in the order of their arrival, and those
\* reported received came before them.
QueueInOrder ==
  /\ \A i, j \in DOMAIN queue : i < j => queue[i].id < queue[j].id
  /\ \A i \in DOMAIN queue : queue[i].id <= arrived
  /\ \A s \in Srbs, i \in 1..2 :
       Received(s, i) => /\ IdOf(s, i) <= arrived
                         /\ \A j \in DOMAIN queue : IdOf(s, i) < queue[j].id

\* No two reports are of the same datagram.
ReportsDiffer ==
  \A s, t \in Srbs, i, j \in 1..2 :
    Received(s, i) /\ Received(t, j) /\ IdOf(s, i) = IdOf(t, j) => s = t /\ i = j

\* What was sent was sent by a send that is over.
SentByDone == \A i \in DOMAIN sent : op[sent[i]] = SendOp /\ phase[sent[i]] = "freed"

\* The inductive invariant of the datagrams.
DatagramInv ==
  /\ DatagramTypeOK /\ CallbacksCounted /\ PhaseOfOp
  /\ QueueInOrder /\ ReportsDiffer /\ SentByDone /\ SentOnce

\* A synchronous srb is never posted; a job under way is the service's only
\* one, and while there is one the loop holds no event.
OneJob ==
  /\ \A s \in sync : phase[s] \notin {"unused", "posted", "repost"}
  /\ \A s \in Srbs \ sync :
       phase[s] \in {"job", "repost", "peek", "recv", "after"} => inflight = {<<Skt, op[s], s>>}
  /\ inflight # {} => ~readable

\* There are no synchronous receives.
RecvAsyncOnly == \A t \in sync : op[t] = SendOp

\* What the service's receive has to take is there until it takes it, and fits
\* the buffer if it is about to be received.
RecvHasDatagram ==
  RecvAsyncOnly =>
    /\ readable => queue # <<>>
    /\ \A s \in Srbs \ sync :
         /\ phase[s] \in {"job", "peek", "recv", "after"} /\ op[s] = RecvOp => queue # <<>>
         /\ phase[s] = "recv" => ~Head(queue).big

\* The inductive invariant of the loop that never waits.
RecvInv == OneJob /\ RecvHasDatagram /\ NoSilentTruncation

(***************************************************************************)
(* The steps.                                                              *)
(***************************************************************************)

Report == [err : {"ok", "small", "errno"}, datagram : [id : Nat, big : BOOLEAN]]

\* A callback is added to those of its srb, which is freed once more.
LEMMA FinishFacts ==
  ASSUME DatagramTypeOK, CallbacksCounted, NEW s \in Srbs,
         phase[s] \in {"job", "peek", "recv", "after"},
         NEW err \in {"ok", "small", "errno"}, NEW d \in [id : Nat, big : BOOLEAN],
         Finish(s, err, d)
  PROVE  LET k == Len(result[s])
         IN  /\ k \in 0..1 /\ (k = 1 <=> phase[s] = "after")
             /\ result' \in [Srbs -> Seq(Report)] /\ Len(result'[s]) = k + 1
             /\ result'[s][k + 1] = [err |-> err, datagram |-> d]
             /\ k = 1 => result'[s][1] = result[s][1]
             /\ \A t \in Srbs : t # s => result'[t] = result[t]
             /\ freed' \in [Srbs -> 0..2] /\ freed'[s] = k + 1
             /\ \A t \in Srbs : t # s => freed'[t] = freed[t]
<1> DEFINE r == [err |-> err, datagram |-> d]
           k == Len(result[s])
<1>1. r \in Report /\ result \in [Srbs -> Seq(Report)] /\ freed \in [Srbs -> 0..2]
  BY DEF DatagramTypeOK, Report
<1>2. /\ result' = [result EXCEPT ![s] = Append(result[s], r)]
      /\ freed' = [freed EXCEPT ![s] = freed[s] + 1]
  BY DEF Finish
<1>3. k \in 0..1 /\ (k = 1 <=> phase[s] = "after") /\ freed[s] = k
  <2>1. CASE phase[s] = "after"
    <3>1. Len(result[s]) = 1 /\ freed[s] = 1
      BY <2>1 DEF CallbacksCounted
    <3> QED  BY <2>1, <3>1
  <2>2. CASE phase[s] # "after"
    <3>1. result[s] = <<>> /\ freed[s] = 0
      BY <2>2 DEF CallbacksCounted
    <3> QED  BY <2>2, <3>1
  <2> QED  BY <2>1, <2>2
<1> HIDE DEF r, k
<1>4. /\ Append(result[s], r) \in Seq(Report) /\ Len(Append(result[s], r)) = k + 1
      /\ Append(result[s], r)[k + 1] = r
      /\ k = 1 => Append(result[s], r)[1] = result[s][1]
  BY <1>1, <1>3 DEF k
<1>5. /\ result' \in [Srbs -> Seq(Report)] /\ result'[s] = Append(result[s], r)
      /\ \A t \in Srbs : t # s => result'[t] = result[t]
  BY <1>1, <1>2, <1>4
<1>6. /\ freed' \in [Srbs -> 0..2] /\ freed'[s] = k + 1
      /\ \A t \in Srbs : t # s => freed'[t] = freed[t]
  BY <1>1, <1>2, <1>3
<1> QED  BY <1>3, <1>4, <1>5, <1>6 DEF r, k

\* Before anything is started the invariant holds.
LEMMA DatagramInvInit == DatagramInit => DatagramInv
<1> SUFFICES ASSUME DatagramInit PROVE DatagramInv
  OBVIOUS
<1> USE BoundAssumption DEF DatagramInit
<1>1. DatagramTypeOK
  <2>1. <<>> \in Seq([err : {"ok", "small", "errno"}, datagram : [id : Nat, big : BOOLEAN]])
    OBVIOUS
  <2>2. result \in [Srbs -> Seq([err : {"ok", "small", "errno"},
                                datagram : [id : Nat, big : BOOLEAN]])]
    BY <2>1
  <2>3. /\ phase \in [Srbs -> {"unused", "posted", "job", "repost", "peek", "recv",
                               "after", "freed", "lost"}]
        /\ op \in [Srbs -> {SendOp, RecvOp}] /\ freed \in [Srbs -> 0..2]
    OBVIOUS
  <2>4. readable \in BOOLEAN /\ sync \in SUBSET Srbs
    OBVIOUS
  <2>5. arrived \in 0..MaxDatagrams
    OBVIOUS
  <2>6. queue \in Seq([id : 1..MaxDatagrams, big : BOOLEAN])
    OBVIOUS
  <2>7. sent \in Seq(Srbs)
    OBVIOUS
  <2> QED  BY <2>2, <2>3, <2>4, <2>5, <2>6, <2>7 DEF DatagramTypeOK
<1>2. CallbacksCounted /\ PhaseOfOp
  BY DEF CallbacksCounted, PhaseOfOp
<1>3. QueueInOrder /\ ReportsDiffer
  BY DEF QueueInOrder, ReportsDiffer, Received
<1>4. SentByDone /\ SentOnce
  BY DEF SentByDone, SentOnce
<1> QED  BY <1>1, <1>2, <1>3, <1>4 DEF DatagramInv

\* A post only changes the phase of its srb, and the slots.
LEMMA PostFacts ==
  ASSUME DatagramTypeOK, NEW s \in Srbs, NEW o \in Ops, PostSrb(s, o)
  PROVE  /\ UNCHANGED <<inflight, readable>>
         /\ phase'[s] \in {"posted", "lost"} /\ phase' = [phase EXCEPT ![s] = phase'[s]]
         /\ \A t \in Srbs : t # s => phase'[t] = phase[t]
  BY DEF PostSrb, Post, reactor, DatagramTypeOK

\* The srb gets its operation and is posted, dropped or operated at once.
Begins(s, o) ==
  /\ phase[s] = "unused" /\ phase'[s] \in {"posted", "lost", "job"}
  /\ phase' = [phase EXCEPT ![s] = phase'[s]] /\ op' = [op EXCEPT ![s] = o]
  /\ sync' = IF phase'[s] = "job" THEN sync \cup {s} ELSE sync
  /\ UNCHANGED <<inflight, readable, freed, result, socket>>

\* The srb goes on to its next phase without a callback.
Proceeds(s) ==
  /\ phase' = [phase EXCEPT ![s] = phase'[s]]
  /\ \/ /\ phase[s] = "posted" /\ phase'[s] = "job" /\ (op[s] = RecvOp => readable)
        /\ inflight = {} /\ inflight' = {<<Skt, op[s], s>>} /\ ~readable'
     \/ /\ phase[s] = "job" /\ phase'[s] = "repost" /\ op[s] = SendOp /\ s \notin sync
        /\ UNCHANGED <<inflight, readable>>
     \/ /\ phase[s] = "job" /\ op[s] = RecvOp
        /\ phase'[s] = IF TooSmall THEN "peek" ELSE "recv"
        /\ UNCHANGED <<inflight, readable>>
     \/ /\ phase[s] = "repost" /\ phase'[s] \in {"posted", "lost"}
        /\ UNCHANGED <<inflight, readable>>
  /\ readable' \in BOOLEAN
  /\ UNCHANGED <<op, sync, freed, result, socket>>

\* The srb's last callback, or the one before.
Ends(s) ==
  \/ AddressUnknown(s) \/ SendDatagram(s) \/ SendFails(s)
  \/ RecvPeeks(s) \/ RecvDatagram(s) \/ RecvFails(s)

\* No srb takes a step and no datagram arrives.
Elsewhere ==
  /\ UNCHANGED <<phase, op, sync, freed, result, socket>>
  /\ readable' \in BOOLEAN
  /\ readable' /\ ~readable => queue # <<>> /\ inflight = {}
  /\ \/ inflight' = inflight
     \/ inflight' = {} /\ readable' = readable /\ \A s \in Outstanding \ sync : phase[s] = "posted"

\* Every step is of one of these kinds.
LEMMA StepKinds ==
  ASSUME DatagramTypeOK, [DatagramNext]_dvars
  PROVE  \/ \E s \in Srbs, o \in {SendOp, RecvOp} : Begins(s, o)
         \/ \E s \in Srbs : Proceeds(s) \/ Ends(s)
         \/ \E big \in BOOLEAN : Arrive(big)
         \/ Elsewhere
<1>1. ASSUME NEW s \in Srbs, NEW o \in {SendOp, RecvOp}, StartAsync(s, o) PROVE Begins(s, o)
  <2>1. PostSrb(s, o) /\ o \in Ops /\ phase[s] = "unused"
    BY <1>1 DEF StartAsync, MayStart, Ops, SendOp, RecvOp
  <2> QED  BY <1>1, <2>1, PostFacts DEF StartAsync, Begins
<1>2. ASSUME NEW s \in Srbs, NEW o \in {SendOp, RecvOp}, StartSync(s, o) PROVE Begins(s, o)
  BY <1>2 DEF StartSync, MayStart, Begins, reactor, DatagramTypeOK
<1>3. ASSUME NEW s \in Srbs, CallJob(s) PROVE Proceeds(s)
  <2>1. /\ phase[s] = "posted" /\ slot[Skt][op[s]].job = s /\ Call(Skt, op[s])
        /\ readable' = FALSE /\ phase' = [phase EXCEPT ![s] = "job"]
        /\ op[s] = RecvOp => readable
        /\ UNCHANGED <<op, sync, freed, result, socket>>
    BY <1>3 DEF CallJob, EventFor
  <2>2. inflight = {} /\ inflight' = {<<Skt, op[s], s>>}
    BY <2>1 DEF Call
  <2>3. phase'[s] = "job"
    BY <2>1 DEF DatagramTypeOK
  <2> QED  BY <2>1, <2>2, <2>3 DEF Proceeds
<1>4. ASSUME NEW s \in Srbs, SendAgain(s) \/ RecvLooks(s) PROVE Proceeds(s)
  BY <1>4 DEF SendAgain, RecvLooks, Proceeds, reactor, DatagramTypeOK
<1>5. ASSUME NEW s \in Srbs, Repost(s) PROVE Proceeds(s)
  <2>1. PostSrb(s, op[s]) /\ op[s] \in Ops /\ phase[s] = "repost"
    BY <1>5 DEF Repost, Ops, SendOp, RecvOp, DatagramTypeOK
  <2>2. readable \in BOOLEAN
    BY DEF DatagramTypeOK
  <2> QED  BY <1>5, <2>1, <2>2, PostFacts DEF Repost, Proceeds
<1>6. CASE EpollReadable \/ NothingToCall
  BY <1>6 DEF EpollReadable, NothingToCall, Elsewhere, srb, socket
<1>7. CASE JobReturns
  <2>1. readable \in BOOLEAN
    BY DEF DatagramTypeOK
  <2> QED  BY <1>7, <2>1 DEF JobReturns, Return, Elsewhere
<1>8. CASE StopService \/ UNCHANGED dvars
  <2>1. readable \in BOOLEAN
    BY DEF DatagramTypeOK
  <2> QED  BY <1>8, <2>1 DEF StopService, Refuse, Elsewhere, srb, dvars, reactor
<1> QED  BY <1>1, <1>2, <1>3, <1>4, <1>5, <1>6, <1>7, <1>8 DEF DatagramNext, Step, Ends, Quiet

(***************************************************************************)
(* The invariant of the datagrams is kept.                                 *)
(***************************************************************************)

\* The type of what a step of one srb leaves as it is, and of its phase.
LEMMA PhaseFacts ==
  ASSUME DatagramTypeOK, NEW s \in Srbs, NEW p, phase' = [phase EXCEPT ![s] = p]
  PROVE  phase'[s] = p /\ \A t \in Srbs : t # s => phase'[t] = phase[t]
  BY DEF DatagramTypeOK

\* A start keeps the invariant: the srb has no callback yet and sent nothing.
LEMMA BeginsInv ==
  ASSUME DatagramInv, NEW s \in Srbs, NEW o \in {SendOp, RecvOp}, Begins(s, o)
  PROVE  DatagramInv'
<1> USE DEF DatagramInv
<1>1. /\ phase[s] = "unused" /\ phase'[s] \in {"posted", "lost", "job"}
      /\ \A t \in Srbs : t # s => phase'[t] = phase[t] /\ op'[t] = op[t]
      /\ op'[s] = o
      /\ UNCHANGED <<readable, freed, result, queue, arrived, sent>>
  BY DEF Begins, DatagramTypeOK, socket
<1>2. result[s] = <<>>
  BY <1>1 DEF CallbacksCounted
<1>3. DatagramTypeOK'
  <2>1. /\ phase' \in [Srbs -> {"unused", "posted", "job", "repost", "peek", "recv",
                                "after", "freed", "lost"}]
        /\ op' \in [Srbs -> {SendOp, RecvOp}] /\ sync' \in SUBSET Srbs
    BY DEF Begins, DatagramTypeOK
  <2> QED  BY <1>1, <2>1 DEF DatagramTypeOK
<1>4. CallbacksCounted' /\ PhaseOfOp'
  BY <1>1 DEF CallbacksCounted, PhaseOfOp
<1>5. \A t \in Srbs, i \in 1..2 :
        Received(t, i)' => t # s /\ Received(t, i) /\ IdOf(t, i)' = IdOf(t, i)
  <2> SUFFICES ASSUME NEW t \in Srbs, NEW i \in 1..2, Received(t, i)'
               PROVE  t # s /\ Received(t, i) /\ IdOf(t, i)' = IdOf(t, i)
    OBVIOUS
  <2>1. t # s
    BY <1>1, <1>2 DEF Received
  <2> QED  BY <1>1, <2>1 DEF Received, IdOf
<1>6. QueueInOrder'
  BY <1>1, <1>5 DEF QueueInOrder
<1>7. ReportsDiffer'
  BY <1>5 DEF ReportsDiffer
<1>8. \A i \in DOMAIN sent : sent[i] \in Srbs /\ sent[i] # s
  BY <1>1 DEF SentByDone, DatagramTypeOK
<1>9. SentByDone'
  BY <1>1, <1>8 DEF SentByDone
<1>10. SentOnce'
  BY <1>1, <1>2, <1>8 DEF SentOnce
<1> QED  BY <1>3, <1>4, <1>6, <1>7, <1>9, <1>10

\* So does a step without a callback.
LEMMA ProceedsInv ==
  ASSUME DatagramInv, NEW s \in Srbs, Proceeds(s)
  PROVE  DatagramInv'
<1> USE DEF DatagramInv
<1>1. /\ phase[s] \in {"posted", "job", "repost"}
      /\ phase'[s] \in {"posted", "job", "repost", "peek", "recv", "lost"}
      /\ phase'[s] \in {"peek", "recv"} => op[s] = RecvOp
      /\ phase'[s] = "repost" => op[s] = SendOp
      /\ \A t \in Srbs : t # s => phase'[t] = phase[t]
      /\ phase' = [phase EXCEPT ![s] = phase'[s]] /\ readable' \in BOOLEAN
      /\ UNCHANGED <<op, sync, freed, result, queue, arrived, sent>>
  <2>1. /\ phase' = [phase EXCEPT ![s] = phase'[s]] /\ readable' \in BOOLEAN
        /\ UNCHANGED <<op, sync, freed, result, queue, arrived, sent>>
    BY DEF Proceeds, socket
  <2>2. \A t \in Srbs : t # s => phase'[t] = phase[t]
    BY <2>1 DEF DatagramTypeOK
  <2> QED  BY <2>1, <2>2 DEF Proceeds
<1>2. DatagramTypeOK'
  <2>1. phase' \in [Srbs -> {"unused", "posted", "job", "repost", "peek", "recv",
                             "after", "freed", "lost"}]
    BY <1>1 DEF DatagramTypeOK
  <2> QED  BY <1>1, <2>1 DEF DatagramTypeOK
<1>3. CallbacksCounted' /\ PhaseOfOp'
  BY <1>1 DEF CallbacksCounted, PhaseOfOp
<1>4. QueueInOrder' /\ ReportsDiffer'
  BY <1>1 DEF QueueInOrder, ReportsDiffer, Received, IdOf
<1>5. \A i \in DOMAIN sent : sent[i] \in Srbs /\ sent[i] # s
  BY <1>1 DEF SentByDone, DatagramTypeOK
<1>6. SentByDone'
  BY <1>1, <1>5 DEF SentByDone
<1>7. SentOnce'
  BY <1>1 DEF SentOnce
<1> QED  BY <1>2, <1>3, <1>4, <1>6, <1>7

\* And a step of the service.
LEMMA ElsewhereInv ==
  ASSUME DatagramInv, Elsewhere
  PROVE  DatagramInv'
<1> USE DEF DatagramInv
<1>1. UNCHANGED <<phase, op, sync, freed, result, queue, arrived, sent>> /\ readable' \in BOOLEAN
  BY DEF Elsewhere, socket
<1>2. DatagramTypeOK'
  BY <1>1 DEF DatagramTypeOK
<1>3. CallbacksCounted' /\ PhaseOfOp'
  BY <1>1 DEF CallbacksCounted, PhaseOfOp
<1>4. QueueInOrder' /\ ReportsDiffer'
  BY <1>1 DEF QueueInOrder, ReportsDiffer, Received, IdOf
<1>5. SentByDone' /\ SentOnce'
  BY <1>1 DEF SentByDone, SentOnce
<1> QED  BY <1>2, <1>3, <1>4, <1>5

\* A datagram that arrives is the last of the queue and later than all others.
LEMMA ArriveInv ==
  ASSUME DatagramInv, NEW big \in BOOLEAN, Arrive(big)
  PROVE  DatagramInv'
<1> USE BoundAssumption DEF DatagramInv
<1> DEFINE d == [id |-> arrived + 1, big |-> big]
           n == Len(queue)
<1>1. /\ UNCHANGED <<phase, op, sync, freed, result, readable, sent>>
      /\ arrived \in Nat /\ arrived' = arrived + 1 /\ arrived + 1 <= MaxDatagrams
      /\ queue' = queue \/ queue' = Append(queue, d)
  BY DEF Arrive, reactor, srb, DatagramTypeOK
<1>2. d \in [id : 1..MaxDatagrams, big : BOOLEAN] /\ d.id = arrived + 1
  BY <1>1
<1>3. /\ queue \in Seq([id : 1..MaxDatagrams, big : BOOLEAN])
      /\ DOMAIN queue = 1..n /\ n \in Nat
      /\ \A i \in DOMAIN queue : queue[i] \in [id : 1..MaxDatagrams, big : BOOLEAN]
  <2> DEFINE D == [id : 1..MaxDatagrams, big : BOOLEAN]
  <2>1. queue \in Seq(D)
    BY DEF DatagramTypeOK
  <2> HIDE DEF D
  <2>2. DOMAIN queue = 1..n /\ n \in Nat /\ \A i \in DOMAIN queue : queue[i] \in D
    BY <2>1
  <2> QED  BY <2>1, <2>2 DEF D
<1> HIDE DEF d, n
<1>4. /\ queue' \in Seq([id : 1..MaxDatagrams, big : BOOLEAN])
      /\ \A i \in DOMAIN queue' : \/ i \in DOMAIN queue /\ queue'[i] = queue[i]
                                  \/ i = n + 1 /\ queue'[i] = d
  <2>1. CASE queue' = queue
    BY <1>3, <2>1
  <2>2. CASE queue' = Append(queue, d)
    BY <1>2, <1>3, <2>2 DEF n
  <2> QED  BY <1>1, <2>1, <2>2
<1>5. DatagramTypeOK'
  BY <1>1, <1>4 DEF DatagramTypeOK
<1>6. CallbacksCounted' /\ PhaseOfOp'
  BY <1>1 DEF CallbacksCounted, PhaseOfOp
<1>7. QueueInOrder'
  <2>1. \A i \in DOMAIN queue : queue[i].id \in Nat /\ queue[i].id <= arrived
    <3> SUFFICES ASSUME NEW i \in DOMAIN queue PROVE queue[i].id \in Nat /\ queue[i].id <= arrived
      OBVIOUS
    <3>1. queue[i].id \in 1..MaxDatagrams
      BY <1>3
    <3> QED  BY <3>1 DEF QueueInOrder
  <2>2. \A i \in DOMAIN queue' : queue'[i].id <= arrived'
    BY <1>1, <1>2, <1>4, <2>1
  <2>3. ASSUME NEW i \in DOMAIN queue', NEW j \in DOMAIN queue', i < j
        PROVE  queue'[i].id < queue'[j].id
    <3>1. i \in DOMAIN queue /\ queue'[i] = queue[i]
      <4>1. j \in 1..n \/ j = n + 1
        BY <1>3, <1>4
      <4>2. i # n + 1
        BY <1>3, <2>3, <4>1
      <4> QED  BY <1>4, <4>2
    <3>2. queue[i].id <= arrived /\ queue[i].id \in Nat
      BY <2>1, <3>1
    <3>3. CASE j \in DOMAIN queue /\ queue'[j] = queue[j]
      BY <2>3, <3>1, <3>3 DEF QueueInOrder
    <3>4. CASE queue'[j] = d
      BY <1>1, <1>2, <3>1, <3>2, <3>4
    <3> QED  BY <1>4, <3>3, <3>4
  <2>4. ASSUME NEW s \in Srbs, NEW i \in 1..2, Received(s, i)'
        PROVE  IdOf(s, i)' <= arrived' /\ \A j \in DOMAIN queue' : IdOf(s, i)' < queue'[j].id
    <3>1. Received(s, i) /\ IdOf(s, i)' = IdOf(s, i)
      BY <1>1, <2>4 DEF Received, IdOf
    <3>2. IdOf(s, i) \in Nat
      <4>1. result[s] \in Seq(Report)
        BY DEF DatagramTypeOK, Report
      <4>2. result[s][i] \in Report
        BY <3>1, <4>1 DEF Received
      <4> QED  BY <4>2 DEF IdOf, Report
    <3>3. IdOf(s, i) <= arrived /\ \A j \in DOMAIN queue : IdOf(s, i) < queue[j].id
      BY <3>1 DEF QueueInOrder
    <3>4. \A j \in DOMAIN queue' : IdOf(s, i) < queue'[j].id
      BY <1>1, <1>2, <1>4, <3>2, <3>3
    <3> QED  BY <1>1, <3>1, <3>2, <3>3, <3>4
  <2> QED  BY <2>2, <2>3, <2>4 DEF QueueInOrder
<1>8. ReportsDiffer'
  BY <1>1 DEF ReportsDiffer, Received, IdOf
<1>9. SentByDone' /\ SentOnce'
  BY <1>1 DEF SentByDone, SentOnce
<1> QED  BY <1>5, <1>6, <1>7, <1>8, <1>9

\* An srb calls back: what every such step does.
CallsBack(s, err, d, p) ==
  /\ phase[s] \in {"job", "peek", "recv", "after"}
  /\ err \in {"ok", "small", "errno"} /\ d \in [id : Nat, big : BOOLEAN]
  /\ p = "freed" \/ (p = "after" /\ phase[s] = "peek" /\ err # "ok")
  /\ Finish(s, err, d)
  /\ phase' = [phase EXCEPT ![s] = p]
  /\ UNCHANGED <<op, sync, readable, arrived>>

\* It counts, and of the reports only its own may be new.
LEMMA CallbackInv ==
  ASSUME DatagramInv, NEW s \in Srbs, NEW err, NEW d, NEW p, CallsBack(s, err, d, p),
         queue' \in Seq([id : 1..MaxDatagrams, big : BOOLEAN]), sent' \in Seq(Srbs)
  PROVE  /\ DatagramTypeOK' /\ CallbacksCounted' /\ PhaseOfOp'
         /\ \A t \in Srbs, i \in 1..2 :
              Received(t, i)' =>
                \/ Received(t, i) /\ IdOf(t, i)' = IdOf(t, i)
                \/ /\ t = s /\ i = Len(result[s]) + 1
                   /\ err = "ok" /\ op[s] = RecvOp /\ IdOf(t, i)' = d.id
<1> USE DEF DatagramInv
<1> DEFINE k == Len(result[s])
<1>1. /\ k \in 0..1 /\ (k = 1 <=> phase[s] = "after")
      /\ result' \in [Srbs -> Seq(Report)] /\ Len(result'[s]) = k + 1
      /\ result'[s][k + 1] = [err |-> err, datagram |-> d]
      /\ k = 1 => result'[s][1] = result[s][1]
      /\ \A t \in Srbs : t # s => result'[t] = result[t]
      /\ freed' \in [Srbs -> 0..2] /\ freed'[s] = k + 1
      /\ \A t \in Srbs : t # s => freed'[t] = freed[t]
  BY FinishFacts DEF CallsBack
<1> HIDE DEF k
<1>2. /\ phase'[s] = p /\ \A t \in Srbs : t # s => phase'[t] = phase[t]
      /\ p = "freed" \/ (p = "after" /\ phase[s] = "peek" /\ err # "ok")
      /\ UNCHANGED <<op, sync, readable, arrived>>
  BY PhaseFacts DEF CallsBack
<1>3. DatagramTypeOK'
  <2>1. phase' \in [Srbs -> {"unused", "posted", "job", "repost", "peek", "recv",
                             "after", "freed", "lost"}]
    BY <1>2 DEF CallsBack, DatagramTypeOK
  <2> QED  BY <1>1, <1>2, <2>1 DEF DatagramTypeOK, Report
<1>4. CallbacksCounted'
  <2> SUFFICES ASSUME NEW t \in Srbs
               PROVE  /\ phase'[t] \notin {"after", "freed"} => freed'[t] = 0 /\ result'[t] = <<>>
                      /\ phase'[t] = "after" => /\ freed'[t] = 1 /\ Len(result'[t]) = 1
                                                /\ result'[t][1].err # "ok"
                      /\ Len(result'[t]) <= 2
    BY DEF CallbacksCounted
  <2>1. CASE t # s
    BY <1>1, <1>2, <2>1 DEF CallbacksCounted
  <2>2. CASE t = s /\ p = "freed"
    BY <1>1, <1>2, <2>2
  <2>3. CASE t = s /\ p = "after"
    <3>1. k = 0 /\ err # "ok"
      BY <1>1, <1>2, <2>3
    <3>2. result'[s][1] = [err |-> err, datagram |-> d]
      BY <1>1, <3>1
    <3>3. result'[s][1].err # "ok"
      BY <3>1, <3>2
    <3>4. freed'[s] = 1 /\ Len(result'[s]) = 1
      BY <1>1, <3>1
    <3> QED  BY <1>2, <2>3, <3>3, <3>4
  <2> QED  BY <1>2, <2>1, <2>2, <2>3
<1>5. PhaseOfOp'
  BY <1>2 DEF PhaseOfOp
<1>6. ASSUME NEW t \in Srbs, NEW i \in 1..2, Received(t, i)'
      PROVE  \/ Received(t, i) /\ IdOf(t, i)' = IdOf(t, i)
             \/ /\ t = s /\ i = Len(result[s]) + 1
                /\ err = "ok" /\ op[s] = RecvOp /\ IdOf(t, i)' = d.id
  <2>1. i <= Len(result'[t]) /\ result'[t][i].err = "ok" /\ op[t] = RecvOp
    BY <1>2, <1>6 DEF Received
  <2>2. CASE t # s
    BY <1>1, <2>1, <2>2 DEF Received, IdOf
  <2>3. CASE t = s /\ i = k + 1
    BY <1>1, <2>1, <2>3 DEF IdOf, k
  <2>4. CASE t = s /\ i # k + 1
    <3>1. k = 1 /\ i = 1
      BY <1>1, <2>1, <2>4
    <3> QED  BY <1>1, <2>1, <2>4, <3>1 DEF Received, IdOf, k
  <2> QED  BY <2>2, <2>3, <2>4
<1> QED  BY <1>3, <1>4, <1>5, <1>6

\* A callback that reports no datagram received leaves reports and queue alone.
LEMMA NoReportInv ==
  ASSUME DatagramInv, NEW s \in Srbs, NEW err, NEW d, NEW p, CallsBack(s, err, d, p),
         err # "ok" \/ op[s] # RecvOp, queue' = queue, sent' \in Seq(Srbs)
  PROVE  DatagramTypeOK' /\ CallbacksCounted' /\ PhaseOfOp' /\ QueueInOrder' /\ ReportsDiffer'
<1> USE DEF DatagramInv
<1>1. queue' \in Seq([id : 1..MaxDatagrams, big : BOOLEAN]) /\ arrived' = arrived
  BY DEF DatagramTypeOK, CallsBack
<1>2. /\ DatagramTypeOK' /\ CallbacksCounted' /\ PhaseOfOp'
      /\ \A t \in Srbs, i \in 1..2 :
           Received(t, i)' => Received(t, i) /\ IdOf(t, i)' = IdOf(t, i)
  BY <1>1, CallbackInv
<1>3. QueueInOrder' /\ ReportsDiffer'
  BY <1>1, <1>2 DEF QueueInOrder, ReportsDiffer
<1> QED  BY <1>2, <1>3

\* A callback that reports no datagram sent leaves what was sent as it was.
LEMMA NotSentInv ==
  ASSUME DatagramInv, NEW s \in Srbs, NEW err, NEW d, NEW p, CallsBack(s, err, d, p),
         err # "ok" \/ op[s] # SendOp, sent' = sent
  PROVE  SentByDone' /\ SentOnce'
<1> USE DEF DatagramInv
<1>1. /\ phase[s] # "freed" /\ op' = op
      /\ \A t \in Srbs : t # s => phase'[t] = phase[t]
  BY PhaseFacts DEF CallsBack
<1>2. \A i \in DOMAIN sent : sent[i] \in Srbs /\ sent[i] # s
  BY <1>1 DEF SentByDone, DatagramTypeOK
<1>3. SentByDone'
  BY <1>1, <1>2 DEF SentByDone
<1>4. \A t \in Srbs : t # s => result'[t] = result[t]
  BY DEF CallsBack, Finish, DatagramTypeOK
<1>5. op[s] = SendOp => result'[s] # <<[err |-> "ok", datagram |-> None]>>
  <2> SUFFICES ASSUME op[s] = SendOp PROVE result'[s] # <<[err |-> "ok", datagram |-> None]>>
    OBVIOUS
  <2>1. phase[s] # "after"
    BY DEF PhaseOfOp, SendOp, RecvOp
  <2>2. Len(result[s]) = 0
    <3>1. result[s] = <<>>
      BY <2>1 DEF CallsBack, CallbacksCounted
    <3> QED  BY <3>1
  <2>3. result'[s][1] = [err |-> err, datagram |-> d]
    BY <2>2, FinishFacts DEF CallsBack
  <2>4. result'[s][1].err = err /\ err # "ok"
    BY <2>3
  <2> QED  BY <2>4
<1>6. SentOnce'
  BY <1>1, <1>2, <1>4, <1>5 DEF SentOnce
<1> QED  BY <1>3, <1>6

\* The first datagram of the queue, and the queue without it.
LEMMA QueueFacts ==
  ASSUME DatagramTypeOK, queue # <<>>
  PROVE  /\ Head(queue) \in [id : Nat, big : BOOLEAN]
         /\ 1 \in DOMAIN queue /\ Head(queue) = queue[1]
         /\ Tail(queue) \in Seq([id : 1..MaxDatagrams, big : BOOLEAN])
         /\ \A i \in DOMAIN Tail(queue) : /\ i \in Nat /\ i + 1 \in DOMAIN queue /\ 1 < i + 1
                                          /\ Tail(queue)[i] = queue[i + 1]
<1> USE BoundAssumption
<1> DEFINE D == [id : 1..MaxDatagrams, big : BOOLEAN]
<1>1. queue \in Seq(D)
  BY DEF DatagramTypeOK
<1> HIDE DEF D
<1>2. /\ Head(queue) \in D /\ Head(queue) = queue[1] /\ Tail(queue) \in Seq(D)
      /\ Len(queue) \in Nat \ {0} /\ DOMAIN queue = 1..Len(queue)
      /\ Len(Tail(queue)) = Len(queue) - 1
      /\ \A i \in 1..Len(Tail(queue)) : Tail(queue)[i] = queue[i + 1]
  BY <1>1
<1>3. DOMAIN Tail(queue) = 1..Len(Tail(queue))
  BY <1>2
<1>4. \A i \in DOMAIN Tail(queue) : /\ i \in Nat /\ i + 1 \in DOMAIN queue /\ 1 < i + 1
                                    /\ Tail(queue)[i] = queue[i + 1]
  BY <1>2, <1>3
<1>5. Head(queue) \in [id : Nat, big : BOOLEAN]
  BY <1>2 DEF D
<1> QED  BY <1>2, <1>4, <1>5 DEF D

\* The receive takes the first datagram: it is later than those reported and
\* earlier than those left.
LEMMA RecvDatagramInv ==
  ASSUME DatagramInv, NEW s \in Srbs, RecvDatagram(s)
  PROVE  DatagramInv'
<1> USE DEF DatagramInv
<1>1. /\ queue # <<>> /\ queue' = Tail(queue) /\ arrived' = arrived /\ sent' = sent
      /\ phase[s] \in {"recv", "after"}
  BY DEF RecvDatagram, DropFirst
<1>2. CallsBack(s, "ok", Head(queue), "freed")
  <2>1. Head(queue) \in [id : Nat, big : BOOLEAN]
    BY <1>1, QueueFacts
  <2>2. Finish(s, "ok", Head(queue)) /\ phase' = [phase EXCEPT ![s] = "freed"]
    BY DEF RecvDatagram
  <2>3. UNCHANGED <<op, sync, readable, arrived>>
    BY DEF RecvDatagram, reactor
  <2> QED  BY <1>1, <2>1, <2>2, <2>3 DEF CallsBack
<1>3. op[s] = RecvOp
  BY <1>1 DEF PhaseOfOp
<1>4. queue' \in Seq([id : 1..MaxDatagrams, big : BOOLEAN]) /\ sent' \in Seq(Srbs)
  BY <1>1, QueueFacts DEF DatagramTypeOK
<1>5. /\ DatagramTypeOK' /\ CallbacksCounted' /\ PhaseOfOp'
      /\ \A t \in Srbs, i \in 1..2 :
           Received(t, i)' => \/ Received(t, i) /\ IdOf(t, i)' = IdOf(t, i)
                              \/ t = s /\ i = Len(result[s]) + 1 /\ IdOf(t, i)' = queue[1].id
  <2>1. Head(queue) = queue[1]
    BY <1>1, QueueFacts
  <2> DEFINE d == Head(queue)
  <2> HIDE DEF d
  <2>2. CallsBack(s, "ok", d, "freed")
    BY <1>2 DEF d
  <2>3. /\ DatagramTypeOK' /\ CallbacksCounted' /\ PhaseOfOp'
        /\ \A t \in Srbs, i \in 1..2 :
             Received(t, i)' => \/ Received(t, i) /\ IdOf(t, i)' = IdOf(t, i)
                                \/ t = s /\ i = Len(result[s]) + 1 /\ IdOf(t, i)' = d.id
    BY <1>4, <2>2, CallbackInv
  <2> QED  BY <2>1, <2>3 DEF d
<1>6. QueueInOrder'
  <2>1. /\ \A i, j \in DOMAIN queue' : i < j => queue'[i].id < queue'[j].id
        /\ \A i \in DOMAIN queue' : queue'[i].id <= arrived'
    BY <1>1, QueueFacts DEF QueueInOrder
  <2>2. queue[1].id <= arrived' /\ \A j \in DOMAIN queue' : queue[1].id < queue'[j].id
    BY <1>1, QueueFacts DEF QueueInOrder
  <2>3. \A t \in Srbs, i \in 1..2 :
          Received(t, i) => /\ IdOf(t, i) <= arrived'
                            /\ \A j \in DOMAIN queue' : IdOf(t, i) < queue'[j].id
    BY <1>1, QueueFacts DEF QueueInOrder
  <2>4. \A t \in Srbs, i \in 1..2 :
          Received(t, i)' => /\ IdOf(t, i)' <= arrived'
                             /\ \A j \in DOMAIN queue' : IdOf(t, i)' < queue'[j].id
    BY <1>5, <2>2, <2>3
  <2> QED  BY <2>1, <2>4 DEF QueueInOrder
<1>7. ReportsDiffer'
  <2>1. \A t \in Srbs, i \in 1..2 : Received(t, i) => IdOf(t, i) # queue[1].id
    <3> SUFFICES ASSUME NEW t \in Srbs, NEW i \in 1..2, Received(t, i)
                 PROVE  IdOf(t, i) # queue[1].id
      OBVIOUS
    <3>1. IdOf(t, i) < queue[1].id
      BY <1>1, QueueFacts DEF QueueInOrder
    <3>2. queue[1].id \in Nat
      BY <1>1, QueueFacts
    <3> QED  BY <3>1, <3>2
  <2> QED  BY <1>5, <2>1 DEF ReportsDiffer
<1>8. SentByDone' /\ SentOnce'
  BY <1>1, <1>2, <1>3, NotSentInv DEF SendOp, RecvOp
<1> QED  BY <1>5, <1>6, <1>7, <1>8

\* The send hands its datagram to the kernel: it had sent none.
LEMMA SendDatagramInv ==
  ASSUME DatagramInv, NEW s \in Srbs, SendDatagram(s)
  PROVE  DatagramInv'
<1> USE DEF DatagramInv
<1> DEFINE n == Len(sent)
<1>1. /\ queue' = queue /\ arrived' = arrived /\ sent' = Append(sent, s)
      /\ phase[s] = "job" /\ op[s] = SendOp
  BY DEF SendDatagram
<1>2. CallsBack(s, "ok", None, "freed")
  <2>1. None \in [id : Nat, big : BOOLEAN]
    BY DEF None
  <2>2. Finish(s, "ok", None) /\ phase' = [phase EXCEPT ![s] = "freed"]
    BY DEF SendDatagram
  <2>3. UNCHANGED <<op, sync, readable, arrived>>
    BY DEF SendDatagram, reactor
  <2> QED  BY <1>1, <2>1, <2>2, <2>3 DEF CallsBack
<1>3. sent \in Seq(Srbs)
  BY DEF DatagramTypeOK
<1>4. sent' \in Seq(Srbs)
  BY <1>1, <1>3
<1>5. DatagramTypeOK' /\ CallbacksCounted' /\ PhaseOfOp' /\ QueueInOrder' /\ ReportsDiffer'
  BY <1>1, <1>2, <1>4, NoReportInv DEF SendOp, RecvOp
<1>6. /\ n \in Nat /\ DOMAIN sent = 1..n /\ DOMAIN sent' = 1..(n + 1)
      /\ \A i \in 1..n : sent[i] \in Srbs /\ sent'[i] = sent[i]
      /\ sent'[n + 1] = s
  BY <1>1, <1>3
<1> HIDE DEF n
<1>7. \A i \in 1..n : sent[i] # s
  BY <1>1, <1>6 DEF SentByDone
<1>8. /\ op' = op /\ phase'[s] = "freed"
      /\ \A t \in Srbs : t # s => phase'[t] = phase[t] /\ result'[t] = result[t]
  <2>1. op' = op /\ phase'[s] = "freed" /\ \A t \in Srbs : t # s => phase'[t] = phase[t]
    BY <1>2, PhaseFacts DEF CallsBack
  <2>2. \A t \in Srbs : t # s => result'[t] = result[t]
    BY <1>2 DEF CallsBack, Finish, DatagramTypeOK
  <2> QED  BY <2>1, <2>2
<1>9. SentByDone'
  <2> SUFFICES ASSUME NEW i \in DOMAIN sent' PROVE op[sent'[i]] = SendOp /\ phase'[sent'[i]] = "freed"
    BY <1>8 DEF SentByDone
  <2>1. CASE i = n + 1
    BY <1>1, <1>6, <1>8, <2>1
  <2>2. CASE i \in 1..n
    BY <1>6, <1>7, <1>8, <2>2 DEF SentByDone
  <2> QED  BY <1>6, <2>1, <2>2
<1>10. result'[s] = <<[err |-> "ok", datagram |-> None]>>
  <2>1. result[s] = <<>> /\ result' = [result EXCEPT ![s] = Append(result[s], [err |-> "ok", datagram |-> None])]
    BY <1>1, <1>2 DEF CallbacksCounted, CallsBack, Finish
  <2> QED  BY <2>1 DEF DatagramTypeOK
<1>11. SentOnce'
  <2>1. ASSUME NEW i \in DOMAIN sent', NEW j \in DOMAIN sent', i # j
        PROVE  sent'[i] # sent'[j]
    <3>1. CASE i \in 1..n /\ j \in 1..n
      BY <1>6, <2>1, <3>1 DEF SentOnce
    <3>2. CASE i = n + 1 \/ j = n + 1
      BY <1>6, <1>7, <2>1, <3>2
    <3> QED  BY <1>6, <3>1, <3>2
  <2>2. ASSUME NEW t \in Srbs, op[t] = SendOp
        PROVE  (\E i \in DOMAIN sent' : sent'[i] = t)
                 <=> result'[t] = <<[err |-> "ok", datagram |-> None]>>
    <3>1. CASE t = s
      BY <1>6, <1>10, <3>1
    <3>2. CASE t # s
      <4>1. (\E i \in DOMAIN sent' : sent'[i] = t) <=> (\E i \in DOMAIN sent : sent[i] = t)
        BY <1>6, <3>2
      <4> QED  BY <1>8, <2>2, <3>2, <4>1 DEF SentOnce
    <3> QED  BY <3>1, <3>2
  <2> QED  BY <1>8, <2>1, <2>2 DEF SentOnce
<1> QED  BY <1>5, <1>9, <1>11

\* The callback of a send whose address is not known.
LEMMA AddressUnknownInv ==
  ASSUME DatagramInv, NEW s \in Srbs, AddressUnknown(s)
  PROVE  DatagramInv'
<1> USE DEF DatagramInv
<1> DEFINE r == [err |-> "errno", datagram |-> None]
<1>1. /\ phase[s] = "unused" /\ result' = [result EXCEPT ![s] = <<r>>]
      /\ phase' = [phase EXCEPT ![s] = "freed"]
      /\ UNCHANGED <<op, sync, freed, readable, queue, arrived, sent>>
  BY DEF AddressUnknown, MayStart, reactor, socket
<1>2. r \in Report /\ r.err = "errno"
  BY DEF Report, None
<1> HIDE DEF r
<1>3. result \in [Srbs -> Seq(Report)] /\ <<r>> \in Seq(Report)
  BY <1>2 DEF DatagramTypeOK, Report
<1>4. /\ phase'[s] = "freed" /\ result'[s] = <<r>>
      /\ \A t \in Srbs : t # s => phase'[t] = phase[t] /\ result'[t] = result[t]
      /\ result' \in [Srbs -> Seq(Report)]
  BY <1>1, <1>3 DEF DatagramTypeOK
<1>5. DatagramTypeOK'
  <2>1. phase' \in [Srbs -> {"unused", "posted", "job", "repost", "peek", "recv",
                             "after", "freed", "lost"}]
    BY <1>1 DEF DatagramTypeOK
  <2> QED  BY <1>1, <1>4, <2>1 DEF DatagramTypeOK, Report
<1>6. CallbacksCounted' /\ PhaseOfOp'
  BY <1>1, <1>4 DEF CallbacksCounted, PhaseOfOp
<1>7. \A t \in Srbs, i \in 1..2 :
        Received(t, i)' => Received(t, i) /\ IdOf(t, i)' = IdOf(t, i)
  <2> SUFFICES ASSUME NEW t \in Srbs, NEW i \in 1..2, Received(t, i)'
               PROVE  Received(t, i) /\ IdOf(t, i)' = IdOf(t, i)
    OBVIOUS
  <2>1. t # s
    <3> SUFFICES ASSUME t = s PROVE FALSE
      OBVIOUS
    <3>1. i = 1
      BY <1>4 DEF Received
    <3> QED  BY <1>2, <1>4, <3>1 DEF Received
  <2> QED  BY <1>1, <1>4, <2>1 DEF Received, IdOf
<1>8. QueueInOrder' /\ ReportsDiffer'
  BY <1>1, <1>7 DEF QueueInOrder, ReportsDiffer
<1>9. \A i \in DOMAIN sent : sent[i] \in Srbs /\ sent[i] # s
  BY <1>1 DEF SentByDone, DatagramTypeOK
<1>10. SentByDone'
  BY <1>1, <1>4, <1>9 DEF SentByDone
<1>11. <<r>> # <<[err |-> "ok", datagram |-> None]>>
  BY <1>2
<1>12. SentOnce'
  BY <1>1, <1>4, <1>9, <1>11 DEF SentOnce
<1> QED  BY <1>5, <1>6, <1>8, <1>10, <1>12

\* Every callback keeps the invariant.
LEMMA EndsInv ==
  ASSUME DatagramInv, NEW s \in Srbs, Ends(s)
  PROVE  DatagramInv'
<1> USE DEF DatagramInv
<1>1. ASSUME NEW err, NEW d, NEW p, CallsBack(s, err, d, p), err # "ok",
             UNCHANGED <<queue, sent>>
      PROVE  DatagramInv'
  <2>1. sent' \in Seq(Srbs)
    BY <1>1 DEF DatagramTypeOK
  <2>2. DatagramTypeOK' /\ CallbacksCounted' /\ PhaseOfOp' /\ QueueInOrder' /\ ReportsDiffer'
    BY <1>1, <2>1, NoReportInv
  <2>3. SentByDone' /\ SentOnce'
    BY <1>1, NotSentInv
  <2> QED  BY <2>2, <2>3
<1>2. None \in [id : Nat, big : BOOLEAN]
  BY DEF None
<1>3. CASE SendFails(s) \/ RecvFails(s)
  <2>1. CallsBack(s, "errno", None, "freed") /\ UNCHANGED <<queue, sent>>
    BY <1>2, <1>3 DEF CallsBack, SendFails, RecvFails, reactor, socket
  <2> QED  BY <1>1, <2>1
<1>4. CASE RecvPeeks(s)
  <2>1. CASE queue # <<>> /\ Finish(s, "small", Head(queue))
    <3>1. Head(queue) \in [id : Nat, big : BOOLEAN]
      BY <2>1, QueueFacts
    <3>2. CallsBack(s, "small", Head(queue), "after") /\ UNCHANGED <<queue, sent>>
      BY <1>4, <2>1, <3>1 DEF CallsBack, RecvPeeks, reactor, socket
    <3> QED  BY <1>1, <3>2
  <2>2. CASE Finish(s, "errno", None)
    <3>1. CallsBack(s, "errno", None, "after") /\ UNCHANGED <<queue, sent>>
      BY <1>2, <1>4, <2>2 DEF CallsBack, RecvPeeks, reactor, socket
    <3> QED  BY <1>1, <3>1
  <2> QED  BY <1>4, <2>1, <2>2 DEF RecvPeeks
<1> QED  BY <1>3, <1>4, AddressUnknownInv, SendDatagramInv, RecvDatagramInv DEF Ends

\* The invariant of the datagrams is inductive.
LEMMA DatagramInvNext == DatagramInv /\ [DatagramNext]_dvars => DatagramInv'
<1> SUFFICES ASSUME DatagramInv, [DatagramNext]_dvars PROVE DatagramInv'
  OBVIOUS
<1>1. DatagramTypeOK
  BY DEF DatagramInv
<1> QED  BY <1>1, StepKinds, BeginsInv, ProceedsInv, EndsInv, ArriveInv, ElsewhereInv

\* Nothing is repeated or made up, with any number of transfers of both kinds on
\* the socket: udp_recv_async_tpl and udp_recv_sync report a datagram received
\* once and in the order of arrival although they go on after a datagram that
\* is too large, and udp_send_async_tpl, which posts itself again after EAGAIN,
\* sends a datagram once and calls back without error only if it did.
THEOREM DatagramsAlwaysIntact == DatagramSpec => []DatagramsIntact
<1>1. DatagramInv => DatagramsIntact
  <2> SUFFICES ASSUME DatagramInv PROVE DatagramsIntact
    OBVIOUS
  <2> USE DEF DatagramInv
  <2> DEFINE Id(r) == result[r[1]][r[2]].datagram.id
  <2>1. \A r \in Reports : /\ r[1] \in Srbs /\ r[2] \in 1..2 /\ r = <<r[1], r[2]>>
                           /\ Received(r[1], r[2]) /\ Id(r) = IdOf(r[1], r[2])
    BY DEF Reports, Received, IdOf
  <2>2. \A r \in Reports, i \in DOMAIN queue : Id(r) < queue[i].id
    BY <2>1 DEF QueueInOrder
  <2>3. ASSUME NEW r \in Reports, NEW t \in Reports, Id(r) = Id(t) PROVE r = t
    <3>1. r[1] = t[1] /\ r[2] = t[2]
      BY <2>1, <2>3 DEF ReportsDiffer
    <3> QED  BY <2>1, <3>1
  <2>4. DatagramsOnceInOrder
    BY <2>2, <2>3 DEF DatagramsOnceInOrder
  <2> QED  BY <2>4 DEF DatagramsIntact
<1> QED  BY <1>1, DatagramInvInit, DatagramInvNext, PTL DEF DatagramSpec

(***************************************************************************)
(* The loop never waits for a datagram.                                    *)
(***************************************************************************)

\* Before anything is started the invariant holds.
LEMMA RecvInvInit == DatagramInit => RecvInv
<1> SUFFICES ASSUME DatagramInit PROVE RecvInv
  OBVIOUS
<1>1. OneJob
  BY DEF DatagramInit, Init, OneJob
<1>2. RecvHasDatagram /\ NoSilentTruncation
  BY DEF DatagramInit, RecvHasDatagram, NoSilentTruncation
<1> QED  BY <1>1, <1>2 DEF RecvInv

\* A start adds no job: a synchronous srb is none, a posted one is not called yet.
LEMMA BeginsRecvInv ==
  ASSUME DatagramInv, RecvInv, NEW s \in Srbs, NEW o \in {SendOp, RecvOp}, Begins(s, o)
  PROVE  RecvInv'
<1> USE DEF DatagramInv, RecvInv
<1>1. /\ phase[s] = "unused" /\ phase'[s] \in {"posted", "lost", "job"}
      /\ \A t \in Srbs : t # s => phase'[t] = phase[t] /\ op'[t] = op[t]
      /\ sync' = (IF phase'[s] = "job" THEN sync \cup {s} ELSE sync)
      /\ UNCHANGED <<inflight, readable, result, queue>>
  BY DEF Begins, DatagramTypeOK, socket
<1>2. result[s] = <<>> /\ s \notin sync /\ sync \subseteq Srbs
  BY <1>1 DEF CallbacksCounted, OneJob, DatagramTypeOK
<1>3. OneJob'
  BY <1>1, <1>2 DEF OneJob
<1>4. RecvAsyncOnly' => RecvAsyncOnly
  BY <1>1, <1>2 DEF RecvAsyncOnly
<1>5. RecvHasDatagram'
  BY <1>1, <1>2, <1>4 DEF RecvHasDatagram
<1>6. NoSilentTruncation'
  BY <1>1, <1>2, <1>4 DEF NoSilentTruncation, RecvAsyncOnly
<1> QED  BY <1>3, <1>5, <1>6

\* A receive is called for an event, and what it looks at is what it receives.
LEMMA ProceedsRecvInv ==
  ASSUME DatagramInv, RecvInv, NEW s \in Srbs, Proceeds(s)
  PROVE  RecvInv'
<1> USE DEF DatagramInv, RecvInv
<1>1. /\ UNCHANGED <<op, sync, result, queue>>
      /\ \A t \in Srbs : t # s => phase'[t] = phase[t]
      /\ RecvAsyncOnly' => RecvAsyncOnly
      /\ sync \subseteq Srbs
  <2>1. /\ UNCHANGED <<op, sync, result, queue>>
        /\ \A t \in Srbs : t # s => phase'[t] = phase[t]
    BY PhaseFacts DEF Proceeds, socket
  <2> QED  BY <2>1 DEF RecvAsyncOnly, DatagramTypeOK
<1>2. NoSilentTruncation'
  BY <1>1 DEF NoSilentTruncation
<1>3. CASE /\ phase[s] = "posted" /\ phase'[s] = "job" /\ (op[s] = RecvOp => readable)
           /\ inflight = {} /\ inflight' = {<<Skt, op[s], s>>} /\ ~readable'
  <2>1. s \notin sync
    BY <1>3 DEF OneJob
  <2>2. OneJob'
    BY <1>1, <1>3, <2>1 DEF OneJob
  <2>3. RecvHasDatagram'
    BY <1>1, <1>3 DEF RecvHasDatagram
  <2> QED  BY <1>2, <2>2, <2>3
<1>4. CASE /\ phase[s] = "job" /\ phase'[s] = "repost" /\ op[s] = SendOp /\ s \notin sync
           /\ UNCHANGED <<inflight, readable>>
  <2>1. OneJob'
    BY <1>1, <1>4 DEF OneJob
  <2>2. RecvHasDatagram'
    BY <1>1, <1>4 DEF RecvHasDatagram
  <2> QED  BY <1>2, <2>1, <2>2
<1>5. CASE /\ phase[s] = "job" /\ op[s] = RecvOp
           /\ phase'[s] = IF TooSmall THEN "peek" ELSE "recv"
           /\ UNCHANGED <<inflight, readable>>
  <2>1. OneJob'
    BY <1>1, <1>5 DEF OneJob
  <2>2. RecvHasDatagram'
    BY <1>1, <1>5 DEF RecvHasDatagram, TooSmall
  <2> QED  BY <1>2, <2>1, <2>2
<1>6. CASE /\ phase[s] = "repost" /\ phase'[s] \in {"posted", "lost"}
           /\ UNCHANGED <<inflight, readable>>
  <2>1. OneJob'
    BY <1>1, <1>6 DEF OneJob
  <2>2. RecvHasDatagram'
    BY <1>1, <1>6 DEF RecvHasDatagram
  <2> QED  BY <1>2, <2>1, <2>2
<1> QED  BY <1>3, <1>4, <1>5, <1>6 DEF Proceeds

\* The loop takes a read event only while a datagram is there.
LEMMA ElsewhereRecvInv ==
  ASSUME DatagramInv, RecvInv, Elsewhere
  PROVE  RecvInv'
<1> USE DEF DatagramInv, RecvInv
<1>1. UNCHANGED <<phase, op, sync, result, queue>>
  BY DEF Elsewhere, socket
<1>2. OneJob'
  BY <1>1 DEF OneJob, Elsewhere, Outstanding
<1>3. RecvHasDatagram'
  BY <1>1 DEF RecvHasDatagram, RecvAsyncOnly, Elsewhere
<1>4. NoSilentTruncation'
  BY <1>1 DEF NoSilentTruncation
<1> QED  BY <1>2, <1>3, <1>4

\* A datagram that arrives leaves the first one in its place.
LEMMA ArriveRecvInv ==
  ASSUME DatagramInv, RecvInv, NEW big \in BOOLEAN, Arrive(big)
  PROVE  RecvInv'
<1> USE DEF DatagramInv, RecvInv
<1>1. /\ UNCHANGED <<phase, op, sync, result, readable, inflight>>
      /\ queue' = queue \/ queue' = Append(queue, [id |-> arrived + 1, big |-> big])
  BY DEF Arrive, reactor, srb
<1>2. queue # <<>> => queue' # <<>> /\ Head(queue') = Head(queue)
  <2> DEFINE D == [id : 1..MaxDatagrams, big : BOOLEAN]
             d == [id |-> arrived + 1, big |-> big]
  <2>1. queue \in Seq(D)
    BY DEF DatagramTypeOK
  <2> HIDE DEF D, d
  <2>2. queue # <<>> => Append(queue, d) # <<>> /\ Head(Append(queue, d)) = Head(queue)
    BY <2>1
  <2> QED  BY <1>1, <2>2 DEF d
<1>3. OneJob'
  BY <1>1 DEF OneJob
<1>4. RecvHasDatagram'
  BY <1>1, <1>2 DEF RecvHasDatagram, RecvAsyncOnly, PhaseOfOp
<1>5. NoSilentTruncation'
  BY <1>1 DEF NoSilentTruncation
<1> QED  BY <1>3, <1>4, <1>5

\* A callback: the job it is made in is the only one, so the datagram it takes
\* is waited for by no other job, and by no event; the first that is reported
\* received of an asynchronous srb was looked at and fits.
LEMMA EndsRecvInv ==
  ASSUME DatagramInv, RecvInv, NEW s \in Srbs, Ends(s)
  PROVE  RecvInv'
<1> USE DEF DatagramInv, RecvInv
<1> DEFINE First(r) == r # <<>> => ~(r[1].err = "ok" /\ r[1].datagram.big)
<1>1. /\ UNCHANGED <<op, sync, inflight, readable>>
      /\ RecvAsyncOnly' => RecvAsyncOnly
      /\ sync \subseteq Srbs
  <2>1. UNCHANGED <<op, sync, inflight, readable>>
    BY DEF Ends, AddressUnknown, SendDatagram, SendFails, RecvPeeks, RecvDatagram, RecvFails,
           reactor
  <2> QED  BY <2>1 DEF RecvAsyncOnly, DatagramTypeOK
<1>2. \/ phase[s] = "unused" /\ phase' = [phase EXCEPT ![s] = "freed"]
      \/ phase[s] = "peek" /\ phase' = [phase EXCEPT ![s] = "after"] /\ queue' = queue
      \/ phase[s] \in {"job", "recv", "after"} /\ phase' = [phase EXCEPT ![s] = "freed"]
  BY DEF Ends, AddressUnknown, MayStart, SendDatagram, SendFails, RecvPeeks, RecvDatagram,
         RecvFails, socket
<1>3. /\ phase'[s] \in {"after", "freed"} /\ (phase'[s] = "after" => phase[s] = "peek")
      /\ \A t \in Srbs : t # s => phase'[t] = phase[t]
  BY <1>2 DEF DatagramTypeOK
<1>4. OneJob'
  BY <1>1, <1>3 DEF OneJob
<1>5. \A t \in Srbs : t # s => result'[t] = result[t]
  BY DEF Ends, AddressUnknown, SendDatagram, SendFails, RecvPeeks, RecvDatagram, RecvFails,
         Finish, DatagramTypeOK
<1>6. RecvHasDatagram'
  <2>1. CASE queue' = queue
    BY <1>1, <1>3, <2>1 DEF RecvHasDatagram
  <2>2. CASE RecvDatagram(s)
    <3> SUFFICES ASSUME RecvAsyncOnly' PROVE RecvHasDatagram'
      BY DEF RecvHasDatagram
    <3>1. phase[s] \in {"recv", "after"} /\ op[s] = RecvOp /\ phase'[s] = "freed"
      BY <1>3, <2>2 DEF RecvDatagram, PhaseOfOp, DatagramTypeOK
    <3>2. s \notin sync
      BY <1>1, <3>1 DEF RecvAsyncOnly, SendOp, RecvOp
    <3>3. inflight = {<<Skt, op[s], s>>} /\ ~readable
      BY <3>1, <3>2 DEF OneJob
    <3>4. \A t \in Srbs \ sync : t # s => phase[t] \notin {"job", "repost", "peek", "recv", "after"}
      <4> SUFFICES ASSUME NEW t \in Srbs \ sync,
                          phase[t] \in {"job", "repost", "peek", "recv", "after"}
                   PROVE  t = s
        OBVIOUS
      <4>1. inflight = {<<Skt, op[t], t>>}
        BY DEF OneJob
      <4>2. <<Skt, op[t], t>> = <<Skt, op[s], s>>
        BY <3>3, <4>1
      <4> QED  BY <4>2
    <3> QED  BY <1>1, <1>3, <3>1, <3>3, <3>4 DEF RecvHasDatagram
  <2>3. RecvDatagram(s) \/ queue' = queue
    BY DEF Ends, AddressUnknown, SendDatagram, SendFails, RecvPeeks, RecvFails, socket
  <2> QED  BY <2>1, <2>2, <2>3
<1>7. ASSUME NEW err, NEW d, NEW p, CallsBack(s, err, d, p),
             phase[s] = "after" \/ err # "ok" \/ ~d.big
      PROVE  First(result'[s])
  <2>1. /\ err \in {"ok", "small", "errno"} /\ d \in [id : Nat, big : BOOLEAN]
        /\ Finish(s, err, d)
        /\ phase[s] \in {"job", "peek", "recv", "after"}
    BY <1>7 DEF CallsBack
  <2>2. CASE phase[s] = "after"
    <3>1. Len(result[s]) = 1 /\ result[s][1].err # "ok"
      BY <2>2 DEF CallbacksCounted
    <3>2. result'[s][1] = result[s][1]
      BY <2>1, <3>1, FinishFacts
    <3> QED  BY <3>1, <3>2
  <2>3. CASE phase[s] # "after"
    <3>1. Len(result[s]) = 0
      <4>1. result[s] = <<>>
        BY <2>1, <2>3 DEF CallbacksCounted
      <4> QED  BY <4>1
    <3>2. result'[s][1] = [err |-> err, datagram |-> d]
      BY <2>1, <3>1, FinishFacts
    <3> QED  BY <1>7, <2>3, <3>2
  <2> QED  BY <2>2, <2>3
<1>8. ASSUME RecvAsyncOnly', s \notin sync PROVE First(result'[s])
  <2>1. CASE AddressUnknown(s)
    <3>1. result'[s] = <<[err |-> "errno", datagram |-> None]>>
      BY <2>1 DEF AddressUnknown, DatagramTypeOK
    <3>2. result'[s][1].err = "errno"
      BY <3>1
    <3> QED  BY <3>2
  <2>2. None \in [id : Nat, big : BOOLEAN] /\ ~None.big
    BY DEF None
  <2>3. CASE SendDatagram(s)
    <3>1. CallsBack(s, "ok", None, "freed")
      BY <2>2, <2>3 DEF CallsBack, SendDatagram, reactor
    <3> QED  BY <1>7, <2>2, <3>1
  <2>4. CASE SendFails(s) \/ RecvFails(s)
    <3>1. CallsBack(s, "errno", None, "freed")
      BY <2>2, <2>4 DEF CallsBack, SendFails, RecvFails, reactor, socket
    <3> QED  BY <1>7, <3>1
  <2>5. CASE RecvPeeks(s)
    <3>1. \/ CallsBack(s, "small", Head(queue), "after")
          \/ CallsBack(s, "errno", None, "after")
      BY <2>2, <2>5, QueueFacts DEF CallsBack, RecvPeeks, reactor, socket
    <3> QED  BY <1>7, <2>2, <3>1
  <2>6. CASE RecvDatagram(s)
    <3>1. CallsBack(s, "ok", Head(queue), "freed")
      <4>1. Head(queue) \in [id : Nat, big : BOOLEAN]
        BY <2>6, QueueFacts DEF RecvDatagram
      <4> QED  BY <2>6, <4>1 DEF CallsBack, RecvDatagram, reactor
    <3>2. phase[s] = "after" \/ ~Head(queue).big
      BY <1>1, <1>8, <2>6 DEF RecvDatagram, RecvHasDatagram
    <3> QED  BY <1>7, <3>1, <3>2
  <2> QED  BY <2>1, <2>3, <2>4, <2>5, <2>6 DEF Ends
<1>9. NoSilentTruncation'
  <2> SUFFICES ASSUME RecvAsyncOnly', NEW t \in Srbs \ sync PROVE First(result'[t])
    BY <1>1 DEF NoSilentTruncation, RecvAsyncOnly
  <2>1. CASE t = s
    BY <1>8, <2>1
  <2>2. CASE t # s
    BY <1>1, <1>5, <2>2 DEF NoSilentTruncation, RecvAsyncOnly
  <2> QED  BY <2>1, <2>2
<1> QED  BY <1>4, <1>6, <1>9

\* Both invariants together are inductive.
LEMMA RecvInvNext == DatagramInv /\ RecvInv /\ [DatagramNext]_dvars => RecvInv'
<1> SUFFICES ASSUME DatagramInv, RecvInv, [DatagramNext]_dvars PROVE RecvInv'
  OBVIOUS
<1>1. DatagramTypeOK
  BY DEF DatagramInv
<1> QED  BY <1>1, StepKinds, BeginsRecvInv, ProceedsRecvInv, EndsRecvInv, ArriveRecvInv,
            ElsewhereRecvInv

\* udp_recv_async_tpl calls recvmsg, which waits, only while a datagram is
\* there, even where it goes on after one that was too large: it holds up no
\* other job of the service, unless a synchronous receive takes the datagram
\* away from it.
THEOREM LoopGoesOn == DatagramSpec => []LoopNeverBlocks
<1>1. DatagramInv /\ RecvInv => LoopNeverBlocks
  BY DEF DatagramInv, RecvInv, RecvHasDatagram, RecvAsyncOnly, PhaseOfOp, LoopNeverBlocks
<1> QED  BY <1>1, DatagramInvInit, DatagramInvNext, RecvInvInit, RecvInvNext, PTL
         DEF DatagramSpec

\* The first callback of udp_recv_async_tpl for a datagram that exceeds the
\* buffer is not the one of a datagram received, however many datagrams of
\* either size arrive in between, if there are no synchronous receives.
THEOREM NeverTruncatesSilently == DatagramSpec => []NoSilentTruncation
<1>1. RecvInv => NoSilentTruncation
  BY DEF RecvInv
<1> QED  BY <1>1, DatagramInvInit, DatagramInvNext, RecvInvInit, RecvInvNext, PTL
         DEF DatagramSpec
=============================================================================
