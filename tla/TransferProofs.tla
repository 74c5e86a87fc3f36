--------------------------- MODULE TransferProofs ---------------------------
(***************************************************************************)
(* Proofs about Transfer for any set of sockets and of srbs and any sizes  *)
(* of the buffers.                                                         *)
(***************************************************************************)
EXTENDS Transfer, SequenceTheorems, TLAPS

(***************************************************************************)
(* The invariants.                                                         *)
(***************************************************************************)

\* The service as Reactor keeps it; every job it holds here is oneshot.
SlotsOK ==
  /\ accepting \in BOOLEAN
  /\ slot \in [Fds -> [Ops -> [job : Jobs \cup {NULL}, oneshot : BOOLEAN]]]
  /\ \A fd \in Fds, o \in Ops : slot[fd][o].job # NULL => slot[fd][o].oneshot

\* An srb that was started has a socket, one that was not has moved nothing,
\* and one that is not freed has something left to move.
Underway ==
  \A s \in Srbs :
    /\ phase[s] # "unused" => skt[s] \in Fds
    /\ phase[s] = "unused" => bytes_operated[s] = 0
    /\ phase[s] # "freed" => bytes_operated[s] < Size(op[s])

\* The inductive invariant of the ownership of srbs.
OwnInv == SlotsOK /\ SrbsIntact /\ Underway

\* Of two srbs for the same socket and operation, the one that is not being
\* operated has moved nothing yet.
Exclusive ==
  \A s, t \in Outstanding :
    s # t /\ skt[s] = skt[t] /\ op[s] = op[t] /\ phase[t] # "posted" =>
      phase[s] = "posted" /\ bytes_operated[s] = 0

\* If transfers do not overlap there are no two such srbs.
Unique ==
  ~Overlap => \A s, t \in Outstanding : s # t => skt[s] # skt[t] \/ op[s] # op[t]

\* Only a program with synchronous transfers runs one.
NoSync == ~Sync => \A s \in Srbs : phase[s] # "sync"

\* The inductive invariant of one transfer at a time.
ExclusiveInv == Exclusive /\ Unique /\ NoSync

\* The last byte of an unfinished receive is the last one read of the socket.
RecvHead ==
  \A s \in Outstanding :
    op[s] = RecvOp /\ bytes_operated[s] > 0 =>
      data[s][bytes_operated[s]] = consumed[skt[s]]

\* The three parts of RecvIntact, byte by byte.
RecvRun ==
  \A s \in Srbs : op[s] = RecvOp =>
    /\ \A i \in 2 .. bytes_operated[s] : data[s][i] = data[s][i - 1] + 1
    /\ \A i \in 1 .. bytes_operated[s] : data[s][i] \in 1 .. consumed[skt[s]]

RecvAll ==
  \A fd \in Fds : \A v \in 1 .. consumed[fd] :
    \E s \in Srbs : /\ op[s] = RecvOp /\ skt[s] = fd
                    /\ \E i \in 1 .. bytes_operated[s] : data[s][i] = v

RecvOnce ==
  \A s, t \in Srbs : s # t /\ op[s] = RecvOp /\ op[t] = RecvOp /\ skt[s] = skt[t] =>
    \A i \in 1 .. bytes_operated[s], j \in 1 .. bytes_operated[t] : data[s][i] # data[t][j]

\* No more is moved than the buffer holds.
WithinBuffer == \A s \in Srbs : bytes_operated[s] <= Size(op[s])

\* The inductive invariant of the receives.
RecvInv == RecvHead /\ RecvRun /\ RecvAll /\ RecvOnce

\* Every byte in a stream was sent from the buffer of a send on that socket,
\* which has counted it.
SentCounted ==
  \A fd \in Fds : \A i \in DOMAIN out[fd] :
    LET byte == out[fd][i]
    IN  skt[byte[1]] = fd /\ op[byte[1]] = SendOp /\ byte[2] <= bytes_operated[byte[1]]

\* The last byte of an unfinished send is the last one in the stream; only a
\* torn message has bytes moved while it is in the synchronous loop.
SendHead ==
  \A s \in Outstanding \ torn :
    op[s] = SendOp /\ bytes_operated[s] > 0 =>
      /\ phase[s] # "sync"
      /\ out[skt[s]] # <<>>
      /\ out[skt[s]][Len(out[skt[s]])] = <<s, bytes_operated[s]>>

\* Messages are torn in the synchronous loop only.
TornInSync == \A s \in torn : phase[s] \in {"sync", "freed"}

\* The inductive invariant of the sends.
SendInv == SentCounted /\ SendHead /\ TornInSync /\ SendContiguous

\* A post is dropped only by a service that was stopped.
LostWhenStopped == \A s \in Srbs : phase[s] = "lost" => ~accepting

\* A message sent in part is still being sent, or has a reason not to be.
PartHasReason ==
  \A s \in Srbs :
    op[s] = SendOp /\ bytes_operated[s] \in 1 .. SendSize - 1 =>
      s \in Outstanding \/ closed[skt[s]] \/ ~accepting \/ s \in torn

\* The last byte of a stream is the last one its send has counted, unless its
\* message is torn.
LastCounted ==
  \A fd \in Fds : out[fd] # <<>> =>
    LET byte == out[fd][Len(out[fd])] IN byte[1] \in torn \/ byte[2] = bytes_operated[byte[1]]

\* The inductive invariant of whole messages.
WholeInv == LostWhenStopped /\ PartHasReason /\ LastCounted /\ MessagesWhole

(***************************************************************************)
(* What a call of sendmsg or recvmsg does.                                 *)
(***************************************************************************)

\* The stream after n more bytes of an srb.
LEMMA SentBytes ==
  ASSUME NEW q \in Seq(Srbs \X (1..SendSize)), NEW s \in Srbs, NEW offset \in Nat,
         NEW n \in Nat, offset + n <= SendSize
  PROVE  LET r == q \o [i \in 1..n |-> <<s, offset + i>>]
         IN  /\ r \in Seq(Srbs \X (1..SendSize))
             /\ Len(r) = Len(q) + n
             /\ \A i \in 1 .. Len(q) : r[i] = q[i]
             /\ \A i \in Len(q) + 1 .. Len(q) + n : r[i] = <<s, offset + i - Len(q)>>
<1> DEFINE p == [i \in 1..n |-> <<s, offset + i>>]
           B == Srbs \X (1..SendSize)
<1>1. \A i \in 1..n : offset + i \in 1..SendSize
  BY SizeAssumption
<1>2. p \in Seq(B) /\ Len(p) = n
  <2>1. \A i \in 1..n : <<s, offset + i>> \in B
    BY <1>1
  <2> HIDE DEF B
  <2>2. p \in [1..n -> B]
    BY <2>1
  <2>3. p \in Seq(B)
    BY <2>2, SeqDef
  <2> QED  BY <2>2, <2>3, LenProperties
<1>3. \A i \in 1..n : p[i] = <<s, offset + i>>
  OBVIOUS
<1> HIDE DEF p, B
<1>4. q \in Seq(B)
  BY DEF B
<1>5. q \o p \in Seq(B) /\ Len(q \o p) = Len(q) + Len(p)
  BY <1>2, <1>4, ConcatProperties
<1>6. \A i \in 1 .. Len(q) : (q \o p)[i] = q[i]
  BY <1>2, <1>4, ConcatProperties
<1>7. \A i \in Len(q) + 1 .. Len(q) + n : (q \o p)[i] = p[i - Len(q)]
  BY <1>2, <1>4, ConcatProperties
<1>8. ASSUME NEW i \in Len(q) + 1 .. Len(q) + n
      PROVE  (q \o p)[i] = <<s, offset + i - Len(q)>>
  <2>1. i - Len(q) \in 1..n /\ offset + (i - Len(q)) = offset + i - Len(q)
    BY <1>4
  <2> QED  BY <1>3, <1>7, <2>1
<1> QED  BY <1>2, <1>5, <1>6, <1>8 DEF p, B

\* A receive changes its own buffer and the socket's count only.
LEMMA RecvMoves ==
  ASSUME TransferTypeOK, NEW s \in Srbs, skt[s] \in Fds, op[s] = RecvOp,
         NEW offset \in Nat, NEW n \in Nat, offset + n <= RecvSize, MoveBytes(s, offset, n)
  PROVE  /\ data' \in [Srbs -> [1..RecvSize -> Nat]] /\ consumed' \in [Fds -> Nat]
         /\ out' = out
         /\ \A t \in Srbs : t # s => data'[t] = data[t]
         /\ \A i \in 1..RecvSize : i \notin offset + 1 .. offset + n => data'[s][i] = data[s][i]
         /\ \A i \in offset + 1 .. offset + n : data'[s][i] = consumed[skt[s]] + i - offset
         /\ consumed'[skt[s]] = consumed[skt[s]] + n
         /\ \A fd \in Fds : fd # skt[s] => consumed'[fd] = consumed[fd]
<1> DEFINE new == [i \in 1..RecvSize |-> IF i \in offset + 1 .. offset + n
                                         THEN consumed[skt[s]] + i - offset ELSE data[s][i]]
<1>1. /\ data' = [data EXCEPT ![s] = new]
      /\ consumed' = [consumed EXCEPT ![skt[s]] = consumed[skt[s]] + n]
      /\ out' = out
  BY DEF MoveBytes
<1>2. new \in [1..RecvSize -> Nat]
  <2>1. consumed[skt[s]] \in Nat /\ \A i \in 1..RecvSize : data[s][i] \in Nat
    BY DEF TransferTypeOK
  <2> QED  BY <2>1, SizeAssumption
<1>3. /\ \A i \in 1..RecvSize : i \notin offset + 1 .. offset + n => new[i] = data[s][i]
      /\ \A i \in offset + 1 .. offset + n : new[i] = consumed[skt[s]] + i - offset
  BY SizeAssumption
<1> HIDE DEF new
<1>4. data' \in [Srbs -> [1..RecvSize -> Nat]] /\ data'[s] = new
      /\ \A t \in Srbs : t # s => data'[t] = data[t]
  BY <1>1, <1>2 DEF TransferTypeOK
<1>5. /\ consumed' \in [Fds -> Nat] /\ consumed'[skt[s]] = consumed[skt[s]] + n
      /\ \A fd \in Fds : fd # skt[s] => consumed'[fd] = consumed[fd]
  BY <1>1 DEF TransferTypeOK
<1> QED  BY <1>1, <1>3, <1>4, <1>5

\* A send adds bytes to the stream of its socket only.
LEMMA SendMoves ==
  ASSUME TransferTypeOK, NEW s \in Srbs, skt[s] \in Fds, op[s] = SendOp,
         NEW offset \in Nat, NEW n \in Nat, offset + n <= SendSize, MoveBytes(s, offset, n)
  PROVE  LET q == out[skt[s]]
             r == out'[skt[s]]
         IN  /\ UNCHANGED <<data, consumed>>
             /\ out' \in [Fds -> Seq(Srbs \X (1..SendSize))]
             /\ \A fd \in Fds : fd # skt[s] => out'[fd] = out[fd]
             /\ Len(q) \in Nat /\ Len(r) = Len(q) + n
             /\ \A i \in 1 .. Len(q) : r[i] = q[i]
             /\ \A i \in Len(q) + 1 .. Len(q) + n : r[i] = <<s, offset + i - Len(q)>>
<1> DEFINE q == out[skt[s]]
           new == q \o [i \in 1..n |-> <<s, offset + i>>]
<1>1. UNCHANGED <<data, consumed>> /\ out' = [out EXCEPT ![skt[s]] = new]
  BY DEF MoveBytes, SendOp, RecvOp
<1>2. q \in Seq(Srbs \X (1..SendSize)) /\ Len(q) \in Nat
  BY DEF TransferTypeOK
<1> HIDE DEF q
<1>3. /\ new \in Seq(Srbs \X (1..SendSize))
      /\ Len(new) = Len(q) + n
      /\ \A i \in 1 .. Len(q) : new[i] = q[i]
      /\ \A i \in Len(q) + 1 .. Len(q) + n : new[i] = <<s, offset + i - Len(q)>>
  BY <1>2, SentBytes
<1> HIDE DEF new
<1>4. /\ out' \in [Fds -> Seq(Srbs \X (1..SendSize))] /\ out'[skt[s]] = new
      /\ \A fd \in Fds : fd # skt[s] => out'[fd] = out[fd]
  BY <1>1, <1>3 DEF TransferTypeOK
<1> QED  BY <1>1, <1>2, <1>3, <1>4 DEF q

(***************************************************************************)
(* The ownership of srbs.                                                  *)
(***************************************************************************)

\* A new program satisfies the invariant.
LEMMA OwnInit == TransferInit => OwnInv
<1> SUFFICES ASSUME TransferInit PROVE OwnInv
  OBVIOUS
<1> USE SizeAssumption DEF TransferInit, Init
<1>1. SlotsOK
  BY DEF SlotsOK, Empty
<1>2. TransferTypeOK
  <2>1. Zeros \in [1..RecvSize -> Nat] /\ <<>> \in Seq([err : BOOLEAN, bytes : Nat])
    BY DEF Zeros
  <2>2. /\ data \in [Srbs -> [1..RecvSize -> Nat]]
        /\ result \in [Srbs -> Seq([err : BOOLEAN, bytes : Nat])]
    BY <2>1
  <2>3. /\ out \in [Fds -> Seq(Srbs \X (1..SendSize))] /\ closed \in [Fds -> BOOLEAN]
        /\ bytes_operated \in [Srbs -> Nat] /\ consumed \in [Fds -> Nat]
    OBVIOUS
  <2>4. /\ phase \in [Srbs -> {"unused", "posted", "job", "repost", "sync", "freed", "lost"}]
        /\ skt \in [Srbs -> Fds \cup {NULL}] /\ op \in [Srbs -> {SendOp, RecvOp}]
    OBVIOUS
  <2> QED  BY <2>2, <2>3, <2>4 DEF TransferTypeOK
<1>3. SrbOwned
  BY SrbAssumption DEF SrbOwned, Empty, Srbs
<1>4. Underway
  BY DEF Underway, Size
<1> QED  BY <1>1, <1>2, <1>3, <1>4 DEF OwnInv, SrbsIntact

\* A post fills the vacant slot of its socket and operation or drops the srb.
LEMMA PostFacts ==
  ASSUME SlotsOK, TransferTypeOK, NEW s \in Srbs, NEW fd \in Fds, NEW o \in Ops,
         PostSrb(s, fd, o)
  PROVE  /\ SlotsOK'
         /\ UNCHANGED <<accepting, inflight>>
         /\ \A t \in Srbs : t # s => phase'[t] = phase[t]
         /\ \/ /\ phase'[s] = "posted"
               /\ phase' = [phase EXCEPT ![s] = "posted"]
               /\ slot[fd][o].job = NULL /\ slot'[fd][o].job = s
               /\ \A f \in Fds, p \in Ops : f # fd \/ p # o => slot'[f][p] = slot[f][p]
            \/ /\ phase'[s] = "lost"
               /\ phase' = [phase EXCEPT ![s] = "lost"]
               /\ ~accepting \/ slot[fd][o].job # NULL
               /\ UNCHANGED slot
<1>1. CASE Post(fd, o, TRUE, s) /\ phase' = [phase EXCEPT ![s] = "posted"]
  <2>1. /\ slot[fd][o].job = NULL /\ slot'[fd][o] = [job |-> s, oneshot |-> TRUE]
        /\ \A f \in Fds, p \in Ops : f # fd \/ p # o => slot'[f][p] = slot[f][p]
        /\ slot' \in [Fds -> [Ops -> [job : Jobs \cup {NULL}, oneshot : BOOLEAN]]]
        /\ UNCHANGED <<accepting, inflight>>
    BY <1>1 DEF Post, SlotsOK, Srbs
  <2>2. SlotsOK'
    BY <2>1 DEF SlotsOK
  <2> QED  BY <1>1, <2>1, <2>2 DEF TransferTypeOK
<1>2. CASE /\ ~accepting \/ slot[fd][o].job # NULL
           /\ phase' = [phase EXCEPT ![s] = "lost"]
           /\ UNCHANGED reactor
  BY <1>2 DEF reactor, SlotsOK, TransferTypeOK
<1> QED  BY <1>1, <1>2 DEF PostSrb

\* StartAsync, StartSync: the srb gets its socket and operation.
LEMMA StartOwn ==
  ASSUME OwnInv, NEW s \in Srbs, NEW fd \in Fds, NEW o \in {SendOp, RecvOp}, SrbOperate(s, fd, o)
  PROVE  OwnInv'
<1> USE DEF OwnInv, SrbsIntact
<1>1. /\ phase[s] = "unused" /\ UNCHANGED <<bytes_operated, data, result, sockets>>
      /\ skt' = [skt EXCEPT ![s] = fd] /\ op' = [op EXCEPT ![s] = o]
  BY DEF SrbOperate, StartAsync, StartSync, MayStart
<1>2. /\ skt'[s] = fd /\ op'[s] = o
      /\ \A t \in Srbs : t # s => skt'[t] = skt[t] /\ op'[t] = op[t]
      /\ skt' \in [Srbs -> Fds \cup {NULL}] /\ op' \in [Srbs -> {SendOp, RecvOp}]
  BY <1>1 DEF TransferTypeOK
<1>3. bytes_operated[s] = 0 /\ 0 < Size(o)
  BY <1>1, SizeAssumption DEF Underway, Size
<1>4. o \in Ops
  BY DEF Ops, SendOp, RecvOp
<1>5. CASE StartAsync(s, fd, o)
  <2>1. PostSrb(s, fd, o) /\ UNCHANGED aborted
    BY <1>5 DEF StartAsync
  <2>2. /\ SlotsOK' /\ inflight' = inflight
        /\ phase'[s] \in {"posted", "lost"}
        /\ phase' = [phase EXCEPT ![s] = phase'[s]]
        /\ \A t \in Srbs : t # s => phase'[t] = phase[t]
    BY <1>4, <2>1, PostFacts
  <2>3. TransferTypeOK'
    BY <1>1, <1>2, <2>1, <2>2 DEF TransferTypeOK, sockets
  <2>4. \A t \in Srbs, f \in Fds, p \in Ops :
          slot'[f][p].job = t <=> phase'[t] = "posted" /\ skt'[t] = f /\ op'[t] = p
    <3>1. CASE phase'[s] = "posted"
      BY <1>1, <1>2, <1>4, <2>1, <2>2, <3>1, PostFacts, SrbAssumption DEF SrbOwned, Srbs
    <3>2. CASE phase'[s] = "lost"
      BY <1>1, <1>2, <1>4, <2>1, <2>2, <3>2, PostFacts, SrbAssumption DEF SrbOwned, Srbs
    <3> QED  BY <2>2, <3>1, <3>2
  <2>5. SrbOwned'
    BY <1>1, <1>2, <2>2, <2>4 DEF SrbOwned
  <2>6. Underway'
    BY <1>1, <1>2, <1>3, <2>2 DEF Underway, Size
  <2> QED  BY <2>2, <2>3, <2>5, <2>6
<1>6. ASSUME NEW garbage \in {SendOp, RecvOp}, StartSync(s, fd, o, garbage) PROVE OwnInv'
  <2>1. /\ UNCHANGED reactor
        /\ phase'[s] \in {"sync", "unused"} /\ aborted' \in BOOLEAN
        /\ phase' = [phase EXCEPT ![s] = phase'[s]]
        /\ \A t \in Srbs : t # s => phase'[t] = phase[t]
    BY <1>1, <1>6 DEF StartSync, TransferTypeOK
  <2>2. TransferTypeOK'
    BY <1>1, <1>2, <2>1 DEF TransferTypeOK, sockets
  <2>3. SlotsOK' /\ SrbOwned'
    BY <1>1, <1>2, <2>1 DEF SlotsOK, SrbOwned, reactor
  <2>4. Underway'
    BY <1>1, <1>2, <1>3, <2>1 DEF Underway, Size
  <2> QED  BY <2>2, <2>3, <2>4
<1> QED  BY <1>5, <1>6 DEF SrbOperate

\* The callback is called and the srb freed, once.
LEMMA FinishFacts ==
  ASSUME TransferTypeOK, SrbOwned, NEW s \in Srbs, phase[s] \in {"job", "sync"},
         NEW err \in BOOLEAN, NEW bytes \in Nat, Finish(s, err, bytes)
  PROVE  /\ phase'[s] = "freed" /\ \A t \in Srbs : t # s => phase'[t] = phase[t]
         /\ phase' = [phase EXCEPT ![s] = phase'[s]]
         /\ result' \in [Srbs -> Seq([err : BOOLEAN, bytes : Nat])]
         /\ Len(result'[s]) = 1 /\ result'[s][1] = [err |-> err, bytes |-> bytes]
         /\ \A t \in Srbs : t # s => result'[t] = result[t]
<1> DEFINE R == [err : BOOLEAN, bytes : Nat]
           r == [err |-> err, bytes |-> bytes]
<1>1. r \in R /\ result \in [Srbs -> Seq(R)] /\ Len(result[s]) = 0
  BY DEF TransferTypeOK, SrbOwned
<1>2. result' = [result EXCEPT ![s] = Append(result[s], r)]
  BY DEF Finish
<1> HIDE DEF R, r
<1>3. /\ Append(result[s], r) \in Seq(R)
      /\ Len(Append(result[s], r)) = 1 /\ Append(result[s], r)[1] = r
  BY <1>1
<1>4. phase'[s] = "freed" /\ phase' = [phase EXCEPT ![s] = phase'[s]]
      /\ \A t \in Srbs : t # s => phase'[t] = phase[t]
  BY DEF Finish, TransferTypeOK
<1> QED  BY <1>1, <1>2, <1>3, <1>4 DEF R, r

\* Steps of an srb that move nothing: its job is called, tries again, fails,
\* posts itself again.
LEMMA JobOwn ==
  ASSUME OwnInv, NEW s \in Srbs,
         CallJob(s) \/ JobAgain(s) \/ JobFails(s) \/ SyncFails(s) \/ Repost(s)
  PROVE  OwnInv'
<1> USE DEF OwnInv, SrbsIntact
<1>1. /\ phase[s] \in {"posted", "job", "repost", "sync"}
      /\ UNCHANGED <<skt, op, bytes_operated, data, sockets, aborted>>
  BY DEF CallJob, JobAgain, JobFails, SyncFails, Repost
<1>2. skt[s] \in Fds /\ op[s] \in Ops
  BY <1>1 DEF Underway, TransferTypeOK, Ops, SendOp, RecvOp
<1>3. ASSUME /\ SlotsOK' /\ SrbOwned'
             /\ \A t \in Srbs : t # s => phase'[t] = phase[t]
             /\ phase'[s] \in {"posted", "job", "repost", "freed", "lost"}
             /\ phase' = [phase EXCEPT ![s] = phase'[s]]
             /\ result' \in [Srbs -> Seq([err : BOOLEAN, bytes : Nat])]
      PROVE  OwnInv'
  <2>1. TransferTypeOK'
    BY <1>1, <1>3 DEF TransferTypeOK, sockets
  <2>2. Underway'
    BY <1>1, <1>2, <1>3 DEF Underway, Size
  <2> QED  BY <1>3, <2>1, <2>2
<1>4. CASE CallJob(s)
  <2>1. /\ slot[skt[s]][op[s]].job = s /\ slot[skt[s]][op[s]].oneshot /\ phase[s] = "posted"
        /\ inflight = {} /\ inflight' = {<<skt[s], op[s], s>>}
        /\ phase' = [phase EXCEPT ![s] = "job"] /\ UNCHANGED <<accepting, result>>
    BY <1>2, <1>4, SrbAssumption DEF CallJob, Call, SlotsOK, Srbs
  <2>2. slot' = [slot EXCEPT ![skt[s]][op[s]] = Empty]
    BY <1>4, <2>1 DEF CallJob, Call
  <2>3. /\ slot'[skt[s]][op[s]] = Empty
        /\ \A f \in Fds, p \in Ops : f # skt[s] \/ p # op[s] => slot'[f][p] = slot[f][p]
        /\ slot' \in [Fds -> [Ops -> [job : Jobs \cup {NULL}, oneshot : BOOLEAN]]]
    BY <1>2, <2>2 DEF SlotsOK, Empty
  <2>4. SlotsOK'
    BY <2>1, <2>3 DEF SlotsOK, Empty
  <2>5. /\ phase'[s] = "job" /\ \A t \in Srbs : t # s => phase'[t] = phase[t]
        /\ phase' = [phase EXCEPT ![s] = phase'[s]]
    BY <2>1 DEF TransferTypeOK
  <2>6. \A t \in Srbs, f \in Fds, p \in Ops :
          slot'[f][p].job = t <=> phase'[t] = "posted" /\ skt'[t] = f /\ op'[t] = p
    <3> SUFFICES ASSUME NEW t \in Srbs, NEW f \in Fds, NEW p \in Ops
                 PROVE  slot'[f][p].job = t <=> phase'[t] = "posted" /\ skt[t] = f /\ op[t] = p
      BY <1>1
    <3>1. slot[f][p].job = t <=> phase[t] = "posted" /\ skt[t] = f /\ op[t] = p
      BY DEF SrbOwned
    <3>2. CASE f = skt[s] /\ p = op[s]
      <4>1. slot'[f][p].job # t
        BY <2>3, <3>2, SrbAssumption DEF Srbs, Empty
      <4> QED  BY <2>1, <2>5, <3>1, <3>2, <4>1
    <3>3. CASE f # skt[s] \/ p # op[s]
      BY <2>3, <2>5, <3>1, <3>3
    <3> QED  BY <3>2, <3>3
  <2>7. ASSUME NEW t \in Srbs PROVE phase[t] \notin {"job", "repost"}
    <3>1. inflight # {<<skt[t], op[t], t>>}
      BY <2>1
    <3> QED  BY <3>1 DEF SrbOwned
  <2>8. SrbOwned'
    BY <1>1, <2>1, <2>5, <2>6, <2>7 DEF SrbOwned
  <2> QED  BY <1>3, <2>1, <2>4, <2>5, <2>8 DEF TransferTypeOK
<1>5. CASE JobAgain(s)
  <2>1. UNCHANGED <<reactor, result>> /\ phase[s] = "job" /\ phase' = [phase EXCEPT ![s] = "repost"]
    BY <1>5 DEF JobAgain
  <2>2. /\ phase'[s] = "repost" /\ \A t \in Srbs : t # s => phase'[t] = phase[t]
        /\ phase' = [phase EXCEPT ![s] = phase'[s]]
    BY <2>1 DEF TransferTypeOK
  <2>3. SlotsOK' /\ SrbOwned'
    BY <1>1, <2>1, <2>2 DEF SlotsOK, SrbOwned, reactor
  <2> QED  BY <1>3, <2>1, <2>2, <2>3 DEF TransferTypeOK
<1>6. CASE JobFails(s) \/ SyncFails(s)
  <2>1. UNCHANGED reactor /\ phase[s] \in {"job", "sync"} /\ Finish(s, TRUE, bytes_operated[s])
    BY <1>6 DEF JobFails, SyncFails
  <2>2. bytes_operated[s] \in Nat
    BY DEF TransferTypeOK
  <2>3. /\ phase'[s] = "freed" /\ \A t \in Srbs : t # s => phase'[t] = phase[t]
        /\ phase' = [phase EXCEPT ![s] = phase'[s]]
        /\ result' \in [Srbs -> Seq([err : BOOLEAN, bytes : Nat])]
        /\ Len(result'[s]) = 1 /\ \A t \in Srbs : t # s => result'[t] = result[t]
    BY <2>1, <2>2, FinishFacts
  <2>4. SlotsOK'
    BY <2>1 DEF SlotsOK, reactor
  <2>5. \A t \in Srbs : Len(result'[t]) = IF phase'[t] = "freed" THEN 1 ELSE 0
    BY <2>3 DEF SrbOwned
  <2>6. SrbOwned'
    BY <1>1, <2>1, <2>3, <2>5 DEF SrbOwned, reactor
  <2> QED  BY <1>3, <2>3, <2>4, <2>6
<1>7. CASE Repost(s)
  <2>1. PostSrb(s, skt[s], op[s]) /\ phase[s] = "repost" /\ UNCHANGED result
    BY <1>7 DEF Repost
  <2>2. /\ SlotsOK' /\ inflight' = inflight
        /\ phase'[s] \in {"posted", "lost"}
        /\ phase' = [phase EXCEPT ![s] = phase'[s]]
        /\ \A t \in Srbs : t # s => phase'[t] = phase[t]
    BY <1>2, <2>1, PostFacts
  <2>3. \A t \in Srbs, f \in Fds, p \in Ops :
          slot'[f][p].job = t <=> phase'[t] = "posted" /\ skt'[t] = f /\ op'[t] = p
    <3>1. CASE phase'[s] = "posted"
      BY <1>1, <1>2, <2>1, <2>2, <3>1, PostFacts, SrbAssumption DEF SrbOwned, Srbs
    <3>2. CASE phase'[s] = "lost"
      BY <1>1, <1>2, <2>1, <2>2, <3>2, PostFacts, SrbAssumption DEF SrbOwned, Srbs
    <3> QED  BY <2>2, <3>1, <3>2
  <2>4. SrbOwned'
    BY <1>1, <2>1, <2>2, <2>3 DEF SrbOwned
  <2> QED  BY <1>3, <2>1, <2>2, <2>4 DEF TransferTypeOK
<1> QED  BY <1>4, <1>5, <1>6, <1>7

\* What is common to both kinds of moves: the srb counts the bytes, and goes
\* on or is freed with a callback.
LEMMA MoveFacts ==
  ASSUME OwnInv, NEW s \in Srbs, NEW n \in 0 .. Size(op[s]), JobMoves(s, n) \/ SyncMoves(s, n)
  PROVE  LET b == bytes_operated[s]
         IN  /\ phase[s] \in {"job", "sync"} /\ skt[s] \in Fds
             /\ b \in Nat /\ b < Size(op[s]) /\ n \in Nat /\ b + n \in Nat
             /\ op[s] = RecvOp \/ n > 0
             /\ UNCHANGED <<accepting, slot, inflight, skt, op, closed, aborted>>
             /\ bytes_operated' \in [Srbs -> Nat] /\ bytes_operated'[s] = b + n
             /\ \A t \in Srbs : t # s => bytes_operated'[t] = bytes_operated[t]
             /\ \A t \in Srbs : t # s => phase'[t] = phase[t]
             /\ phase' = [phase EXCEPT ![s] = phase'[s]]
             /\ result' \in [Srbs -> Seq([err : BOOLEAN, bytes : Nat])]
             /\ \A t \in Srbs : t # s => result'[t] = result[t]
             /\ \/ /\ b + n < Size(op[s]) /\ result' = result
                   /\ phase'[s] = IF phase[s] = "job" THEN "repost" ELSE "sync"
                \/ /\ b + n >= Size(op[s]) /\ phase'[s] = "freed"
                   /\ Len(result'[s]) = 1
                   /\ result'[s][1] = [err |-> FALSE, bytes |-> b + n]
<1> DEFINE b == bytes_operated[s]
<1> USE DEF OwnInv, SrbsIntact
<1>1. b \in Nat /\ phase[s] \in {"job", "sync"} /\ Size(op[s]) \in Nat /\ n \in Nat
  <2>1. phase[s] \in {"job", "sync"}
    BY DEF JobMoves, SyncMoves
  <2>2. b \in Nat /\ Size(op[s]) \in Nat
    BY SizeAssumption DEF TransferTypeOK, Size
  <2> QED  BY <2>1, <2>2
<1>2. skt[s] \in Fds /\ b < Size(op[s]) /\ b + n \in Nat
  BY <1>1 DEF Underway
<1>3. op[s] = RecvOp \/ n > 0
  <2>1. CASE JobMoves(s, n)
    <3>1. n \in Moved(s, Size(op[s]) - Offset(s))
      BY <2>1 DEF JobMoves
    <3> QED  BY <1>1, <3>1 DEF Moved, Offset
  <2>2. CASE SyncMoves(s, n)
    <3>1. n \in Moved(s, Size(op[s]))
      BY <2>2 DEF SyncMoves
    <3> QED  BY <1>1, <3>1 DEF Moved
  <2> QED  BY <2>1, <2>2
<1>4. /\ UNCHANGED <<accepting, slot, inflight, skt, op, closed, aborted>>
      /\ bytes_operated' = [bytes_operated EXCEPT ![s] = b + n]
  BY DEF JobMoves, SyncMoves, reactor, Total
<1>5. /\ bytes_operated' \in [Srbs -> Nat] /\ bytes_operated'[s] = b + n
      /\ \A t \in Srbs : t # s => bytes_operated'[t] = bytes_operated[t]
  BY <1>1, <1>4 DEF TransferTypeOK
<1>6. CASE b + n < Size(op[s])
  <2>1. result' = result /\ phase' = [phase EXCEPT ![s] = IF phase[s] = "job" THEN "repost" ELSE "sync"]
    <3>1. CASE JobMoves(s, n)
      BY <1>6, <3>1 DEF JobMoves, Incomplete, Total
    <3>2. CASE SyncMoves(s, n)
      BY <1>6, <3>2 DEF SyncMoves, Incomplete, Total, TransferTypeOK
    <3> QED  BY <3>1, <3>2
  <2>2. /\ phase'[s] = IF phase[s] = "job" THEN "repost" ELSE "sync"
        /\ \A t \in Srbs : t # s => phase'[t] = phase[t]
        /\ phase' = [phase EXCEPT ![s] = phase'[s]]
    BY <2>1 DEF TransferTypeOK
  <2>3. result \in [Srbs -> Seq([err : BOOLEAN, bytes : Nat])]
    BY DEF TransferTypeOK
  <2> QED  BY <1>1, <1>2, <1>3, <1>4, <1>5, <1>6, <2>1, <2>2, <2>3
<1>7. CASE ~(b + n < Size(op[s]))
  <2>1. Finish(s, FALSE, b + n)
    BY <1>7 DEF JobMoves, SyncMoves, Incomplete, Total
  <2>2. /\ phase'[s] = "freed" /\ \A t \in Srbs : t # s => phase'[t] = phase[t]
        /\ phase' = [phase EXCEPT ![s] = phase'[s]]
        /\ result' \in [Srbs -> Seq([err : BOOLEAN, bytes : Nat])]
        /\ Len(result'[s]) = 1 /\ result'[s][1] = [err |-> FALSE, bytes |-> b + n]
        /\ \A t \in Srbs : t # s => result'[t] = result[t]
    BY <1>1, <1>2, <2>1, FinishFacts
  <2>3. b + n >= Size(op[s])
    BY <1>1, <1>7
  <2> QED  BY <1>1, <1>2, <1>3, <1>4, <1>5, <2>2, <2>3
<1> QED  BY <1>6, <1>7

\* The offset at which the bytes are taken or put, and that they fit.
LEMMA MoveOffset ==
  ASSUME OwnInv, NEW s \in Srbs, NEW n \in 0 .. Size(op[s]), JobMoves(s, n) \/ SyncMoves(s, n)
  PROVE  \E offset \in Nat :
           /\ offset = IF phase[s] = "job" THEN bytes_operated[s] ELSE 0
           /\ offset + n <= Size(op[s])
           /\ MoveBytes(s, offset, n)
<1> USE SizeAssumption
<1>1. /\ bytes_operated[s] \in Nat /\ Size(op[s]) \in Nat /\ n \in Nat
      /\ bytes_operated[s] < Size(op[s])
  BY MoveFacts DEF Size
<1>2. CASE JobMoves(s, n)
  <2>1. bytes_operated[s] + n <= Size(op[s])
    BY <1>1, <1>2 DEF JobMoves, Moved, Offset
  <2> QED  BY <1>1, <1>2, <2>1 DEF JobMoves, Offset
<1>3. CASE SyncMoves(s, n)
  <2>1. 0 + n <= Size(op[s]) /\ phase[s] = "sync" /\ MoveBytes(s, 0, n)
    BY <1>1, <1>3 DEF SyncMoves
  <2> QED  BY <2>1
<1> QED  BY <1>2, <1>3

\* What JobMoves and SyncMoves record of a message that is torn.
LEMMA TornFacts ==
  ASSUME NEW s \in Srbs, NEW n, JobMoves(s, n) \/ SyncMoves(s, n)
  PROVE  /\ torn' \in {torn, torn \cup {s}}
         /\ s \in torn' => s \in torn \/ (phase[s] = "sync" /\ op[s] = SendOp)
         /\ s \notin torn' => phase[s] = "job" \/ op[s] # SendOp \/ ~(n < SendSize)
<1>1. CASE JobMoves(s, n)
  BY <1>1 DEF JobMoves
<1>2. CASE SyncMoves(s, n)
  BY <1>2 DEF SyncMoves
<1> QED  BY <1>1, <1>2

\* JobMoves and SyncMoves keep the ownership.
LEMMA MovesOwn ==
  ASSUME OwnInv, NEW s \in Srbs, NEW n \in 0 .. Size(op[s]), JobMoves(s, n) \/ SyncMoves(s, n)
  PROVE  OwnInv'
<1> DEFINE b == bytes_operated[s]
<1>1. /\ phase[s] \in {"job", "sync"} /\ skt[s] \in Fds
      /\ b \in Nat /\ b < Size(op[s]) /\ n \in Nat
      /\ UNCHANGED <<accepting, slot, inflight, skt, op, closed, aborted>>
      /\ bytes_operated' \in [Srbs -> Nat] /\ bytes_operated'[s] = b + n
      /\ \A t \in Srbs : t # s => bytes_operated'[t] = bytes_operated[t]
      /\ \A t \in Srbs : t # s => phase'[t] = phase[t]
      /\ phase' = [phase EXCEPT ![s] = phase'[s]]
      /\ result' \in [Srbs -> Seq([err : BOOLEAN, bytes : Nat])]
      /\ \A t \in Srbs : t # s => result'[t] = result[t]
  BY MoveFacts
<1>2. \/ /\ b + n < Size(op[s]) /\ result' = result
         /\ phase'[s] = IF phase[s] = "job" THEN "repost" ELSE "sync"
      \/ phase'[s] = "freed" /\ Len(result'[s]) = 1
  BY MoveFacts
<1> HIDE DEF b
<1> USE DEF OwnInv, SrbsIntact
<1>3. /\ data' \in [Srbs -> [1..RecvSize -> Nat]] /\ consumed' \in [Fds -> Nat]
      /\ out' \in [Fds -> Seq(Srbs \X (1..SendSize))]
  <2>1. PICK offset \in Nat : offset + n <= Size(op[s]) /\ MoveBytes(s, offset, n)
    BY MoveOffset
  <2>2. CASE op[s] = RecvOp
    <3>1. offset + n <= RecvSize
      BY <2>1, <2>2 DEF Size, SendOp, RecvOp
    <3>2. data' \in [Srbs -> [1..RecvSize -> Nat]] /\ consumed' \in [Fds -> Nat] /\ out' = out
      BY <1>1, <2>1, <2>2, <3>1, RecvMoves
    <3> QED  BY <3>2 DEF TransferTypeOK
  <2>3. CASE op[s] = SendOp
    <3>1. offset + n <= SendSize
      BY <2>1, <2>3 DEF Size
    <3>2. UNCHANGED <<data, consumed>> /\ out' \in [Fds -> Seq(Srbs \X (1..SendSize))]
      BY <1>1, <2>1, <2>3, <3>1, SendMoves
    <3> QED  BY <3>2 DEF TransferTypeOK
  <2> QED  BY <2>2, <2>3 DEF TransferTypeOK
<1>4. phase'[s] \in {"repost", "sync", "freed"}
  BY <1>1, <1>2
<1>5. TransferTypeOK'
  <2>1. torn \subseteq Srbs
    BY DEF TransferTypeOK
  <2>2. torn' \subseteq Srbs
    BY <2>1, TornFacts
  <2> QED  BY <1>1, <1>3, <1>4, <2>2 DEF TransferTypeOK
<1>6. \A t \in Srbs : Len(result'[t]) = IF phase'[t] = "freed" THEN 1 ELSE 0
  <2>1. \A t \in Srbs : Len(result[t]) = IF phase[t] = "freed" THEN 1 ELSE 0
    BY DEF SrbOwned
  <2>2. CASE result' = result /\ phase'[s] = IF phase[s] = "job" THEN "repost" ELSE "sync"
    BY <1>1, <2>1, <2>2
  <2>3. CASE phase'[s] = "freed" /\ Len(result'[s]) = 1
    BY <1>1, <2>1, <2>3
  <2> QED  BY <1>2, <2>2, <2>3
<1>7. \A t \in Srbs : phase'[t] = "posted" <=> phase[t] = "posted"
  BY <1>1, <1>4
<1>8. \A t \in Srbs : phase'[t] \in {"job", "repost"} => phase[t] \in {"job", "repost"}
  BY <1>1, <1>2
<1>9. SlotsOK' /\ SrbOwned'
  BY <1>1, <1>6, <1>7, <1>8 DEF SlotsOK, SrbOwned
<1>10. Underway'
  BY <1>1, <1>2 DEF Underway, Size
<1> QED  BY <1>5, <1>9, <1>10

\* Every step preserves the ownership of srbs.
LEMMA OwnStep == OwnInv /\ [TransferNext]_tvars => OwnInv'
<1> SUFFICES ASSUME OwnInv, [TransferNext]_tvars PROVE OwnInv'
  OBVIOUS
<1>1. ASSUME NEW s \in Srbs, Step(s) PROVE OwnInv'
  BY <1>1, JobOwn, MovesOwn DEF Step
<1>2. ASSUME NEW s \in Srbs, NEW fd \in Fds, NEW o \in {SendOp, RecvOp}, SrbOperate(s, fd, o)
      PROVE  OwnInv'
  BY <1>2, StartOwn
<1> USE DEF OwnInv, SrbsIntact, srb, sockets
<1>3. CASE JobReturns
  BY <1>3 DEF JobReturns, Return, SlotsOK, TransferTypeOK, SrbOwned, Underway, Size
<1>4. ASSUME NEW fd \in Fds, PeerCloses(fd) PROVE OwnInv'
  <2>1. closed' \in [Fds -> BOOLEAN]
    BY <1>4 DEF PeerCloses, TransferTypeOK
  <2> QED  BY <1>4, <2>1 DEF PeerCloses, reactor, SlotsOK, TransferTypeOK, SrbOwned, Underway, Size
<1>5. CASE StopService
  <2>1. accepting' \in BOOLEAN /\ UNCHANGED <<slot, inflight, srb, sockets, aborted>>
    BY <1>5 DEF StopService, Refuse
  <2>2. SlotsOK'
    BY <2>1 DEF SlotsOK
  <2>3. SrbOwned'
    BY <2>1 DEF SrbOwned
  <2> QED  BY <2>1, <2>2, <2>3 DEF TransferTypeOK, Underway, Size
<1>6. CASE UNCHANGED tvars
  BY <1>6 DEF tvars, reactor, SlotsOK, TransferTypeOK, SrbOwned, Underway, Size
<1> QED  BY <1>1, <1>2, <1>3, <1>4, <1>5, <1>6 DEF TransferNext, Quiet

\* For any number of sockets and srbs, any sizes of the buffers, with and
\* without overlapping and synchronous transfers: an srb of
\* tcp_send_recv_async_tpl has one owner at a time and calls back once.
THEOREM SrbsAlwaysIntact == TransferSpec => []SrbsIntact
<1>1. OwnInv => SrbsIntact
  BY DEF OwnInv
<1> QED  BY <1>1, OwnInit, OwnStep, PTL DEF TransferSpec

(***************************************************************************)
(* The kinds of steps, as far as the bytes are concerned.                  *)
(***************************************************************************)

bytevars == <<bytes_operated, data, consumed, out, torn>>

\* The srb gets its socket and operation; if it begins its loop there are
\* synchronous transfers, and if its post is dropped there is a reason.
Starts(s, fd, o) ==
  /\ MayStart(s, fd, o)
  /\ skt'[s] = fd /\ op'[s] = o
  /\ \A t \in Srbs : t # s => skt'[t] = skt[t] /\ op'[t] = op[t] /\ phase'[t] = phase[t]
  /\ phase'[s] \in {"posted", "lost", "sync", "unused"}
  /\ phase'[s] = "sync" => Sync
  /\ phase'[s] = "lost" => ~accepting \/ slot[fd][o].job # NULL
  /\ UNCHANGED <<bytevars, result, accepting, closed>>

\* The srb goes on to its next phase without moving a byte.
Proceeds(s) ==
  /\ \/ /\ phase[s] = "posted" /\ phase'[s] = "job"
        /\ slot[skt[s]][op[s]].job = s /\ inflight = {}
     \/ phase[s] = "job" /\ phase'[s] = "repost"
     \/ /\ phase[s] \in {"job", "sync"} /\ phase'[s] = "freed"
        /\ phase[s] = "job" => closed[skt[s]]
        /\ Len(result'[s]) = 1 /\ result'[s][1].err
     \/ phase[s] = "repost" /\ phase'[s] = "posted"
     \/ /\ phase[s] = "repost" /\ phase'[s] = "lost"
        /\ ~accepting \/ slot[skt[s]][op[s]].job # NULL
  /\ phase'[s] # "freed" => result'[s] = result[s]
  /\ \A t \in Srbs : t # s => phase'[t] = phase[t] /\ result'[t] = result[t]
  /\ UNCHANGED <<bytevars, skt, op, accepting, closed>>

\* No srb takes a step; the service may stop, and a peer close.
Elsewhere ==
  /\ UNCHANGED <<bytevars, phase, skt, op, result>>
  /\ accepting' => accepting
  /\ \A fd \in Fds : closed[fd] => closed'[fd]

\* Every step moves bytes, starts an srb, takes one on or is none of theirs.
LEMMA StepKinds ==
  ASSUME OwnInv, [TransferNext]_tvars
  PROVE  \/ \E s \in Srbs : \E n \in 0 .. Size(op[s]) : JobMoves(s, n) \/ SyncMoves(s, n)
         \/ \E s \in Srbs, fd \in Fds, o \in {SendOp, RecvOp} : Starts(s, fd, o)
         \/ \E s \in Srbs : Proceeds(s)
         \/ Elsewhere
<1> USE DEF OwnInv, SrbsIntact
<1>1. ASSUME NEW s \in Srbs, NEW fd \in Fds, NEW o \in {SendOp, RecvOp}, SrbOperate(s, fd, o)
      PROVE  Starts(s, fd, o)
  <2>1. /\ MayStart(s, fd, o) /\ phase[s] = "unused"
        /\ UNCHANGED <<bytes_operated, data, result, sockets>>
        /\ skt' = [skt EXCEPT ![s] = fd] /\ op' = [op EXCEPT ![s] = o]
    BY <1>1 DEF SrbOperate, StartAsync, StartSync, MayStart
  <2>2. /\ skt'[s] = fd /\ op'[s] = o /\ UNCHANGED <<bytevars, result, closed>>
        /\ \A t \in Srbs : t # s => skt'[t] = skt[t] /\ op'[t] = op[t]
    BY <2>1 DEF TransferTypeOK, sockets, bytevars
  <2>3. CASE StartAsync(s, fd, o)
    <3>1. PostSrb(s, fd, o) /\ o \in Ops
      BY <2>3 DEF StartAsync, Ops, SendOp, RecvOp
    <3>2. /\ UNCHANGED accepting /\ phase'[s] \in {"posted", "lost"}
          /\ \A t \in Srbs : t # s => phase'[t] = phase[t]
          /\ phase'[s] = "lost" => ~accepting \/ slot[fd][o].job # NULL
      BY <3>1, PostFacts
    <3> QED  BY <2>1, <2>2, <3>2 DEF Starts
  <2>4. ASSUME NEW garbage \in {SendOp, RecvOp}, StartSync(s, fd, o, garbage)
        PROVE  Starts(s, fd, o)
    <3>1. /\ UNCHANGED accepting /\ phase'[s] \in {"sync", "unused"} /\ Sync
          /\ \A t \in Srbs : t # s => phase'[t] = phase[t]
      BY <2>1, <2>4 DEF StartSync, TransferTypeOK, reactor
    <3> QED  BY <2>1, <2>2, <3>1 DEF Starts
  <2> QED  BY <1>1, <2>3, <2>4 DEF SrbOperate
<1>2. ASSUME NEW s \in Srbs,
             CallJob(s) \/ JobAgain(s) \/ JobFails(s) \/ SyncFails(s) \/ Repost(s)
      PROVE  Proceeds(s)
  <2>1. UNCHANGED <<bytevars, skt, op, closed>> /\ phase[s] # "unused"
    BY <1>2 DEF CallJob, JobAgain, JobFails, SyncFails, Repost, sockets, bytevars
  <2>2. CASE CallJob(s)
    <3>1. /\ phase[s] = "posted" /\ slot[skt[s]][op[s]].job = s /\ inflight = {}
          /\ phase' = [phase EXCEPT ![s] = "job"] /\ UNCHANGED <<accepting, result>>
      BY <2>2 DEF CallJob, Call
    <3>2. phase'[s] = "job" /\ \A t \in Srbs : t # s => phase'[t] = phase[t]
      BY <3>1 DEF TransferTypeOK
    <3> QED  BY <2>1, <3>1, <3>2 DEF Proceeds
  <2>3. CASE JobAgain(s)
    <3>1. /\ phase[s] = "job" /\ phase' = [phase EXCEPT ![s] = "repost"]
          /\ UNCHANGED <<accepting, result>>
      BY <2>3 DEF JobAgain, reactor
    <3>2. phase'[s] = "repost" /\ \A t \in Srbs : t # s => phase'[t] = phase[t]
      BY <3>1 DEF TransferTypeOK
    <3> QED  BY <2>1, <3>1, <3>2 DEF Proceeds
  <2>4. CASE JobFails(s) \/ SyncFails(s)
    <3>1. /\ phase[s] \in {"job", "sync"} /\ (phase[s] = "job" => closed[skt[s]])
          /\ UNCHANGED accepting
          /\ Finish(s, TRUE, bytes_operated[s]) /\ bytes_operated[s] \in Nat
      BY <2>4 DEF JobFails, SyncFails, reactor, TransferTypeOK
    <3>2. /\ phase'[s] = "freed" /\ \A t \in Srbs : t # s => phase'[t] = phase[t]
          /\ Len(result'[s]) = 1
          /\ result'[s][1] = [err |-> TRUE, bytes |-> bytes_operated[s]]
          /\ \A t \in Srbs : t # s => result'[t] = result[t]
      BY <3>1, FinishFacts
    <3>3. result'[s][1].err
      BY <3>2
    <3> QED  BY <2>1, <3>1, <3>2, <3>3 DEF Proceeds
  <2>5. CASE Repost(s)
    <3>1. PostSrb(s, skt[s], op[s]) /\ UNCHANGED result /\ phase[s] = "repost"
      BY <2>5 DEF Repost
    <3>2. skt[s] \in Fds /\ op[s] \in Ops
      BY <2>1 DEF Underway, TransferTypeOK, Ops, SendOp, RecvOp
    <3>3. /\ UNCHANGED accepting /\ phase'[s] \in {"posted", "lost"}
          /\ \A t \in Srbs : t # s => phase'[t] = phase[t]
          /\ phase'[s] = "lost" => ~accepting \/ slot[skt[s]][op[s]].job # NULL
      BY <3>1, <3>2, PostFacts
    <3> QED  BY <2>1, <3>1, <3>3 DEF Proceeds
  <2> QED  BY <1>2, <2>2, <2>3, <2>4, <2>5
<1>3. CASE JobReturns
  BY <1>3 DEF JobReturns, Return, Elsewhere, bytevars, srb, sockets
<1>4. ASSUME NEW fd \in Fds, PeerCloses(fd) PROVE Elsewhere
  <2>1. \A f \in Fds : closed[f] => closed'[f]
    BY <1>4 DEF PeerCloses, TransferTypeOK
  <2> QED  BY <1>4, <2>1 DEF PeerCloses, Elsewhere, bytevars, srb, reactor
<1>5. CASE StopService
  BY <1>5 DEF StopService, Refuse, Elsewhere, bytevars, srb, sockets
<1>6. CASE UNCHANGED tvars
  BY <1>6 DEF tvars, Elsewhere, bytevars, srb, sockets, reactor
<1> QED  BY <1>1, <1>2, <1>3, <1>4, <1>5, <1>6 DEF TransferNext, Quiet, Step

(***************************************************************************)
(* One transfer at a time.                                                 *)
(***************************************************************************)

\* At first nothing is under way.
LEMMA ExclusiveInit == TransferInit => ExclusiveInv
  BY DEF TransferInit, ExclusiveInv, Exclusive, Unique, NoSync, Outstanding

\* While transfers of a kind overlap only if none is synchronous, a transfer
\* of which a part is moved is not overtaken.
LEMMA ExclusiveStep ==
  ASSUME ~Overlap \/ ~Sync, OwnInv, ExclusiveInv, [TransferNext]_tvars
  PROVE  ExclusiveInv'
<1> USE DEF OwnInv, SrbsIntact, ExclusiveInv
<1>1. ASSUME NEW s \in Srbs, NEW n \in 0 .. Size(op[s]), JobMoves(s, n) \/ SyncMoves(s, n)
      PROVE  ExclusiveInv'
  <2>1. /\ phase[s] \in {"job", "sync"} /\ UNCHANGED <<skt, op>>
        /\ \A t \in Srbs : t # s => bytes_operated'[t] = bytes_operated[t]
        /\ \A t \in Srbs : t # s => phase'[t] = phase[t]
        /\ phase'[s] \in {"repost", "sync", "freed"}
        /\ phase'[s] = "sync" => phase[s] = "sync"
    BY <1>1, MoveFacts
  <2>2. /\ Outstanding' \subseteq Outstanding /\ s \in Outstanding
        /\ \A t \in Outstanding' : t # s => phase'[t] = phase[t] /\ bytes_operated'[t] = bytes_operated[t]
    BY <2>1 DEF Outstanding
  <2>3. Exclusive'
    BY <2>1, <2>2 DEF Exclusive
  <2>4. Unique' /\ NoSync'
    BY <2>1, <2>2 DEF Unique, NoSync
  <2> QED  BY <2>3, <2>4
<1>2. ASSUME NEW s \in Srbs, NEW fd \in Fds, NEW o \in {SendOp, RecvOp}, Starts(s, fd, o)
      PROVE  ExclusiveInv'
  <2>1. /\ s \notin Outstanding /\ Outstanding' \subseteq Outstanding \cup {s}
        /\ bytes_operated[s] = 0 /\ UNCHANGED bytes_operated
        /\ \A t \in Outstanding : t # s /\ phase'[t] = phase[t] /\ skt'[t] = skt[t] /\ op'[t] = op[t]
    BY <1>2 DEF Starts, MayStart, Outstanding, Underway, bytevars
  <2>2. /\ skt'[s] = fd /\ op'[s] = o
        /\ s \in Outstanding' => phase'[s] = "posted" \/ (phase'[s] = "sync" /\ Sync)
        /\ Overlap \/ \A t \in Outstanding : skt[t] # fd \/ op[t] # o
    BY <1>2 DEF Starts, MayStart, Outstanding
  <2>3. Unique'
    BY <2>1, <2>2 DEF Unique
  <2>4. NoSync'
    BY <1>2 DEF Starts, NoSync
  <2>5. Exclusive'
    BY <2>1, <2>2 DEF Exclusive
  <2> QED  BY <2>3, <2>4, <2>5
<1>3. ASSUME NEW s \in Srbs, Proceeds(s) PROVE ExclusiveInv'
  <2>1. /\ s \in Outstanding /\ Outstanding' \subseteq Outstanding
        /\ UNCHANGED <<skt, op, bytes_operated>>
        /\ \A t \in Outstanding' : t # s => phase'[t] = phase[t]
        /\ phase'[s] # "sync"
    BY <1>3 DEF Proceeds, Outstanding, bytevars
  <2>2. Unique' /\ NoSync'
    BY <1>3, <2>1 DEF Unique, NoSync, Proceeds
  <2>3. CASE phase[s] = "posted" /\ phase'[s] = "job"
    <3>1. ASSUME NEW t \in Outstanding, t # s, skt[t] = skt[s], op[t] = op[s] PROVE FALSE
      <4>1. /\ slot[skt[s]][op[s]].job = s /\ inflight = {} /\ t \in Srbs
            /\ skt[s] \in Fds /\ op[s] \in Ops
        BY <1>3, <2>3 DEF Proceeds, Underway, Ops, TransferTypeOK, SendOp, RecvOp, Outstanding
      <4>2. phase[t] # "posted"
        BY <3>1, <4>1 DEF SrbOwned
      <4>3. phase[t] \notin {"job", "repost"}
        <5>1. inflight # {<<skt[t], op[t], t>>}
          BY <4>1
        <5> QED  BY <4>1, <5>1 DEF SrbOwned
      <4>4. phase[t] # "sync"
        BY <2>1, <3>1, <4>1 DEF Unique, NoSync
      <4> QED  BY <4>2, <4>3, <4>4 DEF Outstanding
    <3> QED  BY <2>1, <2>2, <3>1 DEF Exclusive
  <2>4. CASE ~(phase[s] = "posted" /\ phase'[s] = "job")
    <3>1. phase[s] # "posted"
      BY <1>3, <2>4 DEF Proceeds
    <3>2. Exclusive'
      BY <2>1, <3>1 DEF Exclusive
    <3> QED  BY <2>2, <3>2
  <2> QED  BY <2>3, <2>4
<1>4. CASE Elsewhere
  BY <1>4 DEF Elsewhere, bytevars, Exclusive, Unique, NoSync, Outstanding
<1> QED  BY <1>1, <1>2, <1>3, <1>4, StepKinds

(***************************************************************************)
(* Asynchronous transfers: the callbacks and the receives.                 *)
(***************************************************************************)

\* Without synchronous transfers a call moves the bytes that follow those
\* already moved.
LEMMA AsyncMoves ==
  ASSUME OwnInv, ~Sync, NoSync,
         NEW s \in Srbs, NEW n \in 0 .. Size(op[s]), JobMoves(s, n) \/ SyncMoves(s, n)
  PROVE  /\ bytes_operated[s] \in Nat /\ bytes_operated[s] + n <= Size(op[s])
         /\ MoveBytes(s, bytes_operated[s], n)
<1>1. phase[s] = "job"
  BY MoveFacts DEF NoSync
<1> QED  BY <1>1, MoveOffset

WholeBuffers == WithinBuffer /\ SuccessIsWhole

\* At first nothing is moved.
LEMMA WholeBuffersInit == TransferInit => WholeBuffers
  BY SizeAssumption DEF TransferInit, WholeBuffers, WithinBuffer, SuccessIsWhole, Size

\* Every step keeps the count within the buffer and reports it truly.
LEMMA WholeBuffersStep ==
  ASSUME ~Sync, OwnInv, NoSync, WholeBuffers, [TransferNext]_tvars
  PROVE  WholeBuffers'
<1> USE SizeAssumption DEF WholeBuffers
<1>1. ASSUME NEW s \in Srbs, NEW n \in 0 .. Size(op[s]), JobMoves(s, n) \/ SyncMoves(s, n)
      PROVE  WholeBuffers'
  <2>1. /\ bytes_operated[s] \in Nat /\ n \in Nat /\ bytes_operated[s] + n <= Size(op[s])
        /\ op' = op /\ bytes_operated'[s] = bytes_operated[s] + n
        /\ \A t \in Srbs : t # s => bytes_operated'[t] = bytes_operated[t] /\ result'[t] = result[t]
    BY <1>1, AsyncMoves, MoveFacts
  <2>2. \/ result' = result
        \/ /\ bytes_operated[s] + n >= Size(op[s])
           /\ Len(result'[s]) = 1
           /\ result'[s][1] = [err |-> FALSE, bytes |-> bytes_operated[s] + n]
           /\ result'[s] \in Seq([err : BOOLEAN, bytes : Nat])
    BY <1>1, MoveFacts
  <2>3. WithinBuffer'
    BY <2>1 DEF WithinBuffer, Size
  <2>4. ASSUME NEW t \in Srbs, NEW i \in DOMAIN result'[t], ~result'[t][i].err
        PROVE  result'[t][i].bytes = Size(op'[t])
    <3>1. CASE result'[t] = result[t]
      BY <2>1, <2>4, <3>1 DEF SuccessIsWhole, Size
    <3>2. CASE result'[t] # result[t]
      <4>1. t = s /\ DOMAIN result'[s] = 1..1
        BY <2>1, <2>2, <3>2
      <4>2. result'[s][1].bytes = bytes_operated[s] + n /\ bytes_operated[s] + n = Size(op[s])
        BY <2>1, <2>2, <3>2, <4>1 DEF Size
      <4> QED  BY <2>1, <4>1, <4>2 DEF Size
    <3> QED  BY <3>1, <3>2
  <2>5. SuccessIsWhole'
    BY <2>4 DEF SuccessIsWhole, Size
  <2> QED  BY <2>3, <2>5
<1>2. ASSUME NEW s \in Srbs, NEW fd \in Fds, NEW o \in {SendOp, RecvOp}, Starts(s, fd, o)
      PROVE  WholeBuffers'
  <2>1. /\ bytes_operated[s] = 0 /\ result[s] = <<>>
        /\ UNCHANGED <<bytes_operated, result>>
        /\ \A t \in Srbs : t # s => op'[t] = op[t]
    <3>1. phase[s] = "unused" /\ UNCHANGED <<bytes_operated, result>>
          /\ \A t \in Srbs : t # s => op'[t] = op[t]
      BY <1>2 DEF Starts, MayStart, bytevars
    <3>2. result[s] \in Seq([err : BOOLEAN, bytes : Nat]) /\ Len(result[s]) = 0
      BY <3>1 DEF OwnInv, SrbsIntact, TransferTypeOK, SrbOwned
    <3> QED  BY <3>1, <3>2, EmptySeq DEF OwnInv, Underway
  <2> QED  BY <2>1 DEF WithinBuffer, SuccessIsWhole, Size
<1>3. ASSUME NEW s \in Srbs, Proceeds(s) PROVE WholeBuffers'
  <2>1. UNCHANGED <<op, bytes_operated>>
    BY <1>3 DEF Proceeds, bytevars
  <2>2. \A t \in Srbs : \/ result'[t] = result[t]
                        \/ Len(result'[t]) = 1 /\ result'[t][1].err
    BY <1>3 DEF Proceeds
  <2>3. \A t \in Srbs : result'[t] \in Seq([err : BOOLEAN, bytes : Nat])
    BY OwnStep DEF OwnInv, SrbsIntact, TransferTypeOK
  <2>4. \A t \in Srbs : result'[t] = result[t] \/ (DOMAIN result'[t] = {1} /\ result'[t][1].err)
    BY <2>2, <2>3
  <2>5. SuccessIsWhole'
    BY <2>1, <2>4 DEF SuccessIsWhole, Size
  <2> QED  BY <2>1, <2>5 DEF WithinBuffer, Size
<1>4. CASE Elsewhere
  BY <1>4 DEF Elsewhere, bytevars, WithinBuffer, SuccessIsWhole, Size
<1> QED  BY <1>1, <1>2, <1>3, <1>4, StepKinds

\* Without synchronous transfers, however the asynchronous ones overlap, a
\* callback of tcp_send_recv_async_tpl without error reports the whole buffer.
THEOREM SuccessAlwaysWhole == ASSUME ~Sync PROVE TransferSpec => []SuccessIsWhole
<1> DEFINE I == OwnInv /\ ExclusiveInv /\ WholeBuffers
<1>1. TransferInit => I
  BY OwnInit, ExclusiveInit, WholeBuffersInit
<1>2. I /\ [TransferNext]_tvars => I'
  BY OwnStep, ExclusiveStep, WholeBuffersStep DEF ExclusiveInv
<1>3. I => SuccessIsWhole
  BY DEF WholeBuffers
<1> QED  BY <1>1, <1>2, <1>3, PTL DEF TransferSpec

\* At first nothing is received.
LEMMA RecvInit == TransferInit => RecvInv
  BY DEF TransferInit, RecvInv, RecvHead, RecvRun, RecvAll, RecvOnce, Outstanding

\* A receive takes the next bytes of the stream and puts them after the ones
\* it has.
LEMMA RecvMovesInv ==
  ASSUME ~Sync, OwnInv, ExclusiveInv, WithinBuffer, RecvInv,
         NEW s \in Srbs, NEW n \in 0 .. Size(op[s]), JobMoves(s, n) \/ SyncMoves(s, n),
         op[s] = RecvOp
  PROVE  RecvInv'
<1> DEFINE b == bytes_operated[s]
           fd == skt[s]
           c == consumed[skt[s]]
<1>1. /\ phase[s] \in {"job", "sync"} /\ fd \in Fds /\ UNCHANGED <<skt, op>>
      /\ b \in Nat /\ n \in Nat /\ bytes_operated'[s] = b + n
      /\ \A t \in Srbs : t # s => bytes_operated'[t] = bytes_operated[t]
      /\ \A t \in Srbs : t # s => phase'[t] = phase[t]
  BY MoveFacts
<1>2. b + n <= RecvSize /\ MoveBytes(s, b, n)
  BY AsyncMoves DEF ExclusiveInv, Size, SendOp, RecvOp
<1>3. TransferTypeOK /\ \A t \in Srbs : phase[t] # "unused" => skt[t] \in Fds
  BY DEF OwnInv, SrbsIntact, Underway
<1>4. /\ \A t \in Srbs : t # s => data'[t] = data[t]
      /\ \A i \in 1..RecvSize : i \notin b + 1 .. b + n => data'[s][i] = data[s][i]
      /\ \A i \in b + 1 .. b + n : data'[s][i] = c + i - b
      /\ consumed'[fd] = c + n
      /\ \A f \in Fds : f # fd => consumed'[f] = consumed[f]
  BY <1>1, <1>2, <1>3, RecvMoves
<1>5. c \in Nat /\ \A t \in Srbs : bytes_operated[t] \in Nat
  BY <1>1, <1>3 DEF TransferTypeOK
<1>6. \A i \in 1..b : data'[s][i] = data[s][i]
  <2>1. \A i \in 1..b : i \in 1..RecvSize /\ i \notin b + 1 .. b + n
    BY <1>1, <1>2, SizeAssumption
  <2> QED  BY <1>4, <2>1
<1>7. \A t \in Srbs : op[t] = RecvOp /\ bytes_operated[t] > 0 => skt[t] \in Fds
  <2>1. \A t \in Srbs : phase[t] = "unused" => bytes_operated[t] = 0
    BY DEF OwnInv, Underway
  <2> QED  BY <1>3, <2>1
<1>8. s \in Outstanding /\ Outstanding' \subseteq Outstanding
  BY <1>1, MoveFacts DEF Outstanding
<1>9. b > 0 => data[s][b] = c
  BY <1>8 DEF RecvInv, RecvHead
<1> HIDE DEF b, fd, c
<1> USE SizeAssumption DEF RecvInv
<1>10. RecvHead'
  <2> SUFFICES ASSUME NEW t \in Outstanding', op[t] = RecvOp, bytes_operated'[t] > 0
               PROVE  data'[t][bytes_operated'[t]] = consumed'[skt[t]]
    BY <1>1 DEF RecvHead
  <2>1. CASE t = s
    <3>1. CASE n > 0
      BY <1>1, <1>4, <1>5, <2>1, <3>1 DEF fd
    <3>2. CASE n = 0
      BY <1>1, <1>4, <1>5, <1>6, <1>9, <2>1, <3>2 DEF fd
    <3> QED  BY <1>1, <3>1, <3>2
  <2>2. CASE t # s
    <3>1. t \in Outstanding /\ t \in Srbs
      BY <1>8 DEF Outstanding
    <3>2. bytes_operated[t] > 0 /\ data[t][bytes_operated[t]] = consumed[skt[t]] /\ skt[t] \in Fds
      BY <1>1, <1>7, <2>2, <3>1 DEF RecvHead
    <3>3. skt[t] # fd
      BY <1>1, <1>5, <1>8, <2>2, <3>1, <3>2 DEF ExclusiveInv, Exclusive, fd
    <3> QED  BY <1>1, <1>4, <2>2, <3>1, <3>2, <3>3
  <2> QED  BY <2>1, <2>2
<1>11. RecvRun'
  <2> SUFFICES ASSUME NEW t \in Srbs, op[t] = RecvOp
               PROVE  /\ \A i \in 2 .. bytes_operated'[t] : data'[t][i] = data'[t][i - 1] + 1
                      /\ \A i \in 1 .. bytes_operated'[t] : data'[t][i] \in 1 .. consumed'[skt[t]]
    BY <1>1 DEF RecvRun
  <2>1. CASE t = s
    <3>1. /\ \A i \in 2..b : data[s][i] = data[s][i - 1] + 1
          /\ \A i \in 1..b : data[s][i] \in 1..c
      BY DEF RecvRun, b, c
    <3>2. ASSUME NEW i \in 1 .. b + n PROVE data'[s][i] \in 1 .. c + n
      <4>1. CASE i <= b
        BY <1>1, <1>5, <1>6, <3>1, <4>1
      <4>2. CASE i > b
        BY <1>1, <1>4, <1>5, <4>2
      <4> QED  BY <1>1, <4>1, <4>2
    <3>3. ASSUME NEW i \in 2 .. b + n PROVE data'[s][i] = data'[s][i - 1] + 1
      <4>1. CASE i <= b
        BY <1>1, <1>6, <3>1, <4>1
      <4>2. CASE i = b + 1
        BY <1>1, <1>4, <1>5, <1>6, <1>9, <4>2
      <4>3. CASE i > b + 1
        BY <1>1, <1>4, <1>5, <4>3
      <4> QED  BY <1>1, <4>1, <4>2, <4>3
    <3> QED  BY <1>1, <1>4, <2>1, <3>2, <3>3 DEF fd
  <2>2. CASE t # s
    <3>1. /\ \A i \in 2 .. bytes_operated[t] : data[t][i] = data[t][i - 1] + 1
          /\ \A i \in 1 .. bytes_operated[t] : data[t][i] \in 1 .. consumed[skt[t]]
      BY DEF RecvRun
    <3>2. CASE bytes_operated[t] > 0
      <4>1. skt[t] \in Fds /\ consumed[skt[t]] \in Nat
        BY <1>3, <1>7, <3>2 DEF TransferTypeOK
      <4>2. consumed'[skt[t]] \in {consumed[skt[t]], consumed[skt[t]] + n}
        BY <1>4, <4>1 DEF fd, c
      <4> QED  BY <1>1, <1>4, <2>2, <3>1, <4>1, <4>2
    <3>3. CASE ~(bytes_operated[t] > 0)
      BY <1>1, <1>5, <2>2, <3>3
    <3> QED  BY <3>2, <3>3
  <2> QED  BY <2>1, <2>2
<1>12. RecvAll'
  <2> SUFFICES ASSUME NEW f \in Fds, NEW v \in 1 .. consumed'[f]
               PROVE  \E t \in Srbs : /\ op[t] = RecvOp /\ skt[t] = f
                                      /\ \E i \in 1 .. bytes_operated'[t] : data'[t][i] = v
    BY <1>1 DEF RecvAll
  <2>1. CASE v \in 1 .. consumed[f]
    <3>1. PICK t \in Srbs : /\ op[t] = RecvOp /\ skt[t] = f
                            /\ \E i \in 1 .. bytes_operated[t] : data[t][i] = v
      BY <2>1 DEF RecvAll
    <3>2. PICK i \in 1 .. bytes_operated[t] : data[t][i] = v
      BY <3>1
    <3>3. i \in 1 .. bytes_operated'[t] /\ data'[t][i] = v
      BY <1>1, <1>4, <1>5, <1>6, <3>2 DEF b
    <3> QED  BY <3>1, <3>3
  <2>2. CASE v \notin 1 .. consumed[f]
    <3>1. f = fd /\ v - c + b \in b + 1 .. b + n
      BY <1>1, <1>3, <1>4, <1>5, <2>2 DEF TransferTypeOK, c, fd
    <3>2. v - c + b \in 1 .. bytes_operated'[s] /\ data'[s][v - c + b] = v
      BY <1>1, <1>4, <1>5, <3>1
    <3> QED  BY <3>1, <3>2 DEF fd
  <2> QED  BY <2>1, <2>2
<1>13. RecvOnce'
  <2>1. ASSUME NEW t \in Srbs, t # s, op[t] = RecvOp, skt[t] = fd,
               NEW i \in 1 .. bytes_operated[t], NEW j \in 1 .. b + n
        PROVE  data[t][i] # data'[s][j]
    <3>1. data[t][i] \in 1..c
      BY <2>1 DEF RecvRun, c, fd
    <3>2. CASE j <= b
      BY <1>1, <1>6, <2>1, <3>2 DEF RecvOnce, b, fd
    <3>3. CASE j > b
      BY <1>1, <1>4, <1>5, <3>1, <3>3
    <3> QED  BY <1>1, <3>2, <3>3
  <2> SUFFICES ASSUME NEW t \in Srbs, NEW u \in Srbs, t # u, op[t] = RecvOp, op[u] = RecvOp,
                      skt[t] = skt[u],
                      NEW i \in 1 .. bytes_operated'[t], NEW j \in 1 .. bytes_operated'[u]
               PROVE  data'[t][i] # data'[u][j]
    BY <1>1 DEF RecvOnce
  <2>2. CASE u = s
    BY <1>1, <1>4, <2>1, <2>2 DEF fd
  <2>3. CASE t = s
    BY <1>1, <1>4, <2>1, <2>3 DEF fd
  <2>4. CASE t # s /\ u # s
    BY <1>1, <1>4, <2>4 DEF RecvOnce
  <2> QED  BY <2>2, <2>3, <2>4
<1> QED  BY <1>10, <1>11, <1>12, <1>13

\* Every step preserves the order of what is received.
LEMMA RecvStep ==
  ASSUME ~Sync, OwnInv, ExclusiveInv, WithinBuffer, RecvInv, [TransferNext]_tvars
  PROVE  RecvInv'
<1>1. ASSUME NEW s \in Srbs, NEW n \in 0 .. Size(op[s]), JobMoves(s, n) \/ SyncMoves(s, n)
      PROVE  RecvInv'
  <2>1. CASE op[s] = RecvOp
    BY <1>1, <2>1, RecvMovesInv
  <2>2. CASE op[s] # RecvOp
    <3>1. /\ UNCHANGED <<data, consumed, skt, op>>
          /\ \A t \in Srbs : t # s => bytes_operated'[t] = bytes_operated[t]
          /\ \A t \in Srbs : t # s => phase'[t] = phase[t]
      BY <1>1, <2>2, AsyncMoves, MoveFacts DEF MoveBytes, ExclusiveInv
    <3>2. \A t \in Srbs : op[t] = RecvOp => bytes_operated'[t] = bytes_operated[t]
      BY <2>2, <3>1
    <3>3. \A t \in Outstanding' : op[t] = RecvOp => t \in Outstanding
      BY <2>2, <3>1 DEF Outstanding
    <3>4. RecvHead' /\ RecvRun'
      BY <3>1, <3>2, <3>3 DEF RecvInv, RecvHead, RecvRun, Outstanding
    <3>5. RecvAll' /\ RecvOnce'
      BY <3>1, <3>2 DEF RecvInv, RecvAll, RecvOnce
    <3> QED  BY <3>4, <3>5 DEF RecvInv
  <2> QED  BY <2>1, <2>2
<1>2. ASSUME NEW s \in Srbs, NEW fd \in Fds, NEW o \in {SendOp, RecvOp}, Starts(s, fd, o)
      PROVE  RecvInv'
  <2>1. /\ bytes_operated[s] = 0 /\ UNCHANGED bytevars
        /\ \A t \in Srbs : t # s => /\ skt'[t] = skt[t] /\ op'[t] = op[t]
                                    /\ t \in Outstanding' <=> t \in Outstanding
    BY <1>2 DEF Starts, MayStart, OwnInv, Underway, Outstanding
  <2>2. \A t \in Srbs : \A i \in 1 .. bytes_operated[t] : t # s
    BY <2>1
  <2>3. RecvHead' /\ RecvRun'
    BY <2>1, <2>2 DEF RecvInv, RecvHead, RecvRun, Outstanding, bytevars
  <2>4. RecvAll' /\ RecvOnce'
    BY <2>1, <2>2 DEF RecvInv, RecvAll, RecvOnce, bytevars
  <2> QED  BY <2>3, <2>4 DEF RecvInv
<1>3. ASSUME NEW s \in Srbs, Proceeds(s) PROVE RecvInv'
  <2>1. UNCHANGED <<bytevars, skt, op>> /\ Outstanding' \subseteq Outstanding
    BY <1>3 DEF Proceeds, Outstanding
  <2> QED  BY <2>1 DEF RecvInv, RecvHead, RecvRun, RecvAll, RecvOnce, bytevars
<1>4. CASE Elsewhere
  BY <1>4 DEF Elsewhere, bytevars, RecvInv, RecvHead, RecvRun, RecvAll, RecvOnce, Outstanding
<1> QED  BY <1>1, <1>2, <1>3, <1>4, StepKinds

\* The three parts of the invariant say what RecvIntact says.
LEMMA RecvInvIntact == ASSUME OwnInv, WithinBuffer, RecvInv PROVE RecvIntact
<1> DEFINE Received(s) == {data[s][i] : i \in 1 .. bytes_operated[s]}
           Receivers(fd) == {s \in Srbs : op[s] = RecvOp /\ skt[s] = fd}
<1>1. \A fd \in Fds : \A s \in Receivers(fd) :
        \A i \in 2 .. bytes_operated[s] : data[s][i] = data[s][i - 1] + 1
  BY DEF RecvInv, RecvRun
<1>2. ASSUME NEW fd \in Fds PROVE UNION {Received(s) : s \in Receivers(fd)} = 1 .. consumed[fd]
  <2>1. ASSUME NEW v \in 1 .. consumed[fd] PROVE \E s \in Receivers(fd) : v \in Received(s)
    BY DEF RecvInv, RecvAll
  <2>2. ASSUME NEW s \in Receivers(fd), NEW v \in Received(s) PROVE v \in 1 .. consumed[fd]
    BY DEF RecvInv, RecvRun
  <2> HIDE DEF Received, Receivers
  <2> QED  BY <2>1, <2>2
<1>3. \A fd \in Fds : \A s, t \in Receivers(fd) : s = t \/ Received(s) \cap Received(t) = {}
  BY DEF RecvInv, RecvOnce
<1> QED  BY <1>1, <1>2, <1>3 DEF RecvIntact

\* Without synchronous transfers, however the asynchronous ones overlap, the
\* bytes of a stream are received in order, each in one buffer.
THEOREM RecvAlwaysIntact == ASSUME ~Sync PROVE TransferSpec => []RecvIntact
<1> DEFINE I == OwnInv /\ ExclusiveInv /\ WholeBuffers /\ RecvInv
<1>1. TransferInit => I
  BY OwnInit, ExclusiveInit, WholeBuffersInit, RecvInit
<1>2. I /\ [TransferNext]_tvars => I'
  BY OwnStep, ExclusiveStep, WholeBuffersStep, RecvStep DEF ExclusiveInv, WholeBuffers
<1>3. I => RecvIntact
  BY RecvInvIntact DEF WholeBuffers
<1> QED  BY <1>1, <1>2, <1>3, PTL DEF TransferSpec

(***************************************************************************)
(* The sends.                                                              *)
(***************************************************************************)

\* At first nothing is sent.
LEMMA SendInit == TransferInit => SendInv
  BY DEF TransferInit, SendInv, SentCounted, SendHead, TornInSync, SendContiguous,
         Outstanding

\* A send, asynchronous or not, adds the bytes that follow those already sent,
\* or those of the start again if its message is torn.
LEMMA SendAppends ==
  ASSUME OwnInv, SendHead, TornInSync, NEW s \in Srbs, NEW n \in 0 .. Size(op[s]),
         JobMoves(s, n) \/ SyncMoves(s, n), op[s] = SendOp
  PROVE  LET q == out[skt[s]]
             r == out'[skt[s]]
             b == bytes_operated[s]
             o == IF s \in torn THEN 0 ELSE b
         IN  /\ b \in Nat /\ n \in Nat \ {0} /\ o + n <= SendSize /\ skt[s] \in Fds
             /\ \A fd \in Fds : fd # skt[s] => out'[fd] = out[fd]
             /\ Len(q) \in Nat /\ Len(r) = Len(q) + n
             /\ DOMAIN q = 1 .. Len(q) /\ DOMAIN r = 1 .. Len(q) + n
             /\ \A i \in 1 .. Len(q) : r[i] = q[i]
             /\ \A i \in Len(q) + 1 .. Len(q) + n : r[i] = <<s, o + i - Len(q)>>
             /\ o > 0 => q # <<>> /\ q[Len(q)] = <<s, b>>
<1> DEFINE q == out[skt[s]]
           r == out'[skt[s]]
           b == bytes_operated[s]
           o == IF s \in torn THEN 0 ELSE b
<1>1. phase[s] \in {"job", "sync"} /\ skt[s] \in Fds /\ b \in Nat /\ n \in Nat \ {0}
  <2>1. /\ phase[s] \in {"job", "sync"} /\ skt[s] \in Fds /\ b \in Nat /\ n \in Nat
        /\ op[s] = RecvOp \/ n > 0
    BY MoveFacts
  <2> QED  BY <2>1 DEF SendOp, RecvOp
<1>2. s \in Outstanding
  BY <1>1 DEF Outstanding
<1>3. /\ o \in Nat /\ (s \in torn => phase[s] = "sync")
      /\ o > 0 => phase[s] # "sync" /\ q # <<>> /\ q[Len(q)] = <<s, b>>
  <2>1. CASE s \in torn
    <3>1. phase[s] = "sync"
      BY <1>1, <2>1 DEF TornInSync
    <3> QED  BY <2>1, <3>1
  <2>2. CASE s \notin torn
    <3>1. b > 0 => phase[s] # "sync" /\ q # <<>> /\ q[Len(q)] = <<s, b>>
      BY <1>2, <2>2 DEF SendHead
    <3> QED  BY <1>1, <2>2, <3>1
  <2> QED  BY <2>1, <2>2
<1>4. o + n <= SendSize /\ MoveBytes(s, o, n)
  <2>1. PICK offset \in Nat : /\ offset = IF phase[s] = "job" THEN b ELSE 0
                              /\ offset + n <= Size(op[s])
                              /\ MoveBytes(s, offset, n)
    BY MoveOffset
  <2>2. offset = o
    BY <1>1, <1>3, <2>1
  <2> QED  BY <2>1, <2>2 DEF Size
<1>5. TransferTypeOK
  BY DEF OwnInv, SrbsIntact
<1>6. /\ out' \in [Fds -> Seq(Srbs \X (1..SendSize))]
      /\ \A fd \in Fds : fd # skt[s] => out'[fd] = out[fd]
      /\ Len(q) \in Nat /\ Len(r) = Len(q) + n
      /\ \A i \in 1 .. Len(q) : r[i] = q[i]
      /\ \A i \in Len(q) + 1 .. Len(q) + n : r[i] = <<s, o + i - Len(q)>>
  BY <1>1, <1>3, <1>4, <1>5, SendMoves
<1>7. q \in Seq(Srbs \X (1..SendSize)) /\ r \in Seq(Srbs \X (1..SendSize))
  BY <1>1, <1>5, <1>6 DEF TransferTypeOK
<1>8. DOMAIN q = 1 .. Len(q) /\ DOMAIN r = 1 .. Len(r)
  BY <1>7, LenProperties
<1> QED  BY <1>1, <1>3, <1>4, <1>6, <1>8

\* A send preserves the order of what is sent.
LEMMA SendMovesInv ==
  ASSUME OwnInv, ExclusiveInv, SendInv, NEW s \in Srbs, NEW n \in 0 .. Size(op[s]),
         JobMoves(s, n) \/ SyncMoves(s, n), op[s] = SendOp
  PROVE  SendInv'
<1> DEFINE fd == skt[s]
           q == out[fd]
           r == out'[fd]
           b == bytes_operated[s]
           o == IF s \in torn THEN 0 ELSE b
           L == Len(q)
<1>1. /\ b \in Nat /\ n \in Nat \ {0} /\ o + n <= SendSize /\ fd \in Fds
      /\ \A f \in Fds : f # fd => out'[f] = out[f]
      /\ L \in Nat /\ Len(r) = L + n /\ DOMAIN q = 1..L /\ DOMAIN r = 1 .. L + n
      /\ \A i \in 1..L : r[i] = q[i]
      /\ \A i \in L + 1 .. L + n : r[i] = <<s, o + i - L>>
      /\ o > 0 => q # <<>> /\ q[L] = <<s, b>>
  BY SendAppends DEF SendInv
<1>1a. o \in Nat /\ o <= b /\ (s \notin torn => o = b)
  BY <1>1
<1>1b. L \in Nat /\ n \in Nat \ {0} /\ b \in Nat
  BY <1>1
<1>1c. \A i \in L + 1 .. L + n : r[i] = <<s, o + i - L>>
  BY <1>1
<1>1d. \A i \in 1..L : r[i] = q[i]
  BY <1>1
<1>2. /\ UNCHANGED <<skt, op>> /\ bytes_operated'[s] = b + n
      /\ \A t \in Srbs : t # s => bytes_operated'[t] = bytes_operated[t] /\ phase'[t] = phase[t]
      /\ phase[s] \in {"job", "sync"}
      /\ phase'[s] \in {"repost", "sync", "freed"}
      /\ phase'[s] = "sync" => phase[s] = "sync" /\ b + n < Size(op[s])
  BY MoveFacts
<1>3. \A f \in Fds : \A i \in DOMAIN out[f] : out[f][i] \in Srbs \X (1..SendSize)
  BY ElementOfSeq, LenProperties DEF OwnInv, SrbsIntact, TransferTypeOK
<1>4. \A t \in Srbs : bytes_operated[t] \in Nat
  BY DEF OwnInv, SrbsIntact, TransferTypeOK
<1>5. /\ torn' \in {torn, torn \cup {s}}
      /\ s \in torn' => phase[s] = "sync"
      /\ s \notin torn' => phase[s] = "job" \/ ~(n < SendSize)
  BY <1>2, TornFacts DEF SendInv, TornInSync
<1>6. s \notin torn' => phase'[s] # "sync"
  BY <1>1, <1>2, <1>5, SizeAssumption DEF Size
<1>7. s \in Outstanding /\ Outstanding' \subseteq Outstanding
  BY <1>2 DEF Outstanding
<1>7a. TornInSync'
  <2>1. s \in torn' => phase'[s] \in {"sync", "freed"}
    BY <1>2, <1>5, MoveFacts
  <2>2. torn \subseteq Srbs
    BY DEF OwnInv, SrbsIntact, TransferTypeOK
  <2> QED  BY <1>2, <1>5, <2>1, <2>2 DEF SendInv, TornInSync
<1> HIDE DEF fd, q, r, b, o, L
<1>8. SentCounted'
  <2> SUFFICES ASSUME NEW f \in Fds, NEW i \in DOMAIN out'[f]
               PROVE  /\ skt[out'[f][i][1]] = f /\ op[out'[f][i][1]] = SendOp
                      /\ out'[f][i][2] <= bytes_operated'[out'[f][i][1]]
    BY <1>2 DEF SentCounted
  <2>1. CASE i \in DOMAIN out[f] /\ out'[f][i] = out[f][i]
    <3> DEFINE byte == out[f][i]
    <3>1. byte[1] \in Srbs /\ byte[2] \in Nat
      BY <1>3, <2>1
    <3>2. skt[byte[1]] = f /\ op[byte[1]] = SendOp /\ byte[2] <= bytes_operated[byte[1]]
      BY <2>1 DEF SendInv, SentCounted
    <3>3. bytes_operated[byte[1]] <= bytes_operated'[byte[1]] /\ bytes_operated'[byte[1]] \in Nat
      <4>1. CASE byte[1] = s
        BY <1>1, <1>2, <4>1 DEF b
      <4>2. CASE byte[1] # s
        <5>1. bytes_operated'[byte[1]] = bytes_operated[byte[1]]
          BY <1>2, <3>1, <4>2
        <5> QED  BY <1>4, <3>1, <5>1
      <4> QED  BY <4>1, <4>2
    <3>4. byte[2] <= bytes_operated'[byte[1]]
      BY <1>4, <3>1, <3>2, <3>3
    <3> QED  BY <2>1, <3>2, <3>4
  <2>2. CASE f = fd /\ i \in L + 1 .. L + n
    <3>1. out'[f][i] = <<s, o + i - L>> /\ o + i - L <= b + n
      <4>1. out'[f][i] = <<s, o + i - L>>
        BY <1>1c, <2>2 DEF r
      <4>2. o + i - L <= b + n
        BY <1>1a, <1>1b, <2>2
      <4> QED  BY <4>1, <4>2
    <3>2. out'[f][i][1] = s /\ out'[f][i][2] = o + i - L
      BY <3>1
    <3> QED  BY <1>2, <2>2, <3>1, <3>2 DEF fd
  <2>3. CASE f = fd /\ i \notin L + 1 .. L + n
    <3>1. i \in 1 .. L + n
      BY <1>1, <2>3 DEF r
    <3>2. i \in 1..L
      BY <1>1, <2>3, <3>1
    <3>3. i \in DOMAIN q /\ r[i] = q[i]
      BY <1>1, <3>2
    <3> QED  BY <2>1, <2>3, <3>3 DEF q, r
  <2>4. CASE f # fd
    BY <1>1, <2>1, <2>4
  <2> QED  BY <2>2, <2>3, <2>4
<1>9. SendHead'
  <2> SUFFICES ASSUME NEW t \in Outstanding' \ torn', op[t] = SendOp, bytes_operated'[t] > 0
               PROVE  /\ phase'[t] # "sync" /\ out'[skt[t]] # <<>>
                      /\ out'[skt[t]][Len(out'[skt[t]])] = <<t, bytes_operated'[t]>>
    BY <1>2 DEF SendHead
  <2>1. CASE t = s
    <3>1. r # <<>> /\ r[L + n] = <<s, b + n>>
      <4>1. o = b
        BY <1>1a, <1>5, <2>1
      <4>2. L + n \in L + 1 .. L + n /\ o + (L + n) - L = b + n /\ Len(r) # 0
        BY <1>1, <1>1a, <4>1
      <4>3. r[L + n] = <<s, o + (L + n) - L>>
        BY <1>1, <4>2
      <4> QED  BY <4>2, <4>3
    <3> QED  BY <1>1, <1>2, <1>6, <2>1, <3>1 DEF r, fd
  <2>2. CASE t # s
    <3>1. t \in Outstanding \ torn /\ t \in Srbs
      BY <1>5, <1>7, <2>2 DEF Outstanding
    <3>2. skt[t] # fd
      BY <1>2, <1>7, <2>2, <3>1 DEF ExclusiveInv, Exclusive, fd
    <3>3. skt[t] \in Fds
      BY <3>1 DEF OwnInv, Underway, Outstanding
    <3> QED  BY <1>1, <1>2, <2>2, <3>1, <3>2, <3>3 DEF SendInv, SendHead
  <2> QED  BY <2>1, <2>2
<1>10. SendContiguous'
  <2>1. ASSUME NEW i \in 1 .. L + n, r[i][1] \notin torn'
        PROVE  /\ r[i][2] = 1 \/ (i > 1 /\ r[i - 1] = <<r[i][1], r[i][2] - 1>>)
               /\ \A j \in 1 .. i - 1 : r[j] # r[i]
    <3>1. CASE i <= L
      <4>1. /\ q[i][2] = 1 \/ (i > 1 /\ q[i - 1] = <<q[i][1], q[i][2] - 1>>)
            /\ \A j \in 1 .. i - 1 : q[j] # q[i]
        <5>1. i \in 1..L /\ fd \in Fds /\ DOMAIN out[fd] = 1..L
          BY <1>1, <1>1b, <3>1 DEF q
        <5>2. out[fd][i][1] \notin torn
          BY <1>1d, <1>5, <2>1, <5>1 DEF q
        <5> QED  BY <5>1, <5>2 DEF SendInv, SendContiguous, q
      <4>2. r[i] = q[i] /\ \A j \in 1 .. i - 1 : r[j] = q[j]
        BY <1>1b, <1>1d, <3>1
      <4>3. i > 1 => r[i - 1] = q[i - 1]
        BY <4>2
      <4> QED  BY <4>1, <4>2, <4>3
    <3>2. CASE i > L
      <4>1. r[i] = <<s, b + i - L>> /\ s \notin torn /\ o = b
        <5>1. r[i] = <<s, o + i - L>>
          BY <1>1b, <1>1c, <3>2
        <5>2. s \notin torn
          BY <1>5, <2>1, <5>1
        <5> QED  BY <1>1a, <5>1, <5>2
      <4>2. ASSUME NEW j \in 1 .. i - 1 PROVE r[j] # r[i]
        <5>1. CASE j <= L
          <6>1. q[j] \in Srbs \X (1..SendSize) /\ q[j][2] <= bytes_operated[q[j][1]]
            BY <1>1, <1>3, <5>1 DEF SendInv, SentCounted, q
          <6>2. r[j] = q[j]
            BY <1>1b, <1>1d, <5>1
          <6>3. q[j] # <<s, b + i - L>>
            BY <1>1, <3>2, <6>1 DEF b
          <6> QED  BY <4>1, <6>2, <6>3
        <5>2. CASE j > L
          <6>1. r[j] = <<s, b + j - L>>
            BY <1>1b, <1>1c, <4>1, <5>2
          <6> QED  BY <1>1b, <4>1, <6>1
        <5> QED  BY <1>1b, <5>1, <5>2
      <4>3. CASE i > L + 1
        <5>1. r[i - 1] = <<s, b + (i - 1) - L>>
          <6>1. i - 1 \in L + 1 .. L + n
            BY <1>1b, <4>3
          <6> QED  BY <1>1c, <4>1, <6>1
        <5>2. b + (i - 1) - L = b + i - L - 1 /\ i > 1
          BY <1>1b, <4>3
        <5>3. r[i][1] = s /\ r[i][2] - 1 = b + (i - 1) - L
          <6>1. r[i][1] = s /\ r[i][2] = b + i - L
            BY <4>1
          <6> QED  BY <1>1b, <5>2, <6>1
        <5> QED  BY <4>2, <5>1, <5>2, <5>3
      <4>4. CASE i = L + 1 /\ b > 0
        <5>1. L > 0
          BY <1>1, <1>3, <4>1, <4>4, EmptySeq DEF OwnInv, SrbsIntact, TransferTypeOK, q, L
        <5>2. r[i - 1] = <<s, b>>
          BY <1>1, <4>1, <4>4, <5>1
        <5>3. b + i - L - 1 = b /\ i > 1
          BY <1>1b, <4>4, <5>1
        <5>4. r[i][1] = s /\ r[i][2] - 1 = b
          <6>1. r[i][1] = s /\ r[i][2] = b + i - L
            BY <4>1
          <6> QED  BY <1>1b, <5>3, <6>1
        <5> QED  BY <4>2, <5>2, <5>3, <5>4
      <4>5. CASE i = L + 1 /\ b = 0
        BY <1>1, <4>1, <4>2, <4>5
      <4> QED  BY <1>1b, <3>2, <4>3, <4>4, <4>5
    <3> QED  BY <1>1b, <3>1, <3>2
  <2> SUFFICES ASSUME NEW f \in Fds, NEW i \in DOMAIN out'[f], out'[f][i][1] \notin torn'
               PROVE  /\ \/ out'[f][i][2] = 1
                         \/ i > 1 /\ out'[f][i - 1] = <<out'[f][i][1], out'[f][i][2] - 1>>
                      /\ \A j \in 1 .. i - 1 : out'[f][j] # out'[f][i]
    BY DEF SendContiguous
  <2>2. CASE f = fd
    BY <1>1, <2>1, <2>2 DEF r
  <2>3. CASE f # fd
    BY <1>1, <1>5, <2>3 DEF SendInv, SendContiguous
  <2> QED  BY <2>2, <2>3
<1> QED  BY <1>7a, <1>8, <1>9, <1>10 DEF SendInv

\* Every step preserves the order of what is sent.
LEMMA SendStep ==
  ASSUME OwnInv, ExclusiveInv, SendInv, [TransferNext]_tvars
  PROVE  SendInv'
<1>1. ASSUME NEW s \in Srbs, NEW n \in 0 .. Size(op[s]), JobMoves(s, n) \/ SyncMoves(s, n)
      PROVE  SendInv'
  <2>1. CASE op[s] = SendOp
    BY <1>1, <2>1, SendMovesInv
  <2>2. CASE op[s] # SendOp
    <3>1. /\ UNCHANGED <<skt, op>>
          /\ \A t \in Srbs : t # s => bytes_operated'[t] = bytes_operated[t]
          /\ \A t \in Srbs : t # s => phase'[t] = phase[t]
      BY <1>1, MoveFacts
    <3>2. op[s] = RecvOp
      BY <2>2 DEF OwnInv, SrbsIntact, TransferTypeOK
    <3>3. out' = out /\ torn' = torn
      <4>1. out' = out
        BY <1>1, <3>2, MoveOffset DEF MoveBytes
      <4>2. torn' = torn
        BY <1>1, <2>2 DEF JobMoves, SyncMoves
      <4> QED  BY <4>1, <4>2
    <3>4. \A t \in Srbs : op[t] = SendOp => bytes_operated'[t] = bytes_operated[t] /\ phase'[t] = phase[t]
      BY <2>2, <3>1
    <3>5. \A fd \in Fds : \A i \in DOMAIN out[fd] : out[fd][i][1] \in Srbs
      BY ElementOfSeq, LenProperties DEF OwnInv, SrbsIntact, TransferTypeOK
    <3>6. SentCounted'
      BY <3>1, <3>3, <3>4, <3>5 DEF SendInv, SentCounted
    <3>7. SendHead'
      BY <3>1, <3>3, <3>4 DEF SendInv, SendHead, Outstanding
    <3>8. TornInSync'
      <4>1. s \in torn => phase'[s] \in {"sync", "freed"}
        BY <1>1, MoveFacts DEF SendInv, TornInSync
      <4>2. torn \subseteq Srbs
        BY DEF OwnInv, SrbsIntact, TransferTypeOK
      <4> QED  BY <3>1, <3>3, <4>1, <4>2 DEF SendInv, TornInSync
    <3> QED  BY <3>3, <3>6, <3>7, <3>8 DEF SendInv, SendContiguous
  <2> QED  BY <2>1, <2>2
<1>2. ASSUME NEW s \in Srbs, NEW fd \in Fds, NEW o \in {SendOp, RecvOp}, Starts(s, fd, o)
      PROVE  SendInv'
  <2>1. /\ bytes_operated[s] = 0 /\ UNCHANGED bytevars
        /\ \A t \in Srbs : t # s => /\ skt'[t] = skt[t] /\ op'[t] = op[t] /\ phase'[t] = phase[t]
                                    /\ t \in Outstanding' <=> t \in Outstanding
    BY <1>2 DEF Starts, MayStart, OwnInv, Underway, Outstanding
  <2>2. \A f \in Fds : \A i \in DOMAIN out[f] : out[f][i] \in Srbs \X (1..SendSize)
    BY ElementOfSeq, LenProperties DEF OwnInv, SrbsIntact, TransferTypeOK
  <2>3. \A f \in Fds : \A i \in DOMAIN out[f] : out[f][i][1] \in Srbs \ {s}
    BY <2>1, <2>2 DEF SendInv, SentCounted
  <2>4. SentCounted'
    BY <2>1, <2>3 DEF SendInv, SentCounted, bytevars
  <2>5. SendHead'
    <3> SUFFICES ASSUME NEW t \in Outstanding' \ torn, op'[t] = SendOp, bytes_operated[t] > 0
                 PROVE  /\ phase'[t] # "sync" /\ out[skt'[t]] # <<>>
                        /\ out[skt'[t]][Len(out[skt'[t]])] = <<t, bytes_operated[t]>>
      BY <2>1 DEF SendHead, bytevars
    <3>1. t \in Srbs /\ t # s
      BY <2>1 DEF Outstanding
    <3> QED  BY <2>1, <3>1 DEF SendInv, SendHead
  <2>6. TornInSync'
    <3>1. s \notin torn /\ torn \subseteq Srbs
      BY <1>2 DEF Starts, MayStart, SendInv, TornInSync, OwnInv, SrbsIntact, TransferTypeOK
    <3> QED  BY <2>1, <3>1 DEF SendInv, TornInSync, bytevars
  <2> QED  BY <2>1, <2>4, <2>5, <2>6 DEF SendInv, SendContiguous, bytevars
<1>3. ASSUME NEW s \in Srbs, Proceeds(s) PROVE SendInv'
  <2>1. /\ UNCHANGED <<bytevars, skt, op>> /\ Outstanding' \subseteq Outstanding
        /\ \A t \in Outstanding' : phase'[t] = "sync" => phase[t] = "sync"
    BY <1>3 DEF Proceeds, Outstanding
  <2>2. TornInSync'
    BY <1>3 DEF Proceeds, SendInv, TornInSync, bytevars, OwnInv, SrbsIntact, TransferTypeOK
  <2> QED  BY <2>1, <2>2 DEF SendInv, SentCounted, SendHead, SendContiguous, bytevars
<1>4. CASE Elsewhere
  BY <1>4 DEF Elsewhere, bytevars, SendInv, SentCounted, SendHead, TornInSync, SendContiguous,
              Outstanding
<1> QED  BY <1>1, <1>2, <1>3, <1>4, StepKinds

\* If there are no synchronous transfers, or none of a kind overlap on a
\* socket, the bytes of a message are sent in order, each once and with no
\* byte of another message between them, unless tcp_send_recv_sync has sent a
\* part of it.
THEOREM SendsContiguous ==
  ASSUME ~Overlap \/ ~Sync PROVE TransferSpec => []SendContiguous
<1> DEFINE I == OwnInv /\ ExclusiveInv /\ SendInv
<1>1. TransferInit => I
  BY OwnInit, ExclusiveInit, SendInit
<1>2. I /\ [TransferNext]_tvars => I'
  BY OwnStep, ExclusiveStep, SendStep
<1>3. I => SendContiguous
  BY DEF SendInv
<1> QED  BY <1>1, <1>2, <1>3, PTL DEF TransferSpec

(***************************************************************************)
(* Whole messages.                                                         *)
(***************************************************************************)

\* At first there is no message.
LEMMA WholeInit == TransferInit => WholeInv
  BY DEF TransferInit, Init, WholeInv, LostWhenStopped, PartHasReason, LastCounted, MessagesWhole

\* A message is begun after the last byte of the one before it.
LEMMA WholeMovesInv ==
  ASSUME ~Overlap, OwnInv, ExclusiveInv, SendInv, WholeInv,
         NEW s \in Srbs, NEW n \in 0 .. Size(op[s]), JobMoves(s, n) \/ SyncMoves(s, n),
         op[s] = SendOp
  PROVE  LastCounted' /\ MessagesWhole'
<1> DEFINE fd == skt[s]
           q == out[fd]
           r == out'[fd]
           b == bytes_operated[s]
           o == IF s \in torn THEN 0 ELSE b
           L == Len(q)
<1>1. /\ b \in Nat /\ n \in Nat \ {0} /\ o + n <= SendSize /\ fd \in Fds
      /\ \A f \in Fds : f # fd => out'[f] = out[f]
      /\ L \in Nat /\ Len(r) = L + n /\ DOMAIN q = 1..L
      /\ \A i \in 1..L : r[i] = q[i]
      /\ \A i \in L + 1 .. L + n : r[i] = <<s, o + i - L>>
      /\ o \in Nat /\ (s \notin torn => o = b) /\ torn' \in {torn, torn \cup {s}}
  BY SendAppends, TornFacts DEF SendInv
<1>2. /\ UNCHANGED <<accepting, closed>> /\ bytes_operated'[s] = b + n
      /\ phase[s] \in {"job", "sync"}
      /\ \A t \in Srbs : t # s => bytes_operated'[t] = bytes_operated[t]
  BY MoveFacts
<1>3. \A f \in Fds : \A i \in DOMAIN out[f] : out[f][i] \in Srbs \X (1..SendSize)
  BY ElementOfSeq, LenProperties DEF OwnInv, SrbsIntact, TransferTypeOK
<1>4. \A f \in Fds : DOMAIN out[f] = 1 .. Len(out[f]) /\ (out[f] # <<>> => Len(out[f]) \in Nat \ {0})
  BY LenProperties, EmptySeq DEF OwnInv, SrbsIntact, TransferTypeOK
<1>5. \A f \in Fds : f # fd => \A i \in DOMAIN out[f] : out[f][i][1] # s
  BY DEF SendInv, SentCounted
<1> HIDE DEF fd, q, r, b, o, L
<1>6. LastCounted'
  <2> SUFFICES ASSUME NEW f \in Fds, out'[f] # <<>>
               PROVE  \/ out'[f][Len(out'[f])][1] \in torn'
                      \/ out'[f][Len(out'[f])][2] = bytes_operated'[out'[f][Len(out'[f])][1]]
    BY DEF LastCounted
  <2>1. CASE f = fd
    <3>1. r[L + n] = <<s, o + n>>
      BY <1>1
    <3> QED  BY <1>1, <1>2, <2>1, <3>1 DEF r
  <2>2. CASE f # fd
    <3>1. out'[f] = out[f] /\ Len(out[f]) \in DOMAIN out[f]
      BY <1>1, <1>4, <2>2
    <3>2. out[f][Len(out[f])][1] \in Srbs /\ out[f][Len(out[f])][1] # s
      BY <1>3, <1>5, <2>2, <3>1
    <3> QED  BY <1>1, <1>2, <3>1, <3>2 DEF WholeInv, LastCounted
  <2> QED  BY <2>1, <2>2
<1>7. ASSUME accepting, ~closed[fd], o = 0, L > 0, q[L][1] \notin torn PROVE q[L][2] = SendSize
  <2> DEFINE t == q[L][1]
  <2>1. /\ q[L] \in Srbs \X (1..SendSize) /\ skt[t] = fd /\ op[t] = SendOp
        /\ q[L][2] <= bytes_operated[t]
    BY <1>1, <1>3, <1>7 DEF SendInv, SentCounted, q
  <2>2. q[L][2] = bytes_operated[t]
    <3>1. q # <<>>
      BY <1>1, <1>7, EmptySeq DEF q, L
    <3> QED  BY <1>1, <1>7, <3>1 DEF WholeInv, LastCounted, q, L
  <2>3. t \in Srbs /\ bytes_operated[t] \in 1..SendSize
    BY <2>1, <2>2
  <2>4. t # s
    BY <1>1, <1>7, <2>3 DEF b
  <2>5. s \in Outstanding
    BY <1>2 DEF Outstanding
  <2>6. t \notin Outstanding
    BY <2>1, <2>4, <2>5 DEF ExclusiveInv, Unique, fd
  <2>7. bytes_operated[t] \notin 1 .. SendSize - 1
    BY <1>7, <2>1, <2>3, <2>6 DEF WholeInv, PartHasReason
  <2> QED  BY <2>2, <2>3, <2>7, SizeAssumption
<1>8. MessagesWhole'
  <2> SUFFICES ASSUME NEW f \in Fds, accepting, ~closed[f],
                      NEW i \in 2 .. Len(out'[f]), out'[f][i][2] = 1
               PROVE  out'[f][i - 1][2] = SendSize \/ out'[f][i - 1][1] \in torn
    BY <1>1, <1>2 DEF MessagesWhole
  <2>1. CASE f = fd
    <3>1. i \in 2 .. L + n /\ r[i][2] = 1
      BY <1>1, <2>1 DEF r
    <3>2. CASE i <= L
      <4>1. i \in 2..L /\ r[i] = q[i] /\ r[i - 1] = q[i - 1]
        BY <1>1, <3>1, <3>2
      <4>2. q[i - 1][2] = SendSize \/ q[i - 1][1] \in torn
        BY <1>1, <2>1, <3>1, <4>1 DEF WholeInv, MessagesWhole, q, L
      <4> QED  BY <2>1, <4>1, <4>2 DEF r
    <3>3. CASE i > L
      <4>1. r[i] = <<s, o + i - L>>
        BY <1>1, <3>1, <3>3
      <4>2. i = L + 1 /\ o = 0
        BY <1>1, <3>1, <3>3, <4>1
      <4>3. L > 0 /\ r[i - 1] = q[L]
        BY <1>1, <3>1, <4>2
      <4> QED  BY <1>7, <2>1, <4>2, <4>3 DEF r
    <3> QED  BY <1>1, <3>1, <3>2, <3>3
  <2>2. CASE f # fd
    BY <1>1, <2>2 DEF WholeInv, MessagesWhole
  <2> QED  BY <2>1, <2>2
<1> QED  BY <1>6, <1>8

\* Every step preserves that messages are whole.
LEMMA WholeStep ==
  ASSUME ~Overlap, OwnInv, ExclusiveInv, SendInv, WholeInv, [TransferNext]_tvars
  PROVE  WholeInv'
<1> USE DEF WholeInv
<1>1. \A fd \in Fds : \A i \in DOMAIN out[fd] : out[fd][i] \in Srbs \X (1..SendSize)
  BY ElementOfSeq, LenProperties DEF OwnInv, SrbsIntact, TransferTypeOK
<1>2. \A fd \in Fds : out[fd] # <<>> => Len(out[fd]) \in DOMAIN out[fd]
  BY LenProperties, EmptySeq DEF OwnInv, SrbsIntact, TransferTypeOK
\* The slot a post finds taken is taken by an srb of the same kind.
<1>3. ASSUME NEW fd \in Fds, NEW o \in Ops, slot[fd][o].job # NULL
      PROVE  \E t \in Outstanding : phase[t] = "posted" /\ skt[t] = fd /\ op[t] = o
  <2>1. slot[fd][o].job \in Srbs
    BY <1>3 DEF OwnInv, SlotsOK, Srbs
  <2> QED  BY <2>1 DEF OwnInv, SrbsIntact, SrbOwned, Outstanding
<1>4. ASSUME NEW s \in Srbs, NEW n \in 0 .. Size(op[s]), JobMoves(s, n) \/ SyncMoves(s, n)
      PROVE  WholeInv'
  <2>1. /\ UNCHANGED <<skt, op, accepting, closed>>
        /\ \A t \in Srbs : t # s => bytes_operated'[t] = bytes_operated[t] /\ phase'[t] = phase[t]
        /\ phase'[s] \in {"repost", "sync", "freed"}
        /\ phase'[s] = "freed" => bytes_operated'[s] >= Size(op[s])
    BY <1>4, MoveFacts
  <2>2. LostWhenStopped'
    BY <2>1 DEF LostWhenStopped
  <2>3. PartHasReason'
    BY <1>4, <2>1, SizeAssumption, TornFacts DEF PartHasReason, Outstanding, Size
  <2>4. CASE op[s] = SendOp
    BY <1>4, <2>2, <2>3, <2>4, WholeMovesInv
  <2>5. CASE op[s] # SendOp
    <3>1. op[s] = RecvOp
      BY <2>5 DEF OwnInv, SrbsIntact, TransferTypeOK
    <3>2. out' = out /\ torn' = torn
      <4>1. out' = out
        BY <1>4, <3>1, MoveOffset DEF MoveBytes
      <4>2. torn' = torn
        BY <1>4, <2>5 DEF JobMoves, SyncMoves
      <4> QED  BY <4>1, <4>2
    <3>3. LastCounted'
      <4> SUFFICES ASSUME NEW fd \in Fds, out[fd] # <<>>
                   PROVE  \/ out[fd][Len(out[fd])][1] \in torn
                          \/ out[fd][Len(out[fd])][2] = bytes_operated'[out[fd][Len(out[fd])][1]]
        BY <3>2 DEF LastCounted
      <4>1. out[fd][Len(out[fd])][1] \in Srbs /\ op[out[fd][Len(out[fd])][1]] = SendOp
        BY <1>1, <1>2 DEF SendInv, SentCounted
      <4> QED  BY <2>1, <2>5, <4>1 DEF LastCounted
    <3> QED  BY <2>1, <2>2, <2>3, <3>2, <3>3 DEF MessagesWhole
  <2> QED  BY <2>4, <2>5
<1>5. ASSUME NEW s \in Srbs, NEW fd \in Fds, NEW o \in {SendOp, RecvOp}, Starts(s, fd, o)
      PROVE  WholeInv'
  <2>1. /\ phase[s] = "unused" /\ UNCHANGED <<bytevars, accepting, closed>>
        /\ \A t \in Srbs : t # s => /\ skt'[t] = skt[t] /\ op'[t] = op[t] /\ phase'[t] = phase[t]
        /\ \A t \in Outstanding : skt[t] # fd \/ op[t] # o
        /\ phase'[s] = "lost" => ~accepting \/ slot[fd][o].job # NULL
    BY <1>5 DEF Starts, MayStart
  <2>2. bytes_operated[s] = 0 /\ o \in Ops
    BY <2>1 DEF OwnInv, Underway, Ops, SendOp, RecvOp
  <2>3. phase'[s] = "lost" => ~accepting
    BY <1>3, <2>1, <2>2
  <2>4. LostWhenStopped'
    BY <2>1, <2>3 DEF LostWhenStopped
  <2>5. PartHasReason'
    BY <2>1, <2>2 DEF PartHasReason, Outstanding, bytevars
  <2>6. LastCounted' /\ MessagesWhole'
    BY <2>1 DEF LastCounted, MessagesWhole, bytevars
  <2> QED  BY <2>4, <2>5, <2>6
<1>6. ASSUME NEW s \in Srbs, Proceeds(s) PROVE WholeInv'
  <2>1. /\ UNCHANGED <<bytevars, skt, op, accepting, closed>> /\ s \in Outstanding
        /\ \A t \in Srbs : t # s => phase'[t] = phase[t]
    BY <1>6 DEF Proceeds, Outstanding
  <2>2. skt[s] \in Fds /\ op[s] \in Ops
    BY <2>1 DEF OwnInv, SrbsIntact, TransferTypeOK, Underway, Outstanding, Ops, SendOp, RecvOp
  <2>3. phase'[s] = "lost" => ~accepting
    <3> SUFFICES ASSUME phase'[s] = "lost", slot[skt[s]][op[s]].job # NULL PROVE FALSE
      BY <1>6 DEF Proceeds
    <3>1. PICK t \in Outstanding : phase[t] = "posted" /\ skt[t] = skt[s] /\ op[t] = op[s]
      BY <1>3, <2>2
    <3>2. phase[s] = "repost"
      BY <1>6 DEF Proceeds
    <3> QED  BY <2>1, <3>1, <3>2 DEF ExclusiveInv, Unique
  <2>4. LostWhenStopped'
    BY <2>1, <2>3 DEF LostWhenStopped
  <2>5. PartHasReason'
    <3> SUFFICES ASSUME NEW t \in Srbs, op[t] = SendOp,
                        bytes_operated[t] \in 1 .. SendSize - 1, t \notin Outstanding'
                 PROVE  closed[skt[t]] \/ ~accepting \/ t \in torn
      BY <2>1 DEF PartHasReason, bytevars
    <3>1. CASE t = s
      <4>1. phase'[s] \in {"freed", "lost"}
        BY <1>6, <3>1 DEF Proceeds, Outstanding
      <4>2. phase'[s] = "freed" => closed[skt[s]] \/ phase[s] = "sync"
        BY <1>6 DEF Proceeds
      <4>3. phase[s] = "sync" => s \in torn
        BY <2>1, <3>1 DEF SendInv, SendHead
      <4> QED  BY <2>3, <3>1, <4>1, <4>2, <4>3
    <3>2. CASE t # s
      BY <2>1, <3>2 DEF PartHasReason, Outstanding
    <3> QED  BY <3>1, <3>2
  <2>6. LastCounted' /\ MessagesWhole'
    BY <2>1 DEF LastCounted, MessagesWhole, bytevars
  <2> QED  BY <2>4, <2>5, <2>6
<1>7. CASE Elsewhere
  <2>1. /\ UNCHANGED <<bytevars, phase, skt, op>> /\ (accepting' => accepting)
        /\ \A fd \in Fds : closed[fd] => closed'[fd]
    BY <1>7 DEF Elsewhere
  <2>2. LostWhenStopped'
    BY <2>1 DEF LostWhenStopped
  <2>3. PartHasReason'
    <3> SUFFICES ASSUME NEW t \in Srbs, op[t] = SendOp,
                        bytes_operated[t] \in 1 .. SendSize - 1, t \notin Outstanding
                 PROVE  closed'[skt[t]] \/ ~accepting' \/ t \in torn
      BY <2>1 DEF PartHasReason, bytevars, Outstanding
    <3>1. closed[skt[t]] \/ ~accepting \/ t \in torn
      BY DEF PartHasReason
    <3>2. skt[t] \in Fds
      BY DEF OwnInv, Underway
    <3> QED  BY <2>1, <3>1, <3>2
  <2>4. LastCounted' /\ MessagesWhole'
    BY <2>1 DEF LastCounted, MessagesWhole, bytevars
  <2> QED  BY <2>2, <2>3, <2>4
<1> QED  BY <1>4, <1>5, <1>6, <1>7, StepKinds

\* If no two transfers of a kind overlap on a socket, synchronous ones
\* included, no message begins in a stream before the one ahead of it is
\* complete, unless the service was stopped, the peer closed or the one ahead is
\* a synchronous message that the kernel did not take at once.
THEOREM MessagesSentWhole == ASSUME ~Overlap PROVE TransferSpec => []MessagesWhole
<1> DEFINE I == OwnInv /\ ExclusiveInv /\ SendInv /\ WholeInv
<1>1. TransferInit => I
  BY OwnInit, ExclusiveInit, SendInit, WholeInit
<1>2. I /\ [TransferNext]_tvars => I'
  BY OwnStep, ExclusiveStep, SendStep, WholeStep
<1>3. I => MessagesWhole
  BY DEF WholeInv
<1> QED  BY <1>1, <1>2, <1>3, PTL DEF TransferSpec
=============================================================================
