--------------------------- MODULE EndpointsProofs ---------------------------
(***************************************************************************)
(* Proofs about Endpoints for any number of descriptors and connections.   *)
(***************************************************************************)
EXTENDS Endpoints, TLAPS

(***************************************************************************)
(* The inductive invariant.                                                *)
(***************************************************************************)

\* Before a server is set up and while a host is used; no host leaves another
\* state.
Alive == life \in {"unborn", "up"}

\* The service, and what each thread may be doing: only "user" makes the calls
\* that wait, and the loop is in the middle of something only in a job.
ServiceOK ==
  /\ accepting \in BOOLEAN
  /\ slot \in [Fds -> [Ops -> [job : Jobs \cup {NULL}, oneshot : BOOLEAN]]]
  /\ doing["loop"].at \notin {"connect", "aconnect", "kept", "sync", "recv"}
  /\ doing["user"].at \notin {"lock", "transfer", "done", "return"}
  /\ inflight = {} => doing["loop"].at = "none"
  /\ doing["loop"].at = "transfer" => doing["loop"].conn \in Conns

\* What a thread holds of the mutex.
Held(t) == IF mutex.owner = t THEN mutex.depth ELSE 0

\* A call holds what it took of the mutex, and gives back all of it unless it
\* keeps it; the one-to-one server has no call that does.
LockInv ==
  /\ Alive => \A t \in Threads : Frames(t) <= Held(t)
  /\ Alive /\ "kept" \notin past => \A t \in Threads : Frames(t) = Held(t)
  /\ host = "oto" => "kept" \notin past

\* A server that is not set up yet.
Unborn ==
  life = "unborn" =>
    /\ host # "client"
    /\ slot = [fd \in Fds |-> [op \in Ops |-> Empty]] /\ inflight = {}
    /\ skt = [c \in Conns |-> NULL] /\ \A fd \in Fds : holder[fd] \in {NULL, "other"}
    /\ mutex = Free /\ doing = [t \in Threads |-> Idle] /\ owed = {} /\ backlog = 0
    /\ remotes = {} /\ given = {} /\ looked = [t \in Threads |-> NULL]
    /\ otoRemote = NULL /\ otoConnected = FALSE

\* A connection that holds a number remembers it, and only the listening
\* socket of a server has its number.
KernelInv ==
  /\ \A c \in Conns : skt[c] # Listen
  /\ \A fd \in Fds : holder[fd] \in Conns => skt[holder[fd]] = fd
  /\ holder[Listen] \in {NULL, "listen"}
  /\ \A fd \in Fds : holder[fd] = "listen" => fd = Listen /\ host # "client"

\* The acceptor of a server is only in the slot of the listening socket, and
\* the loop calls it only while there is something to accept; the client has
\* no acceptor.
AcceptInv ==
  /\ host # "client" =>
       /\ \A fd \in Fds, op \in Ops :
            slot[fd][op].job = HostJob => fd = Listen /\ op = "read" /\ slot[fd][op].oneshot
       /\ "listen_sync" \notin past =>
            /\ doing["user"].at # "accept"
            /\ doing["loop"].at \in {"lock", "accept"} => backlog > 0
  /\ host = "client" => \A t \in Threads : doing[t].at \notin {"accept", "callback"}

\* No transfer is for the number of the listening socket.
ListenInv ==
  /\ \A op \in Ops : slot[Listen][op].job \notin Conns
  /\ doing["loop"].at = "transfer" =>
       \A op \in Ops : inflight # {<<Listen, op, doing["loop"].conn>>}

\* The list of the one-to-many server, and the connections its callers look at.
OtmInv ==
  host = "otm" =>
    /\ Alive =>
         /\ remotes = given
         /\ \A fd \in Fds : holder[fd] \in Conns => holder[fd] \in remotes
         /\ \A c \in remotes : skt[c] \in Fds /\ holder[skt[c]] = c
    /\ life = "up" /\ "raced" \notin past =>
         \A t \in Threads : looked[t] # NULL =>
           /\ looked[t] \in given
           /\ \A u \in Threads \ {t} : /\ looked[u] # looked[t]
                                       /\ doing[u] # [at |-> "callback", conn |-> looked[t]]

\* The connection of the one-to-one server, and the listens that wait for one.
OtoInv ==
  host = "oto" /\ Alive =>
    /\ otoRemote # NULL => /\ skt[otoRemote] \in Fds
                           /\ holder[skt[otoRemote]] \in {otoRemote, NULL, "other"}
    /\ otoConnected => otoRemote # NULL
    /\ otoConnected /\ "disconnected" \notin past => holder[skt[otoRemote]] = otoRemote
    /\ \A t \in Threads : doing[t].at = "callback" => otoConnected
    /\ "overlap" \notin past =>
         /\ \A fd \in Fds : holder[fd] \in Conns => otoConnected /\ holder[fd] = otoRemote
         /\ otoConnected => /\ slot[Listen]["read"].job = NULL
                            /\ \A t \in Threads : doing[t].at \notin {"lock", "accept"}
         /\ slot[Listen]["read"].job # NULL =>
              \A t \in Threads : doing[t].at \notin {"lock", "accept"}
         /\ doing["user"].at = "accept" => doing["loop"].at \notin {"lock", "accept"}

\* A connector is in the service, or called and about to lock the mutex.
Connecting ==
  \/ doing["loop"].at = "lock"
  \/ \E fd \in Fds, op \in Ops : slot[fd][op].job = HostJob

\* The socket of the client, and the connector posted for it.
ClientInv ==
  host = "client" /\ Alive =>
    /\ local # NULL => skt[local] \in Fds /\ holder[skt[local]] = local
    /\ remote # NULL => skt[remote] \in Fds
    /\ connected => local # NULL /\ remote = local
    /\ doing["user"].at \in {"connect", "aconnect"} => local # NULL /\ ~connected /\ ~Connecting
    /\ Connecting => local # NULL /\ remote = local /\ ~connected
    /\ doing["loop"].at = "lock" => \A fd \in Fds, op \in Ops : slot[fd][op].job # HostJob
    /\ \A fd \in Fds, op \in Ops :
         slot[fd][op].job = HostJob => op = "write" /\ slot[fd][op].oneshot /\ skt[local] = fd
    /\ "setsockopt failed" \notin past => \A fd \in Fds : holder[fd] \in Conns => holder[fd] = local

\* The jobs of transfers that are owed their callback, in the service or in
\* the loop, meet the descriptor of their connection.
JobInv ==
  Alive /\ past \cap {"closed busy", "stale transfer"} = {} =>
    /\ \A fd \in Fds, op \in Ops : slot[fd][op].job \in Conns =>
         /\ holder[fd] = slot[fd][op].job /\ slot[fd][op].oneshot
         /\ <<slot[fd][op].job, op>> \in owed
    /\ doing["loop"].at = "transfer" =>
         \A fd \in Fds, op \in Ops : inflight = {<<fd, op, doing["loop"].conn>>} =>
           /\ holder[fd] = doing["loop"].conn /\ <<doing["loop"].conn, op>> \in owed
           /\ slot[fd][op].job # doing["loop"].conn

\* A host that is not used any more.
OverInv ==
  /\ life = "undefined" => past \cap {"raced", "refused gone"} # {}
  /\ NothingLeft

EndpointsInv ==
  /\ EndpointsTypeOK /\ ServiceOK /\ LockInv /\ Unborn /\ KernelInv /\ AcceptInv
  /\ ListenInv /\ OtmInv /\ OtoInv /\ ClientInv /\ JobInv /\ OverInv /\ ClosesOwn

(***************************************************************************)
(* The threads and the mutex.                                              *)
(***************************************************************************)

Ats == {"none", "lock", "accept", "callback", "connect", "aconnect", "connected", "kept",
        "transfer", "done", "return", "sync", "recv"}
Events == {"closed busy", "stale transfer", "setsockopt failed", "kept", "raced",
           "listen_sync", "overlap", "disconnected", "refused gone"}
LoopAts == Ats \ {"connect", "aconnect", "kept", "sync", "recv"}
UserAts == Ats \ {"lock", "transfer", "done", "return"}

\* How often a thread has locked the mutex at a place.
Weight(t, at) ==
  IF at \in {"accept", "callback"} THEN IF t = "user" THEN 2 ELSE 1
  ELSE IF at \in {"sync", "recv", "connect", "aconnect", "connected", "kept"} THEN 1 ELSE 0

\* A thread's calls hold what the place it is at says.
LEMMA FramesWeight ==
  \A t : /\ Frames(t) = Weight(t, doing[t].at) /\ Frames(t)' = Weight(t, doing'[t].at)
        /\ Frames(t) \in 0..2
  BY DEF Frames, Weight

\* A thread goes to another place, keeping what it has of the mutex, keeping it
\* for good, locking it as the new place says, or unlocking it.
Moves(t, at, c) ==
  /\ Goes(t, at, c)
  /\ at \in (IF t = "loop" THEN LoopAts ELSE UserAts) /\ c \in Conns \cup {NULL}
  /\ \/ mutex' = mutex /\ Weight(t, at) = Frames(t)
     \/ mutex' = mutex /\ Weight(t, at) = 0 /\ "kept" \in past' /\ host # "oto"
     \/ Lock(t, 1) /\ Weight(t, at) = 0 /\ "kept" \in past' /\ host # "oto"
     \/ \E n \in {1, 2} : Lock(t, n) /\ Frames(t) = 0 /\ Weight(t, at) = n
     \/ Unlock(Frames(t)) /\ Frames(t) # 0 /\ Weight(t, at) = 0

\* What a step does to the threads and the mutex.
ThreadStep ==
  /\ Alive /\ life' \in {"unborn", "failed", "up", "deinit", "aborted", "undefined"}
  /\ past \subseteq past' /\ past' \subseteq Events
  /\ \/ UNCHANGED <<mutex, doing>> /\ (host = "oto" /\ "kept" \in past' => "kept" \in past)
     \/ \E t \in Threads, at \in Ats, c \in Conns \cup {NULL} :
          /\ Moves(t, at, c) /\ life = "up" /\ life' = "up"
          /\ host = "oto" /\ "kept" \in past' => "kept" \in past
     \/ life' = "aborted" /\ host = "client" /\ UNCHANGED doing /\ \E t \in Threads : Lock(t, 1)

\* One thread has moved.
LEMMA Moved ==
  ASSUME NEW t \in Threads, NEW at \in Ats, NEW c \in Conns \cup {NULL}, Moves(t, at, c),
         life = "up", life' = "up", past \subseteq past', past' \subseteq Events,
         host = "oto" /\ "kept" \in past' => "kept" \in past
  PROVE  ThreadStep
  BY DEF ThreadStep, Alive

\* The steps of every host.
LEMMA SocketsThreads ==
  ASSUME EndpointsInv, SocketsStep
  PROVE  ThreadStep
<1>0. /\ past \subseteq Events /\ ServiceOK /\ doing \in [Threads -> [at : Ats, conn : Conns \cup {NULL}]]
      /\ life \in {"unborn", "failed", "up", "deinit", "aborted", "undefined"}
  BY DEF EndpointsInv, EndpointsTypeOK, SocketsTypeOK, Events, Ats
<1>1. CASE (\E fd \in Fds : OtherOpens(fd)) \/ PeerConnects \/ StopService \/ AcceptFails
  BY <1>0, <1>1 DEF OtherOpens, PeerConnects, StopService, AcceptFails, ThreadStep, Alive, Events
<1>2. ASSUME NEW t \in Threads, SyncReturns(t) PROVE ThreadStep
  <2>1. Moves(t, "none", NULL)
    <3>1. doing[t].at = "sync" /\ Frames(t) = 1 /\ t # "loop"
      BY <1>0, <1>2 DEF SyncReturns, Frames, ServiceOK
    <3>2. Goes(t, "none", NULL) /\ Unlock(Frames(t))
      BY <1>0, <1>2, <3>1 DEF SyncReturns, Unlock
    <3> QED  BY <3>1, <3>2 DEF Moves, Weight, UserAts, Ats
  <2> QED  BY <1>0, <1>2, <2>1, Moved DEF SyncReturns, Ats, Events
<1>3. ASSUME NEW fd \in Fds, NEW op \in Ops, TransferEnds(fd, op) PROVE ThreadStep
  <2>1. Moves("loop", "done", doing["loop"].conn) /\ doing["loop"].conn \in Conns
    BY <1>0, <1>3 DEF TransferEnds, Moves, Frames, Weight, LoopAts, Ats, ServiceOK
  <2> QED  BY <1>0, <1>3, <2>1, Moved DEF TransferEnds, Ats, Events, Threads
<1>4. ASSUME NEW fd \in Fds, NEW op \in Ops, TransferGoesOn(fd, op) PROVE ThreadStep
  <2>1. Moves("loop", "return", NULL)
    BY <1>0, <1>4 DEF TransferGoesOn, Moves, Frames, Weight, LoopAts, Ats
  <2> QED  BY <1>0, <1>4, <2>1, Moved DEF TransferGoesOn, Ats, Events, Threads
<1>5. ASSUME NEW fd \in Fds, NEW op \in Ops, CallHostJob(fd, op) PROVE ThreadStep
  <2>1. Moves("loop", "lock", NULL)
    BY <1>0, <1>5 DEF CallHostJob, Call, Moves, Frames, Weight, LoopAts, Ats, ServiceOK
  <2> QED  BY <1>0, <1>5, <2>1, Moved DEF CallHostJob, Ats, Events, Threads
<1>6. ASSUME NEW fd \in Fds, NEW op \in Ops, NEW c \in Conns, CallTransfer(c, fd, op)
      PROVE  ThreadStep
  <2>1. Moves("loop", "transfer", c)
    BY <1>0, <1>6 DEF CallTransfer, Call, Moves, Frames, Weight, LoopAts, Ats, ServiceOK
  <2> QED  BY <1>0, <1>6, <2>1, Moved DEF CallTransfer, Ats, Events, Threads
<1>7. CASE JobReturns
  <2>1. Moves("loop", "none", NULL)
    BY <1>0, <1>7 DEF JobReturns, Moves, Frames, Weight, LoopAts, Ats
  <2> QED  BY <1>0, <1>7, <2>1, Moved DEF JobReturns, Ats, Events, Threads
<1> QED  BY <1>1, <1>2, <1>3, <1>4, <1>5, <1>6, <1>7 DEF SocketsStep

\* The steps of the one-to-many server.
LEMMA OtmThreads ==
  ASSUME EndpointsInv, OtmNext, host = "otm"
  PROVE  ThreadStep
<1>0. /\ past \subseteq Events /\ ServiceOK /\ doing \in [Threads -> [at : Ats, conn : Conns \cup {NULL}]]
      /\ life \in {"unborn", "failed", "up", "deinit", "aborted", "undefined"}
  BY DEF EndpointsInv, EndpointsTypeOK, SocketsTypeOK, Events, Ats
<1>1. CASE OtmInit \/ OtmDeinit
  BY <1>0, <1>1 DEF OtmInit, ServerOpens, ServerFails, ServerClosesWild, OtmDeinit, MayDeinit, MayWait,
              Note, ThreadStep, Alive, Events
<1>2. ASSUME NEW t \in Threads,
             \/ OtmListenAsync(t) \/ OtmUsesFreed(t) \/ \E wild \in Fds : OtmRefusesFreed(t, wild)
             \/ \E c \in Conns : \/ OtmLooks(t, c) \/ OtmDisconnect(t, c)
                                 \/ \E op \in Ops : OtmTransferAsync(t, c, op)
      PROVE  ThreadStep
  BY <1>0, <1>2 DEF OtmListenAsync, OtmMayCall, MayCall, OtmUsesFreed, OtmRefusesFreed, OtmLooks, OtmDisconnect, OtmHas,
              OtmCloses, OtmTransferAsync, TransferAsync, Note, BusyNote, ThreadStep, Alive, Events
<1>3. CASE OtmAcceptor
  <2>1. Moves("loop", "accept", NULL)
    BY <1>0, <1>3 DEF OtmAcceptor, Moves, Frames, Weight, LoopAts, Ats
  <2> QED  BY <1>0, <1>3, <2>1, Moved DEF OtmAcceptor, Ats, Events, Threads
<1>4. ASSUME NEW t \in Threads, OtmListenSync(t) PROVE ThreadStep
  <2>1. Moves(t, "accept", NULL)
    BY <1>0, <1>4 DEF OtmListenSync, MayWait, Moves, Frames, Weight, UserAts, Ats
  <2> QED  BY <1>0, <1>4, <2>1, Moved DEF OtmListenSync, MayWait, Note, Ats, Events
<1>5. ASSUME NEW t \in Threads, OtmRecvSyncReturns(t) PROVE ThreadStep
  <2>1. Moves(t, "none", NULL)
    BY <1>0, <1>5 DEF OtmRecvSyncReturns, Moves, Note, Weight, UserAts, LoopAts, Ats
  <2> QED  BY <1>0, <1>5, <2>1, Moved DEF OtmRecvSyncReturns, Note, Ats, Events
<1>6. ASSUME NEW t \in Threads, NEW refuse \in BOOLEAN, OtmAcceptorReturns(t, refuse)
      PROVE  ThreadStep
  <2> DEFINE at == IF t = "loop" THEN "return" ELSE "none"
  <2>1. Moves(t, at, NULL)
    <3>1. doing[t].at = "callback"
      BY <1>0, <1>6 DEF OtmAcceptorReturns
    <3>2. Frames(t) # 0
      BY <3>1 DEF Frames
    <3> QED  BY <1>0, <1>6, <3>2 DEF OtmAcceptorReturns, OtmLeavesAcceptor, Moves, Weight, UserAts, LoopAts, Ats
  <2>2. past \subseteq past' /\ past' \subseteq Events
    BY <1>0, <1>6 DEF OtmAcceptorReturns, OtmCloses, Note, BusyNote, Events
  <2> QED  BY <1>0, <1>6, <2>1, <2>2, Moved DEF OtmAcceptorReturns, Ats
<1>7. ASSUME NEW t \in Threads, NEW c \in Conns, NEW at \in {"sync", "recv"},
             OtmTransferSync(t, c, at)
      PROVE  ThreadStep
  <2>1. Moves(t, at, c)
    BY <1>0, <1>7 DEF OtmTransferSync, TransferSync, MayWait, Moves, Frames, Weight, UserAts, Ats
  <2>2. past \subseteq past' /\ past' \subseteq Events /\ life = "up" /\ life' = "up" /\ at \in Ats
    BY <1>0, <1>7 DEF OtmTransferSync, TransferSync, MayWait, Note, Events, Ats
  <2> QED  BY <2>1, <2>2, Moved
<1>8. ASSUME NEW t \in Threads, NEW c \in Conns, NEW fd \in Fds, OtmAccept(t, c, fd)
      PROVE  ThreadStep
  <2>1. Moves(t, "callback", c)
    BY <1>0, <1>8 DEF OtmAccept, Moves, Frames, Weight, UserAts, LoopAts, Ats
  <2> QED  BY <1>0, <1>8, <2>1, Moved DEF OtmAccept, Ats, Events
<1>9. ASSUME NEW t \in Threads, OtmCall(t) PROVE ThreadStep
  BY <1>2, <1>4, <1>5, <1>6, <1>7, <1>8, <1>9 DEF OtmCall
<1> QED  BY <1>1, <1>3, <1>9, SocketsThreads DEF OtmNext

\* The steps of the one-to-one server.
LEMMA OtoThreads ==
  ASSUME EndpointsInv, OtoNext, host = "oto"
  PROVE  ThreadStep
<1>0. /\ past \subseteq Events /\ ServiceOK /\ doing \in [Threads -> [at : Ats, conn : Conns \cup {NULL}]]
      /\ life \in {"unborn", "failed", "up", "deinit", "aborted", "undefined"}
  BY DEF EndpointsInv, EndpointsTypeOK, SocketsTypeOK, Events, Ats
<1>1. CASE OtoInit \/ OtoDeinit
  BY <1>0, <1>1 DEF OtoInit, ServerOpens, ServerFails, ServerClosesWild, OtoDeinit, MayDeinit, MayWait,
              Note, ThreadStep, Alive, Events
<1>2. ASSUME NEW t \in Threads,
             OtoListenAsync(t) \/ OtoDisconnect(t) \/ \E op \in Ops : OtoTransferAsync(t, op)
      PROVE  ThreadStep
  BY <1>0, <1>2 DEF OtoListenAsync, MayCall, OtoDisconnect, OtoTransferAsync, TransferAsync, Note,
              BusyNote, OtoBusyNote, OtoOverlap, ThreadStep, Alive, Events
<1>3. CASE OtoAcceptor
  <2>1. Moves("loop", "accept", NULL)
    BY <1>0, <1>3 DEF OtoAcceptor, Moves, Frames, Weight, LoopAts, Ats
  <2> QED  BY <1>0, <1>3, <2>1, Moved DEF OtoAcceptor, Ats, Events, Threads
<1>4. ASSUME NEW t \in Threads, OtoListenSync(t) PROVE ThreadStep
  <2>1. Moves(t, "accept", NULL)
    BY <1>0, <1>4 DEF OtoListenSync, MayWait, Moves, Frames, Weight, UserAts, Ats
  <2>2. past \subseteq past' /\ past' \subseteq Events /\ ("kept" \in past' => "kept" \in past)
    BY <1>0, <1>4 DEF OtoListenSync, OtoOverlap, Note, Events
  <2> QED  BY <1>4, <2>1, <2>2, Moved DEF OtoListenSync, MayWait, Ats
<1>5. ASSUME NEW t \in Threads, NEW refuse \in BOOLEAN, OtoAcceptorReturns(t, refuse)
      PROVE  ThreadStep
  <2> DEFINE at == IF t = "loop" THEN "return" ELSE "none"
  <2>1. Moves(t, at, NULL)
    <3>1. doing[t].at = "callback"
      BY <1>5 DEF OtoAcceptorReturns
    <3>2. Frames(t) # 0
      BY <3>1 DEF Frames
    <3> QED  BY <1>5, <3>2 DEF OtoAcceptorReturns, Moves, Weight, UserAts, LoopAts, Ats
  <2>2. past \subseteq past' /\ past' \subseteq Events /\ ("kept" \in past' => "kept" \in past)
    <3>1. OtoBusyNote \subseteq {"closed busy"}
      BY DEF OtoBusyNote, BusyNote
    <3>2. past' = past \/ past' = past \cup OtoBusyNote
      BY <1>5 DEF OtoAcceptorReturns, Note
    <3> QED  BY <1>0, <3>1, <3>2 DEF Events
  <2> QED  BY <1>5, <2>1, <2>2, Moved DEF OtoAcceptorReturns, Ats
<1>6. ASSUME NEW t \in Threads, OtoTransferSync(t) PROVE ThreadStep
  <2>0. otoRemote \in Conns
    BY <1>6 DEF OtoTransferSync, EndpointsInv, EndpointsTypeOK
  <2>1. Moves(t, "sync", otoRemote)
    BY <1>0, <1>6, <2>0 DEF OtoTransferSync, TransferSync, MayWait, Moves, Frames, Weight, UserAts, Ats
  <2>2. /\ past \subseteq past' /\ past' \subseteq Events /\ ("kept" \in past' => "kept" \in past)
        /\ life = "up" /\ life' = "up"
    BY <1>0, <1>6 DEF OtoTransferSync, TransferSync, MayWait, Note, Events
  <2> QED  BY <2>0, <2>1, <2>2, Moved DEF Ats
<1>7. ASSUME NEW t \in Threads, NEW c \in Conns, NEW fd \in Fds, OtoAccept(t, c, fd)
      PROVE  ThreadStep
  <2>1. Moves(t, "callback", c)
    BY <1>0, <1>7 DEF OtoAccept, Moves, Frames, Weight, UserAts, LoopAts, Ats
  <2> QED  BY <1>0, <1>7, <2>1, Moved DEF OtoAccept, Ats, Events
<1>8. ASSUME NEW t \in Threads, OtoCall(t) PROVE ThreadStep
  BY <1>2, <1>4, <1>5, <1>6, <1>7, <1>8 DEF OtoCall
<1> QED  BY <1>1, <1>3, <1>8, SocketsThreads DEF OtoNext

\* The steps of the client.
LEMMA ClientThreads ==
  ASSUME EndpointsInv, ClientNext, host = "client"
  PROVE  ThreadStep
<1>0. /\ past \subseteq Events /\ ServiceOK /\ doing \in [Threads -> [at : Ats, conn : Conns \cup {NULL}]]
      /\ life \in {"unborn", "failed", "up", "deinit", "aborted", "undefined"}
  BY DEF EndpointsInv, EndpointsTypeOK, SocketsTypeOK, Events, Ats
<1>1. CASE ClientDeinit
  BY <1>0, <1>1 DEF ClientDeinit, MayDeinit, MayWait, ClientCloses, BusyNote, Note, ThreadStep, Alive,
              Events
<1>2. ASSUME NEW t \in Threads,
             \/ ClientDisconnect(t) \/ \E op \in Ops : ClientTransferAsync(t, op)
             \/ \E c \in Conns, fd \in Fds : ClientNoSocket(t, c, fd)
      PROVE  ThreadStep
  BY <1>0, <1>2 DEF ClientDisconnect, MayCall, MayWait, ClientTransferAsync, TransferAsync, Note,
              BusyNote, ClientCloses, ClientNoSocket, ThreadStep, Alive, Events
<1>3. ASSUME NEW err \in BOOLEAN, ClientConnector(err) PROVE ThreadStep
  <2>1. Moves("loop", "connected", NULL)
    BY <1>0, <1>3 DEF ClientConnector, Moves, Frames, Weight, LoopAts, Ats
  <2>2. past \subseteq past' /\ past' \subseteq Events
    BY <1>0, <1>3 DEF ClientConnector, ClientCloses, BusyNote, Note, Events
  <2> QED  BY <1>3, <2>1, <2>2, Moved DEF ClientConnector, Ats, Threads
<1>4. ASSUME NEW t \in Threads, ClientIsConnected(t) PROVE ThreadStep
  <2>1. Moves(t, "kept", NULL)
    BY <1>0, <1>4 DEF ClientIsConnected, MayWait, Moves, Frames, Weight, UserAts, Ats
  <2> QED  BY <1>0, <1>4, <2>1, Moved DEF ClientIsConnected, MayWait, Ats, Events
<1>5. ASSUME NEW t \in Threads, ClientRefused(t) PROVE ThreadStep
  <2>1. Moves(t, "kept", NULL)
    BY <1>0, <1>5 DEF ClientRefused, Moves, Frames, Weight, UserAts, Ats, Threads, ServiceOK
  <2> QED  BY <1>0, <1>5, <2>1, Moved DEF ClientRefused, Ats, Events
<1>6. ASSUME NEW t \in Threads, ClientPostsConnector(t) PROVE ThreadStep
  <2>1. Moves(t, "none", NULL)
    <3>1. doing[t].at = "aconnect" /\ Frames(t) = 1
      BY <1>6 DEF ClientPostsConnector, Frames
    <3>2. Goes(t, "none", NULL) /\ Unlock(Frames(t))
      BY <1>6, <3>1 DEF ClientPostsConnector, Unlock
    <3> QED  BY <3>1, <3>2 DEF Moves, Weight, LoopAts, UserAts, Ats
  <2> QED  BY <1>0, <1>6, <2>1, Moved DEF ClientPostsConnector, Ats, Events
<1>7. ASSUME NEW t \in Threads, ClientRefusedAsync(t) PROVE ThreadStep
  <2>1. Moves(t, "connected", NULL)
    BY <1>0, <1>7 DEF ClientRefusedAsync, Moves, Frames, Weight, LoopAts, UserAts, Ats
  <2> QED  BY <1>0, <1>7, <2>1, Moved DEF ClientRefusedAsync, Ats, Events
<1>8. ASSUME NEW t \in Threads, ClientCallbackReturns(t) PROVE ThreadStep
  <2> DEFINE at == IF t = "loop" THEN "return" ELSE "none"
  <2>1. Moves(t, at, NULL)
    <3>1. doing[t].at = "connected" /\ Frames(t) = 1
      BY <1>8 DEF ClientCallbackReturns, Frames
    <3>2. Goes(t, at, NULL) /\ Unlock(Frames(t))
      BY <1>8, <3>1 DEF ClientCallbackReturns, Unlock
    <3> QED  BY <3>1, <3>2 DEF Moves, Weight, LoopAts, UserAts, Ats
  <2> QED  BY <1>0, <1>8, <2>1, Moved DEF ClientCallbackReturns, Ats, Events
<1>9. ASSUME NEW t \in Threads, ClientKeepsLock(t) PROVE ThreadStep
  <2>1. Moves(t, "none", NULL)
    BY <1>9 DEF ClientKeepsLock, Moves, Note, Weight, UserAts, LoopAts, Ats
  <2> QED  BY <1>0, <1>9, <2>1, Moved DEF ClientKeepsLock, Note, Ats, Events
<1>10. ASSUME NEW t \in Threads, ClientTransferSync(t) PROVE ThreadStep
  <2>0. remote \in Conns
    BY <1>10 DEF ClientTransferSync, EndpointsInv, EndpointsTypeOK
  <2>1. Moves(t, "sync", remote)
    BY <1>0, <1>10, <2>0 DEF ClientTransferSync, TransferSync, MayWait, Moves, Frames, Weight, UserAts, Ats
  <2>2. /\ past \subseteq past' /\ past' \subseteq Events /\ life = "up" /\ life' = "up"
    BY <1>0, <1>10 DEF ClientTransferSync, TransferSync, MayWait, Note, Events
  <2> QED  BY <2>0, <2>1, <2>2, Moved DEF Ats
<1>11. ASSUME NEW t \in Threads, NEW errno \in BOOLEAN, ClientConnects(t, errno) PROVE ThreadStep
  <2>1. Moves(t, "connected", NULL)
    BY <1>0, <1>11 DEF ClientConnects, Moves, Frames, Weight, LoopAts, UserAts, Ats
  <2>2. past \subseteq past' /\ past' \subseteq Events
    BY <1>0, <1>11 DEF ClientConnects, ClientCloses, BusyNote, Note, Events
  <2> QED  BY <1>11, <2>1, <2>2, Moved DEF ClientConnects, Ats
<1>12. ASSUME NEW t \in Threads, NEW c \in Conns, NEW fd \in Fds,
              NEW at \in {"connect", "aconnect", "kept"}, ClientInitSocket(t, c, fd, at)
       PROVE  ThreadStep
  <2>1. Moves(t, at, NULL)
    BY <1>0, <1>12 DEF ClientInitSocket, MayWait, Moves, Frames, Weight, UserAts, Ats
  <2> QED  BY <1>0, <1>12, <2>1, Moved DEF ClientInitSocket, MayWait, Ats, Events
<1>13. ASSUME NEW t \in Threads, NEW c \in Conns, NEW fd \in Fds, ClientAborts(t, c, fd)
       PROVE  ThreadStep
  BY <1>0, <1>13 DEF ClientAborts, MayWait, ThreadStep, Alive, Events
<1>14. ASSUME NEW t \in Threads, ClientCall(t) PROVE ThreadStep
  <2>1. CASE \E c \in Conns, fd \in Fds : ClientConnectSync(t, c, fd) \/ ClientConnectAsync(t, c, fd)
    BY <1>12, <2>1 DEF ClientConnectSync, ClientConnectAsync
  <2> QED  BY <1>2, <1>4, <1>5, <1>6, <1>7, <1>8, <1>9, <1>10, <1>11, <1>13, <1>14, <2>1 DEF ClientCall
<1> QED  BY <1>1, <1>3, <1>14, SocketsThreads DEF ClientNext

\* Every step of a host is one of these.
LEMMA ThreadKinds ==
  ASSUME EndpointsInv, EndpointsNext
  PROVE  ThreadStep
  BY OtmThreads, OtoThreads, ClientThreads DEF EndpointsNext

MutexOK ==
  /\ mutex \in [owner : Threads \cup {"nobody"}, depth : 0..MaxDepth]
  /\ mutex.owner = "nobody" <=> mutex.depth = 0
DoingOK == doing \in [Threads -> [at : Ats, conn : Conns \cup {NULL}]]

\* Locking and unlocking, as far as what each thread holds is concerned.
LEMMA LockFacts ==
  ASSUME MutexOK, NEW t \in Threads, NEW n \in {1, 2}, Lock(t, n)
  PROVE  /\ MutexOK' /\ Held(t)' = Held(t) + n
         /\ \A u \in Threads \ {t} : Held(u)' = 0 /\ Held(u) = 0
<1>1. /\ mutex.owner \in {"nobody", t} /\ mutex' = [owner |-> t, depth |-> mutex.depth + n]
      /\ mutex.depth + n <= MaxDepth /\ mutex.depth \in Nat /\ MaxDepth \in Nat
      /\ mutex.owner = "nobody" => mutex.depth = 0
  BY SocketsAssumption DEF Lock, CanLock, MutexOK
<1>2. mutex'.owner = t /\ mutex'.depth = mutex.depth + n /\ t # "nobody"
  BY <1>1 DEF Threads
<1>3. MutexOK'
  BY <1>1, <1>2 DEF MutexOK
<1>4. Held(t)' = Held(t) + n
  BY <1>1, <1>2 DEF Held
<1>5. \A u \in Threads \ {t} : Held(u)' = 0 /\ Held(u) = 0
  BY <1>1, <1>2 DEF Held, Threads
<1> QED  BY <1>3, <1>4, <1>5

\* Unlocking gives back as many locks as it says, and they were the thread's.
LEMMA UnlockFacts ==
  ASSUME MutexOK, NEW t \in Threads, NEW n \in {1, 2}, n <= Held(t), Unlock(n)
  PROVE  /\ MutexOK' /\ Held(t)' = Held(t) - n
         /\ \A u \in Threads \ {t} : Held(u)' = 0 /\ Held(u) = 0
<1>1. /\ mutex.owner \in Threads \cup {"nobody"} /\ mutex.depth \in Nat /\ mutex.depth <= MaxDepth
      /\ MaxDepth \in Nat
  BY SocketsAssumption DEF MutexOK
<1>2. mutex.owner = t /\ Held(t) = mutex.depth /\ n <= mutex.depth /\ t # "nobody"
  BY <1>1 DEF Held, Threads
<1>3. CASE mutex.depth = n
  <2>1. mutex' = Free /\ mutex'.owner = "nobody" /\ mutex'.depth = 0
    BY <1>3 DEF Unlock, Free
  <2>2. MutexOK'
    BY <1>1, <2>1 DEF MutexOK, Free
  <2> QED  BY <1>2, <1>3, <2>1, <2>2 DEF Held, Threads
<1>4. CASE mutex.depth # n
  <2>1. mutex' = [mutex EXCEPT !.depth = mutex.depth - n]
    BY <1>4 DEF Unlock
  <2>2. mutex' = [owner |-> t, depth |-> mutex.depth - n] /\ mutex'.owner = t
        /\ mutex'.depth = mutex.depth - n
    BY <1>2, <2>1 DEF MutexOK
  <2>3. MutexOK'
    BY <1>1, <1>2, <1>4, <2>2 DEF MutexOK
  <2> QED  BY <1>2, <2>2, <2>3 DEF Held
<1> QED  BY <1>3, <1>4

\* Every step keeps what the calls hold of the mutex in balance.
LEMMA ThreadInv ==
  ASSUME EndpointsInv, EndpointsNext
  PROVE  /\ MutexOK' /\ DoingOK' /\ LockInv'
         /\ doing'["loop"].at \in LoopAts /\ doing'["user"].at \in UserAts
         /\ past \subseteq past' /\ past' \subseteq Events /\ Alive
         /\ life' \in {"unborn", "failed", "up", "deinit", "aborted", "undefined"}
<1>1. ThreadStep
  BY ThreadKinds
<1>2. /\ MutexOK /\ DoingOK /\ doing["loop"].at \in LoopAts /\ doing["user"].at \in UserAts
      /\ LockInv /\ host' = host
  BY DEF EndpointsInv, EndpointsTypeOK, SocketsTypeOK, ServiceOK, MutexOK, DoingOK, Ats, LoopAts,
         UserAts, Threads, EndpointsNext
<1>3. /\ past \subseteq past' /\ past' \subseteq Events /\ Alive
      /\ life' \in {"unborn", "failed", "up", "deinit", "aborted", "undefined"}
  BY <1>1 DEF ThreadStep
<1>4. \A t \in Threads : Held(t) \in Nat
  BY <1>2 DEF MutexOK, Held
<1>5. CASE UNCHANGED <<mutex, doing>> /\ (host = "oto" /\ "kept" \in past' => "kept" \in past)
  <2>1. MutexOK' /\ DoingOK' /\ doing'["loop"].at \in LoopAts /\ doing'["user"].at \in UserAts
    BY <1>2, <1>5 DEF MutexOK, DoingOK
  <2>2. \A t \in Threads : Frames(t)' = Frames(t) /\ Held(t)' = Held(t)
    BY <1>5 DEF Frames, Held
  <2>3. LockInv'
    BY <1>2, <1>3, <1>5, <2>2 DEF LockInv
  <2> QED  BY <1>3, <2>1, <2>3
<1>6. ASSUME NEW t \in Threads, NEW at \in Ats, NEW c \in Conns \cup {NULL},
             Moves(t, at, c), host = "oto" /\ "kept" \in past' => "kept" \in past
      PROVE  /\ MutexOK' /\ DoingOK' /\ LockInv'
             /\ doing'["loop"].at \in LoopAts /\ doing'["user"].at \in UserAts
  <2>1. /\ DoingOK' /\ doing'[t].at = at
        /\ \A u \in Threads \ {t} : doing'[u] = doing[u]
    BY <1>2, <1>6 DEF Moves, Goes, DoingOK
  <2>2. doing'["loop"].at \in LoopAts /\ doing'["user"].at \in UserAts
    BY <1>2, <1>6, <2>1 DEF Moves, Threads
  <2>3. /\ Frames(t)' = Weight(t, at) /\ Weight(t, at) \in 0..2 /\ Frames(t) \in 0..2
        /\ \A u \in Threads \ {t} : Frames(u)' = Frames(u) /\ Frames(u) \in 0..2
    BY <2>1, FramesWeight DEF Weight
  <2>4. \A u \in Threads : Frames(u) <= Held(u)
    BY <1>2, <1>3 DEF LockInv
  <2>5. SUFFICES /\ MutexOK'
                 /\ Weight(t, at) <= Held(t)'
                 /\ Frames(t) = Held(t) /\ "kept" \notin past' => Weight(t, at) = Held(t)'
                 /\ \A u \in Threads \ {t} : Held(u)' = Held(u)
    <3> SUFFICES LockInv'
      BY <2>1, <2>2, <2>5
    <3>1. \A u \in Threads : Frames(u)' <= Held(u)'
      BY <2>3, <2>4, <2>5
    <3>2. ASSUME "kept" \notin past', NEW u \in Threads PROVE Frames(u)' = Held(u)'
      <4>1. \A v \in Threads : Frames(v) = Held(v)
        BY <1>2, <1>3, <3>2 DEF LockInv
      <4> QED  BY <2>3, <2>5, <3>2, <4>1
    <3> QED  BY <1>2, <1>6, <3>1, <3>2 DEF LockInv
  <2>6. CASE mutex' = mutex
    <3>1. MutexOK' /\ \A u \in Threads : Held(u)' = Held(u)
      BY <1>2, <2>6 DEF MutexOK, Held
    <3>2. CASE Weight(t, at) = Frames(t)
      BY <2>4, <3>1, <3>2
    <3>3. CASE Weight(t, at) = 0 /\ "kept" \in past'
      BY <1>4, <3>1, <3>3
    <3>4. CASE \E n \in {1, 2} : Lock(t, n)
      <4>1. PICK n \in {1, 2} : Lock(t, n)
        BY <3>4
      <4>2. Held(t)' = Held(t) + n /\ Held(t)' = Held(t)
        BY <1>2, <3>1, <4>1, LockFacts
      <4> QED  BY <1>4, <4>2
    <3>5. CASE Unlock(Frames(t)) /\ Frames(t) # 0
      <4>1. Frames(t) \in {1, 2} /\ Frames(t) <= Held(t)
        BY <2>3, <2>4, <3>5
      <4>2. Held(t)' = Held(t) - Frames(t) /\ Held(t)' = Held(t)
        BY <1>2, <3>1, <3>5, <4>1, UnlockFacts
      <4> QED  BY <1>4, <4>1, <4>2
    <3> QED  BY <1>6, <3>2, <3>3, <3>4, <3>5 DEF Moves
  <2>7. CASE Lock(t, 1) /\ Weight(t, at) = 0 /\ "kept" \in past'
    BY <1>2, <1>4, <2>7, LockFacts
  <2>8. ASSUME NEW n \in {1, 2}, Lock(t, n), Frames(t) = 0, Weight(t, at) = n
        PROVE  /\ MutexOK'
               /\ Weight(t, at) <= Held(t)'
               /\ Frames(t) = Held(t) /\ "kept" \notin past' => Weight(t, at) = Held(t)'
               /\ \A u \in Threads \ {t} : Held(u)' = Held(u)
    <3>1. /\ MutexOK' /\ Held(t)' = Held(t) + n
          /\ \A u \in Threads \ {t} : Held(u)' = 0 /\ Held(u) = 0
      BY <1>2, <2>8, LockFacts
    <3> QED  BY <1>4, <2>8, <3>1
  <2>9. CASE Unlock(Frames(t)) /\ Frames(t) # 0 /\ Weight(t, at) = 0
    <3>1. Frames(t) \in {1, 2} /\ Frames(t) <= Held(t)
      BY <2>3, <2>4, <2>9
    <3>2. /\ MutexOK' /\ Held(t)' = Held(t) - Frames(t)
          /\ \A u \in Threads \ {t} : Held(u)' = 0 /\ Held(u) = 0
      BY <1>2, <2>9, <3>1, UnlockFacts
    <3> QED  BY <1>4, <2>9, <3>1, <3>2
  <2> QED  BY <1>6, <2>6, <2>7, <2>8, <2>9 DEF Moves
<1>7. CASE life' = "aborted" /\ host = "client" /\ UNCHANGED doing /\ \E t \in Threads : Lock(t, 1)
  <2>1. MutexOK'
    BY <1>2, <1>7, LockFacts
  <2>2. LockInv'
    BY <1>2, <1>7 DEF LockInv, Alive
  <2> QED  BY <1>2, <1>3, <1>7, <2>1, <2>2 DEF DoingOK
<1> QED  BY <1>1, <1>3, <1>5, <1>6, <1>7 DEF ThreadStep

(***************************************************************************)
(* The service.                                                            *)
(***************************************************************************)

\* Neither the service nor the transfers are concerned; the loop may go on in
\* a job of the host.
JobGoesOn ==
  /\ UNCHANGED <<slot, inflight, owed>> /\ accepting' \in BOOLEAN
  /\ \/ doing'["loop"] = doing["loop"]
     \/ /\ doing["loop"].at \notin {"none", "transfer"}
        /\ doing'["loop"].at \notin {"none", "lock", "transfer"}

\* What a step does to the service.
ServiceStep ==
  \/ JobGoesOn
  \/ /\ host # "client" /\ PostOneshot(Listen, "read", HostJob)
     /\ UNCHANGED <<holder, skt, owed, doing, life>>
  \/ /\ host = "client" /\ PostOneshot(skt[local], "write", HostJob) /\ local # NULL
     /\ UNCHANGED <<holder, skt, owed, life>> /\ doing'["loop"] = doing["loop"]
  \/ \E t \in Threads, c \in Conns, op \in Ops : TransferAsync(t, c, op) /\ skt[c] \in Fds
  \/ \E fd \in Fds, op \in Ops :
       \/ TransferEnds(fd, op) \/ TransferGoesOn(fd, op) \/ CallHostJob(fd, op)
       \/ \E c \in Conns : CallTransfer(c, fd, op)
  \/ JobReturns

\* The steps of every host.
LEMMA SocketsService ==
  ASSUME EndpointsInv, SocketsStep
  PROVE  ServiceStep
<1>0. ServiceOK
  BY DEF EndpointsInv
<1>1. CASE (\E fd \in Fds : OtherOpens(fd)) \/ PeerConnects \/ StopService \/ AcceptFails
  BY <1>0, <1>1 DEF OtherOpens, PeerConnects, StopService, AcceptFails, Refuse, reactor, ServiceOK, ServiceStep, JobGoesOn
<1>2. ASSUME NEW t \in Threads, SyncReturns(t) PROVE ServiceStep
  <2>1. t = "user"
    BY <1>0, <1>2 DEF SyncReturns, ServiceOK, Threads
  <2> QED  BY <1>0, <1>2, <2>1 DEF SyncReturns, Goes, reactor, ServiceOK, ServiceStep, JobGoesOn
<1> QED  BY <1>1, <1>2 DEF SocketsStep, ServiceStep

\* The steps of the one-to-many server.
LEMMA OtmService ==
  ASSUME EndpointsInv, OtmNext, host = "otm"
  PROVE  ServiceStep
<1>0. ServiceOK /\ OtmInv /\ DoingOK /\ remotes \subseteq Conns
  BY DEF EndpointsInv, EndpointsTypeOK, SocketsTypeOK, DoingOK, Ats
<1>1. CASE OtmInit \/ OtmDeinit
  BY <1>0, <1>1 DEF OtmInit, ServerOpens, ServerFails, ServerClosesWild, OtmDeinit, reactor, ServiceOK,
              ServiceStep, JobGoesOn
<1>2. ASSUME NEW t \in Threads,
             \/ OtmUsesFreed(t) \/ \E wild \in Fds : OtmRefusesFreed(t, wild)
             \/ \E c \in Conns : OtmLooks(t, c) \/ OtmDisconnect(t, c)
      PROVE  ServiceStep
  BY <1>0, <1>2 DEF OtmUsesFreed, OtmRefusesFreed, OtmLooks, OtmDisconnect, reactor, ServiceOK, ServiceStep, JobGoesOn
<1>3. CASE OtmAcceptor
  BY <1>0, <1>3 DEF OtmAcceptor, Goes, DoingOK, Threads, reactor, ServiceOK, ServiceStep, JobGoesOn
<1>4. ASSUME NEW t \in Threads, OtmListenAsync(t) PROVE ServiceStep
  BY <1>4 DEF OtmListenAsync, kernel, ServiceStep
<1>5. ASSUME NEW t \in Threads,
             \/ OtmListenSync(t) \/ OtmRecvSyncReturns(t)
             \/ \E c \in Conns, at \in {"sync", "recv"} : OtmTransferSync(t, c, at)
      PROVE  ServiceStep
  <2>1. t = "user" /\ UNCHANGED <<slot, inflight, owed, accepting>>
    BY <1>0, <1>5 DEF OtmListenSync, OtmRecvSyncReturns, OtmTransferSync, TransferSync, MayWait, reactor, ServiceOK,
                Threads
  <2>2. doing'["loop"] = doing["loop"]
    BY <1>0, <1>5, <2>1 DEF OtmListenSync, OtmRecvSyncReturns, OtmTransferSync, TransferSync, Goes,
                DoingOK, Threads
  <2> QED  BY <1>0, <2>1, <2>2 DEF ServiceOK, ServiceStep, JobGoesOn
<1>6. ASSUME NEW t \in Threads, NEW refuse \in BOOLEAN, OtmAcceptorReturns(t, refuse)
      PROVE  ServiceStep
  BY <1>0, <1>6 DEF OtmAcceptorReturns, OtmLeavesAcceptor, Goes, DoingOK, Threads, reactor, ServiceOK, ServiceStep,
              JobGoesOn
<1>7. ASSUME NEW t \in Threads, NEW c \in Conns, NEW op \in Ops, OtmTransferAsync(t, c, op)
      PROVE  ServiceStep
  <2>1. skt[c] \in Fds
    BY <1>0, <1>7 DEF OtmTransferAsync, OtmHas, OtmInv, Alive
  <2> QED  BY <1>7, <2>1 DEF OtmTransferAsync, ServiceStep
<1>8. ASSUME NEW t \in Threads, NEW c \in Conns, NEW fd \in Fds, OtmAccept(t, c, fd)
      PROVE  ServiceStep
  BY <1>0, <1>8 DEF OtmAccept, Goes, DoingOK, Threads, reactor, ServiceOK, ServiceStep, JobGoesOn
<1>9. ASSUME NEW t \in Threads, OtmCall(t) PROVE ServiceStep
  BY <1>2, <1>4, <1>5, <1>6, <1>7, <1>8, <1>9 DEF OtmCall
<1> QED  BY <1>1, <1>3, <1>9, SocketsService DEF OtmNext

\* The steps of the one-to-one server.
LEMMA OtoService ==
  ASSUME EndpointsInv, OtoNext, host = "oto"
  PROVE  ServiceStep
<1>0. ServiceOK /\ OtoInv /\ DoingOK /\ otoRemote \in Conns \cup {NULL}
  BY DEF EndpointsInv, EndpointsTypeOK, SocketsTypeOK, DoingOK, Ats
<1>1. CASE OtoInit \/ OtoDeinit
  BY <1>0, <1>1 DEF OtoInit, ServerOpens, ServerFails, ServerClosesWild, OtoDeinit, reactor, ServiceOK,
              ServiceStep, JobGoesOn
<1>2. ASSUME NEW t \in Threads, OtoDisconnect(t) PROVE ServiceStep
  BY <1>0, <1>2 DEF OtoDisconnect, reactor, ServiceOK, ServiceStep, JobGoesOn
<1>3. CASE OtoAcceptor
  BY <1>0, <1>3 DEF OtoAcceptor, Goes, DoingOK, Threads, reactor, ServiceOK, ServiceStep, JobGoesOn
<1>4. ASSUME NEW t \in Threads, OtoListenAsync(t) PROVE ServiceStep
  BY <1>4 DEF OtoListenAsync, kernel, ServiceStep
<1>5. ASSUME NEW t \in Threads, OtoListenSync(t) \/ OtoTransferSync(t) PROVE ServiceStep
  <2>1. t = "user" /\ UNCHANGED <<slot, inflight, owed, accepting>>
    BY <1>5 DEF OtoListenSync, OtoTransferSync, TransferSync, MayWait, reactor
  <2>2. doing'["loop"] = doing["loop"]
    BY <1>0, <1>5, <2>1 DEF OtoListenSync, OtoTransferSync, TransferSync, Goes, DoingOK, Threads
  <2> QED  BY <1>0, <2>1, <2>2 DEF ServiceOK, ServiceStep, JobGoesOn
<1>6. ASSUME NEW t \in Threads, NEW refuse \in BOOLEAN, OtoAcceptorReturns(t, refuse)
      PROVE  ServiceStep
  BY <1>0, <1>6 DEF OtoAcceptorReturns, Goes, DoingOK, Threads, reactor, ServiceOK, ServiceStep, JobGoesOn
<1>7. ASSUME NEW t \in Threads, NEW op \in Ops, OtoTransferAsync(t, op) PROVE ServiceStep
  <2>1. otoRemote \in Conns /\ skt[otoRemote] \in Fds
    BY <1>0, <1>7 DEF OtoTransferAsync, MayCall, OtoInv, Alive
  <2> QED  BY <1>7, <2>1 DEF OtoTransferAsync, ServiceStep
<1>8. ASSUME NEW t \in Threads, NEW c \in Conns, NEW fd \in Fds, OtoAccept(t, c, fd)
      PROVE  ServiceStep
  BY <1>0, <1>8 DEF OtoAccept, Goes, DoingOK, Threads, reactor, ServiceOK, ServiceStep, JobGoesOn
<1>9. ASSUME NEW t \in Threads, OtoCall(t) PROVE ServiceStep
  BY <1>2, <1>4, <1>5, <1>6, <1>7, <1>8, <1>9 DEF OtoCall
<1> QED  BY <1>1, <1>3, <1>9, SocketsService DEF OtoNext

\* The steps of the client.
LEMMA ClientService ==
  ASSUME EndpointsInv, ClientNext, host = "client"
  PROVE  ServiceStep
<1>0. ServiceOK /\ ClientInv /\ DoingOK /\ remote \in Conns \cup {NULL}
  BY DEF EndpointsInv, EndpointsTypeOK, SocketsTypeOK, DoingOK, Ats
<1>1. CASE ClientDeinit
  BY <1>0, <1>1 DEF ClientDeinit, reactor, ServiceOK, ServiceStep, JobGoesOn
<1>2. ASSUME NEW t \in Threads,
             \/ ClientDisconnect(t)
             \/ \E c \in Conns, fd \in Fds : ClientNoSocket(t, c, fd) \/ ClientAborts(t, c, fd)
      PROVE  ServiceStep
  BY <1>0, <1>2 DEF ClientDisconnect, ClientNoSocket, ClientAborts, reactor, ServiceOK, ServiceStep, JobGoesOn
<1>3. ASSUME NEW err \in BOOLEAN, ClientConnector(err) PROVE ServiceStep
  BY <1>0, <1>3 DEF ClientConnector, Goes, DoingOK, Threads, reactor, ServiceOK, ServiceStep, JobGoesOn
<1>4. ASSUME NEW t \in Threads,
             \/ ClientIsConnected(t) \/ ClientRefused(t) \/ ClientRefusedAsync(t)
             \/ ClientKeepsLock(t) \/ ClientTransferSync(t)
             \/ \E errno \in BOOLEAN : ClientConnects(t, errno)
             \/ \E c \in Conns, fd \in Fds, at \in Ats : ClientInitSocket(t, c, fd, at)
      PROVE  ServiceStep
  <2>1. t = "user" /\ UNCHANGED <<slot, inflight, owed, accepting>>
    BY <1>0, <1>4 DEF ClientIsConnected, ClientRefused, ClientRefusedAsync, ClientKeepsLock,
          ClientTransferSync, TransferSync, ClientConnects, ClientInitSocket, MayWait, reactor, ServiceOK, Threads
  <2>2. doing'["loop"] = doing["loop"]
    BY <1>0, <1>4, <2>1 DEF ClientIsConnected, ClientRefused, ClientRefusedAsync, ClientKeepsLock,
          ClientTransferSync, TransferSync, ClientConnects, ClientInitSocket, Goes, DoingOK, Threads
  <2> QED  BY <1>0, <2>1, <2>2 DEF ServiceOK, ServiceStep, JobGoesOn
<1>5. ASSUME NEW t \in Threads, ClientPostsConnector(t) PROVE ServiceStep
  <2>1. t = "user" /\ local # NULL
    BY <1>0, <1>5 DEF ClientPostsConnector, ServiceOK, Threads, ClientInv, Alive
  <2> QED  BY <1>5, <2>1 DEF ClientPostsConnector, Goes, kernel, ServiceStep
<1>6. ASSUME NEW t \in Threads, ClientCallbackReturns(t) PROVE ServiceStep
  BY <1>0, <1>6 DEF ClientCallbackReturns, Goes, DoingOK, Threads, reactor, ServiceOK, ServiceStep, JobGoesOn
<1>7. ASSUME NEW t \in Threads, NEW op \in Ops, ClientTransferAsync(t, op) PROVE ServiceStep
  <2>1. remote \in Conns /\ skt[remote] \in Fds
    BY <1>0, <1>7 DEF ClientTransferAsync, MayCall, ClientInv, Alive
  <2> QED  BY <1>7, <2>1 DEF ClientTransferAsync, ServiceStep
<1>8. ASSUME NEW t \in Threads, ClientCall(t) PROVE ServiceStep
  <2>1. CASE \E c \in Conns, fd \in Fds : ClientConnectSync(t, c, fd) \/ ClientConnectAsync(t, c, fd)
    BY <1>4, <2>1 DEF ClientConnectSync, ClientConnectAsync, Ats
  <2> QED  BY <1>2, <1>4, <1>5, <1>6, <1>7, <1>8, <2>1 DEF ClientCall
<1> QED  BY <1>1, <1>3, <1>8, SocketsService DEF ClientNext

\* Every step of a host is one of these.
LEMMA ServiceKinds ==
  ASSUME EndpointsInv, EndpointsNext
  PROVE  ServiceStep
  BY OtmService, OtoService, ClientService DEF EndpointsNext

SlotsOK == slot \in [Fds -> [Ops -> [job : Jobs \cup {NULL}, oneshot : BOOLEAN]]]

\* A post fills its slot, or nothing.
LEMMA PostFacts ==
  ASSUME SlotsOK, NEW fd, NEW op \in Ops, NEW job \in Jobs, PostOneshot(fd, op, job)
  PROVE  /\ SlotsOK' /\ UNCHANGED <<accepting, inflight>>
         /\ \A f \in Fds, o \in Ops :
              \/ slot'[f][o] = slot[f][o]
              \/ /\ f = fd /\ o = op /\ accepting /\ slot[f][o].job = NULL
                 /\ slot'[f][o].job = job /\ slot'[f][o].oneshot = TRUE
<1> DEFINE e == [job |-> job, oneshot |-> TRUE]
<1>1. CASE UNCHANGED reactor
  BY <1>1 DEF reactor, SlotsOK
<1>2. CASE Post(fd, op, TRUE, job)
  <2>1. /\ accepting /\ slot[fd][op].job = NULL /\ slot' = [slot EXCEPT ![fd][op] = e]
        /\ UNCHANGED <<accepting, inflight>>
    BY <1>2 DEF Post
  <2>2. e \in [job : Jobs \cup {NULL}, oneshot : BOOLEAN] /\ e.job = job /\ e.oneshot = TRUE
    OBVIOUS
  <2> HIDE DEF e
  <2>3. SlotsOK'
    BY <2>1, <2>2 DEF SlotsOK
  <2>4. ASSUME NEW f \in Fds, NEW o \in Ops
        PROVE  slot'[f][o] = slot[f][o] \/ (f = fd /\ o = op /\ slot'[f][o] = e)
    BY <2>1 DEF SlotsOK
  <2> QED  BY <2>1, <2>2, <2>3, <2>4
<1> QED  BY <1>1, <1>2 DEF PostOneshot

\* A call empties its slot if the job is a oneshot one.
LEMMA CallFacts ==
  ASSUME SlotsOK, NEW fd \in Fds, NEW op \in Ops, Call(fd, op)
  PROVE  /\ SlotsOK' /\ accepting' = accepting /\ inflight = {}
         /\ inflight' = {<<fd, op, slot[fd][op].job>>}
         /\ \A f \in Fds, o \in Ops :
              slot'[f][o] = slot[f][o] \/ (slot'[f][o].job = NULL /\ ~slot'[f][o].oneshot)
         /\ slot[fd][op].oneshot => slot'[fd][op].job = NULL
<1>1. /\ inflight = {} /\ inflight' = {<<fd, op, slot[fd][op].job>>} /\ accepting' = accepting
      /\ slot' = IF slot[fd][op].oneshot THEN [slot EXCEPT ![fd][op] = Empty] ELSE slot
  BY DEF Call
<1>2. Empty \in [job : Jobs \cup {NULL}, oneshot : BOOLEAN] /\ Empty.job = NULL /\ ~Empty.oneshot
  BY DEF Empty
<1>3. CASE slot[fd][op].oneshot
  <2>1. slot' = [slot EXCEPT ![fd][op] = Empty]
    BY <1>1, <1>3
  <2>2. SlotsOK'
    BY <1>2, <2>1 DEF SlotsOK
  <2>3. slot'[fd][op] = Empty
    BY <2>1 DEF SlotsOK
  <2>4. \A f \in Fds, o \in Ops : slot'[f][o] = slot[f][o] \/ slot'[f][o] = Empty
    BY <2>1 DEF SlotsOK
  <2> QED  BY <1>1, <1>2, <2>2, <2>3, <2>4
<1>4. CASE ~slot[fd][op].oneshot
  BY <1>1, <1>4 DEF SlotsOK
<1> QED  BY <1>3, <1>4

\* Every step keeps the types of the service.
LEMMA ServiceInv ==
  ASSUME EndpointsInv, EndpointsNext
  PROVE  ServiceOK' /\ owed' \subseteq Conns \X Ops
<1>0. ServiceOK /\ SlotsOK /\ DoingOK /\ owed \subseteq Conns \X Ops
  BY DEF EndpointsInv, EndpointsTypeOK, SocketsTypeOK, DoingOK, Ats, ServiceOK, SlotsOK
<1>1. doing'["loop"].at \in LoopAts /\ doing'["user"].at \in UserAts
  BY ThreadInv
<1>2. SUFFICES /\ accepting' \in BOOLEAN /\ SlotsOK' /\ owed' \subseteq Conns \X Ops
               /\ inflight' = {} => doing'["loop"].at = "none"
               /\ doing'["loop"].at = "transfer" => doing'["loop"].conn \in Conns
  BY <1>1, <1>2 DEF ServiceOK, SlotsOK, LoopAts, UserAts
<1>3. /\ accepting \in BOOLEAN /\ (inflight = {} => doing["loop"].at = "none")
      /\ doing["loop"].at = "transfer" => doing["loop"].conn \in Conns
  BY <1>0 DEF ServiceOK
<1>4. HostJob \in Jobs /\ "read" \in Ops /\ "write" \in Ops /\ Conns \subseteq Jobs
  BY SocketsAssumption DEF Ops, Conns
<1>5. CASE JobGoesOn
  BY <1>0, <1>3, <1>5 DEF JobGoesOn, SlotsOK
<1>6. CASE PostOneshot(Listen, "read", HostJob) /\ UNCHANGED <<owed, doing>>
  BY <1>0, <1>3, <1>4, <1>6, PostFacts
<1>7. CASE /\ PostOneshot(skt[local], "write", HostJob) /\ UNCHANGED owed
           /\ doing'["loop"] = doing["loop"]
  BY <1>0, <1>3, <1>4, <1>7, PostFacts
<1>8. ASSUME NEW t \in Threads, NEW c \in Conns, NEW op \in Ops, TransferAsync(t, c, op)
      PROVE  /\ accepting' \in BOOLEAN /\ SlotsOK' /\ owed' \subseteq Conns \X Ops
             /\ inflight' = {} => doing'["loop"].at = "none"
             /\ doing'["loop"].at = "transfer" => doing'["loop"].conn \in Conns
  <2>1. /\ PostOneshot(skt[c], op, c) /\ UNCHANGED doing
        /\ owed' = owed \/ owed' = owed \cup {<<c, op>>}
    BY <1>8 DEF TransferAsync
  <2>2. SlotsOK' /\ UNCHANGED <<accepting, inflight>>
    BY <1>0, <1>4, <2>1, PostFacts
  <2> QED  BY <1>0, <1>3, <2>1, <2>2
<1>9. ASSUME NEW fd \in Fds, NEW op \in Ops,
             TransferEnds(fd, op) \/ TransferGoesOn(fd, op) \/ CallHostJob(fd, op)
      PROVE  /\ accepting' \in BOOLEAN /\ SlotsOK' /\ owed' \subseteq Conns \X Ops
             /\ inflight' = {} => doing'["loop"].at = "none"
             /\ doing'["loop"].at = "transfer" => doing'["loop"].conn \in Conns
  <2>1. CASE TransferEnds(fd, op)
    BY <1>0, <1>3, <2>1 DEF TransferEnds, Goes, reactor, DoingOK, SlotsOK, Threads
  <2>2. CASE TransferGoesOn(fd, op)
    <3>1. /\ PostOneshot(fd, op, doing["loop"].conn) /\ doing["loop"].conn \in Jobs /\ owed' = owed
          /\ inflight # {} /\ doing'["loop"].at = "return"
      BY <1>0, <1>3, <1>4, <2>2 DEF TransferGoesOn, Goes, DoingOK, Threads
    <3>2. SlotsOK' /\ UNCHANGED <<accepting, inflight>>
      BY <1>0, <3>1, PostFacts
    <3> QED  BY <1>0, <1>3, <3>1, <3>2
  <2>3. CASE CallHostJob(fd, op)
    <3>1. SlotsOK' /\ accepting' = accepting /\ inflight' # {}
      BY <1>0, <2>3, CallFacts DEF CallHostJob
    <3>2. doing'["loop"].at = "lock" /\ owed' = owed
      BY <1>0, <2>3 DEF CallHostJob, Goes, DoingOK, Threads
    <3> QED  BY <1>0, <1>3, <3>1, <3>2
  <2> QED  BY <1>9, <2>1, <2>2, <2>3
<1>10. ASSUME NEW fd \in Fds, NEW op \in Ops, NEW c \in Conns, CallTransfer(c, fd, op)
       PROVE  /\ accepting' \in BOOLEAN /\ SlotsOK' /\ owed' \subseteq Conns \X Ops
              /\ inflight' = {} => doing'["loop"].at = "none"
              /\ doing'["loop"].at = "transfer" => doing'["loop"].conn \in Conns
  <2>1. SlotsOK' /\ accepting' = accepting /\ inflight' # {}
    BY <1>0, <1>10, CallFacts DEF CallTransfer
  <2>2. doing'["loop"].conn = c /\ owed' = owed
    BY <1>0, <1>10 DEF CallTransfer, Goes, DoingOK, Threads
  <2> QED  BY <1>0, <1>3, <2>1, <2>2
<1>11. CASE JobReturns
  BY <1>0, <1>3, <1>11 DEF JobReturns, Return, Goes, DoingOK, SlotsOK, Threads
<1> QED  BY <1>5, <1>6, <1>7, <1>8, <1>9, <1>10, <1>11, ServiceKinds DEF ServiceStep

(***************************************************************************)
(* The descriptors.                                                        *)
(***************************************************************************)

Holders == Conns \cup {NULL, "listen", "other"}

\* A connection is closed: it holds its number, or nobody does who matters.
Frees(c) ==
  /\ skt[c] \in Fds /\ skt' = skt /\ holder' = [holder EXCEPT ![skt[c]] = NULL]
  /\ holder[skt[c]] \in {c, NULL, "other"} /\ BusyNote(c) \subseteq past' /\ life' = "up"

\* What a step does to the descriptors.
KernelStep ==
  /\ hurt' \in BOOLEAN /\ (hurt' => past' \cap {"disconnected", "setsockopt failed", "refused gone"} # {})
  /\ life' = "unborn" =>
       (\E fd \in Fds : OtherOpens(fd)) /\ UNCHANGED <<otmvars, otovars, clientvars>>
  /\ life' = "undefined" => past' \cap {"raced", "refused gone"} # {}
  /\ life' = "failed" /\ "setsockopt failed" \notin past' => life = "unborn" /\ UNCHANGED holder
  /\ \/ UNCHANGED <<holder, skt>> /\ life' # "deinit"
     \/ \E c \in Conns, fd \in Fds : Opens(c, fd) /\ life' \in {"up", "aborted"}
     \/ \E c \in Conns : Frees(c)
     \/ \E fd \in Fds : OtherOpens(fd)
     \/ ServerOpens /\ host # "client"
     \/ (\E wild \in Fds : ServerClosesWild(wild)) /\ host # "client"
     \/ /\ life' \in {"deinit", "undefined"} /\ skt' = skt
        /\ holder' \in [Fds -> Holders] /\ NothingLeft'
        /\ \A fd \in Fds : holder'[fd] \in {holder[fd], NULL}

\* The steps of every host.
LEMMA SocketsKernel ==
  ASSUME EndpointsInv, hurt = FALSE, SocketsStep, UNCHANGED <<otmvars, otovars, clientvars>>
  PROVE  KernelStep
<1>1. CASE \E fd \in Fds : OtherOpens(fd)
  BY <1>1 DEF OtherOpens, KernelStep
<1>2. CASE ~\E fd \in Fds : OtherOpens(fd)
  <2>1. life = "up" /\ life' \in {"up", "aborted"} /\ UNCHANGED kernel
    BY <1>2 DEF SocketsStep, SyncReturns, TransferEnds, TransferGoesOn, CallHostJob, CallTransfer,
                JobReturns, PeerConnects, StopService, AcceptFails
  <2> QED  BY <2>1 DEF KernelStep, kernel
<1> QED  BY <1>1, <1>2

\* A server is set up.
LEMMA ServerKernel ==
  ASSUME EndpointsInv, hurt = FALSE, host # "client",
         ServerOpens \/ ServerFails \/ \E wild \in Fds : ServerClosesWild(wild)
  PROVE  KernelStep
<1>1. CASE ServerOpens
  BY <1>1 DEF ServerOpens, KernelStep
<1>2. CASE ServerFails
  BY <1>2 DEF ServerFails, kernel, KernelStep
<1>3. ASSUME NEW wild \in Fds, ServerClosesWild(wild) PROVE KernelStep
  <2>1. life' = "failed" /\ hurt' = (holder[wild] # NULL) /\ "setsockopt failed" \in past'
    BY <1>3 DEF ServerClosesWild, Note
  <2> QED  BY <1>3, <2>1 DEF KernelStep
<1> QED  BY <1>1, <1>2, <1>3

\* The steps of the one-to-many server.
LEMMA OtmKernel ==
  ASSUME EndpointsInv, hurt = FALSE, OtmNext, host = "otm", UNCHANGED <<otovars, clientvars>>
  PROVE  KernelStep
<1>0. /\ OtmInv /\ KernelInv /\ remotes \subseteq Conns /\ holder \in [Fds -> Holders]
      /\ skt \in [Conns -> Fds \cup {NULL}]
  BY DEF EndpointsInv, EndpointsTypeOK, SocketsTypeOK, Holders
<1>1. CASE OtmInit
  BY <1>1, ServerKernel DEF OtmInit
<1>2. CASE SocketsStep /\ UNCHANGED otmvars
  BY <1>2, SocketsKernel
<1>3. CASE OtmDeinit
  <2>1. /\ life = "up" /\ life' = "deinit" /\ skt' = skt /\ past' = past
        /\ holder' = [fd \in Fds |-> IF fd = Listen \/ \E c \in remotes : skt[c] = fd
                                     THEN NULL ELSE holder[fd]]
        /\ hurt' = (\E c \in remotes : holder[skt[c]] \notin {c, NULL})
    BY <1>3 DEF OtmDeinit, MayDeinit, MayWait, OtmClosesAll
  <2>2. /\ \A fd \in Fds : holder[fd] \in Conns => holder[fd] \in remotes
        /\ \A c \in remotes : skt[c] \in Fds /\ holder[skt[c]] = c
    BY <1>0, <2>1 DEF OtmInv, Alive
  <2>3. hurt' = FALSE
    BY <2>1, <2>2
  <2>4. \A fd \in Fds : holder'[fd] \in {holder[fd], NULL} /\ holder[fd] \in Holders
    BY <1>0, <2>1
  <2>5. holder' \in [Fds -> Holders]
    BY <2>1, <2>4 DEF Holders
  <2>6. \A fd \in Fds : holder'[fd] \in {NULL, "other"}
    <3> SUFFICES ASSUME NEW fd \in Fds, fd # Listen, ~\E c \in remotes : skt[c] = fd
                 PROVE  holder[fd] \in {NULL, "other"}
      BY <2>1
    <3>1. holder[fd] \notin Conns
      BY <1>0, <2>2 DEF KernelInv
    <3>2. holder[fd] # "listen"
      BY <1>0 DEF KernelInv
    <3> QED  BY <2>4, <3>1, <3>2 DEF Holders
  <2>7. NothingLeft'
    BY <2>6 DEF NothingLeft
  <2> QED  BY <2>1, <2>3, <2>4, <2>5, <2>7 DEF KernelStep
<1>4. CASE OtmAcceptor
  BY <1>4 DEF OtmAcceptor, kernel, KernelStep
<1>5. ASSUME NEW t \in Threads,
             \/ OtmListenAsync(t) \/ OtmListenSync(t) \/ OtmRecvSyncReturns(t) \/ OtmAcceptorReturns(t, FALSE)
             \/ \E c \in Conns : \/ OtmLooks(t, c) \/ \E op \in Ops : OtmTransferAsync(t, c, op)
                                 \/ \E at \in {"sync", "recv"} : OtmTransferSync(t, c, at)
      PROVE  KernelStep
  <2>1. life = "up" /\ life' = "up" /\ UNCHANGED kernel
    BY <1>5 DEF OtmListenAsync, OtmListenSync, OtmRecvSyncReturns, OtmAcceptorReturns, OtmLooks,
                OtmMayCall, MayCall, MayWait, OtmTransferAsync, TransferAsync, OtmHas, OtmTransferSync,
                TransferSync
  <2> QED  BY <2>1 DEF KernelStep, kernel
<1>6. ASSUME NEW t \in Threads, OtmUsesFreed(t) PROVE KernelStep
  <2>1. life = "up" /\ life' = "undefined" /\ UNCHANGED <<kernel, past>> /\ looked[t] # NULL
        /\ looked[t] \notin remotes
    BY <1>6 DEF OtmUsesFreed
  <2>2. "raced" \in past
    BY <1>0, <2>1 DEF OtmInv, Alive
  <2> QED  BY <2>1, <2>2 DEF KernelStep, kernel
<1>7. ASSUME NEW c \in remotes, OtmCloses(c), life = "up", life' = "up" PROVE KernelStep
  <2>1. c \in Conns /\ skt[c] \in Fds /\ holder[skt[c]] = c
    BY <1>0, <1>7 DEF OtmInv, Alive
  <2>2. Frees(c) /\ hurt' = FALSE
    BY <1>7, <2>1 DEF OtmCloses, Closes, Note, Frees
  <2> QED  BY <1>7, <2>1, <2>2 DEF KernelStep
<1>8. ASSUME NEW t \in Threads, OtmAcceptorReturns(t, TRUE) PROVE KernelStep
  <2>1. doing[t].conn \in remotes /\ OtmCloses(doing[t].conn) /\ life = "up" /\ life' = "up"
    BY <1>8 DEF OtmAcceptorReturns
  <2> QED  BY <1>7, <2>1
<1>9. ASSUME NEW t \in Threads, NEW c \in Conns, OtmDisconnect(t, c) PROVE KernelStep
  BY <1>7, <1>9 DEF OtmDisconnect, OtmHas
<1>10. ASSUME NEW t \in Threads, NEW c \in Conns, NEW fd \in Fds, OtmAccept(t, c, fd)
       PROVE  KernelStep
  <2>1. Opens(c, fd) /\ life = "up" /\ life' = "up" /\ hurt' = FALSE
    BY <1>10 DEF OtmAccept, Opens
  <2> QED  BY <2>1 DEF KernelStep
<1>10a. ASSUME NEW t \in Threads, NEW wild \in Fds, OtmRefusesFreed(t, wild) PROVE KernelStep
  <2>1. /\ life' = "undefined" /\ skt' = skt /\ "refused gone" \in past' /\ hurt' \in BOOLEAN
        /\ holder' = [holder EXCEPT ![wild] = NULL]
    BY <1>10a DEF OtmRefusesFreed, Note
  <2>2. holder' \in [Fds -> Holders] /\ \A fd \in Fds : holder'[fd] \in {holder[fd], NULL}
    BY <1>0, <2>1 DEF Holders
  <2>3. NothingLeft'
    BY <2>1 DEF NothingLeft
  <2> QED  BY <2>1, <2>2, <2>3 DEF KernelStep
<1>11. ASSUME NEW t \in Threads, OtmCall(t) PROVE KernelStep
  BY <1>5, <1>6, <1>8, <1>9, <1>10, <1>10a, <1>11 DEF OtmCall
<1> QED  BY <1>1, <1>2, <1>3, <1>4, <1>11 DEF OtmNext

\* The steps of the one-to-one server.
LEMMA OtoKernel ==
  ASSUME EndpointsInv, hurt = FALSE, OtoNext, host = "oto", UNCHANGED <<otmvars, clientvars>>
  PROVE  KernelStep
<1>0. /\ OtoInv /\ KernelInv /\ otoRemote \in Conns \cup {NULL} /\ holder \in [Fds -> Holders]
      /\ skt \in [Conns -> Fds \cup {NULL}] /\ otoConnected \in BOOLEAN
  BY DEF EndpointsInv, EndpointsTypeOK, SocketsTypeOK, Holders
<1>1. CASE OtoInit
  BY <1>1, ServerKernel DEF OtoInit
<1>2. CASE SocketsStep /\ UNCHANGED otovars
  BY <1>2, SocketsKernel
<1>3. CASE OtoDeinit
  <2> DEFINE f == IF otoConnected THEN skt[otoRemote] ELSE Listen
  <2>1. /\ life = "up" /\ life' = "deinit" /\ skt' = skt /\ past' = past
        /\ holder' = [holder EXCEPT ![Listen] = NULL, ![f] = NULL]
        /\ hurt' = (otoConnected /\ holder[f] \notin {otoRemote, NULL})
    BY <1>3 DEF OtoDeinit, MayDeinit, MayWait
  <2>2. /\ otoConnected => otoRemote # NULL /\ skt[otoRemote] \in Fds
        /\ otoConnected /\ "disconnected" \notin past => holder[skt[otoRemote]] = otoRemote
        /\ "overlap" \notin past =>
             \A fd \in Fds : holder[fd] \in Conns => otoConnected /\ holder[fd] = otoRemote
    BY <1>0, <2>1 DEF OtoInv, Alive
  <2>3. hurt' \in BOOLEAN /\ (hurt' => "disconnected" \in past')
    BY <2>1, <2>2
  <2>4. f \in Fds /\ Listen \in Fds
    BY <2>2, SocketsAssumption
  <2> HIDE DEF f
  <2>5. /\ holder' \in [Fds -> Holders]
        /\ \A fd \in Fds : holder'[fd] = IF fd \in {f, Listen} THEN NULL ELSE holder[fd]
    BY <1>0, <2>1, <2>4 DEF Holders
  <2>6. NothingLeft'
    <3> SUFFICES ASSUME "overlap" \notin past, NEW fd \in Fds, fd \notin {f, Listen}
                 PROVE  holder[fd] \in {NULL, "other"}
      BY <2>1, <2>5 DEF NothingLeft
    <3>1. holder[fd] \notin Conns
      <4> SUFFICES ASSUME holder[fd] \in Conns PROVE FALSE
        OBVIOUS
      <4>1. otoConnected /\ holder[fd] = otoRemote /\ skt[holder[fd]] = fd
        BY <1>0, <2>2 DEF KernelInv
      <4> QED  BY <4>1 DEF f
    <3>2. holder[fd] # "listen" /\ holder[fd] \in Holders
      BY <1>0 DEF KernelInv
    <3> QED  BY <3>1, <3>2 DEF Holders
  <2> QED  BY <2>1, <2>3, <2>5, <2>6 DEF KernelStep
<1>4. CASE OtoAcceptor
  BY <1>4 DEF OtoAcceptor, kernel, KernelStep
<1>5. ASSUME NEW t \in Threads,
             \/ OtoListenAsync(t) \/ OtoListenSync(t) \/ OtoAcceptorReturns(t, FALSE)
             \/ OtoTransferSync(t) \/ \E op \in Ops : OtoTransferAsync(t, op)
      PROVE  KernelStep
  <2>1. life = "up" /\ life' = "up" /\ UNCHANGED kernel
    BY <1>5 DEF OtoListenAsync, OtoListenSync, OtoAcceptorReturns, MayCall, MayWait,
                OtoTransferAsync, TransferAsync, OtoTransferSync, TransferSync
  <2> QED  BY <2>1 DEF KernelStep, kernel
<1>6. ASSUME otoRemote # NULL, Closes(otoRemote), OtoBusyNote \subseteq past',
             life = "up", life' = "up",
             "disconnected" \in past' \/ holder[skt[otoRemote]] = otoRemote
      PROVE  KernelStep
  <2>1. /\ otoRemote \in Conns /\ skt[otoRemote] \in Fds
        /\ holder[skt[otoRemote]] \in {otoRemote, NULL, "other"}
    BY <1>0, <1>6 DEF OtoInv, Alive
  <2>2. Frees(otoRemote)
    BY <1>6, <2>1 DEF Closes, Frees, OtoBusyNote
  <2>3. hurt' \in BOOLEAN /\ (hurt' => "disconnected" \in past')
    BY <1>6 DEF Closes
  <2> QED  BY <1>6, <2>1, <2>2, <2>3 DEF KernelStep
<1>7. ASSUME NEW t \in Threads, OtoAcceptorReturns(t, TRUE) PROVE KernelStep
  <2>1. /\ OtoCloses /\ past' = past \cup OtoBusyNote /\ life = "up" /\ life' = "up"
        /\ doing[t].at = "callback"
    BY <1>7 DEF OtoAcceptorReturns, OtoRefuses, Note
  <2>2. otoRemote # NULL /\ ("disconnected" \in past \/ holder[skt[otoRemote]] = otoRemote)
    BY <1>0, <2>1 DEF OtoInv, Alive
  <2> QED  BY <1>6, <2>1, <2>2 DEF OtoCloses
<1>8. ASSUME NEW t \in Threads, OtoDisconnect(t) PROVE KernelStep
  <2>1. /\ OtoCloses /\ past' = past \cup ({"disconnected"} \cup OtoBusyNote)
        /\ life = "up" /\ life' = "up"
    BY <1>8 DEF OtoDisconnect, MayCall, Note
  <2>2. CASE otoRemote = NULL
    BY <2>1, <2>2 DEF OtoCloses, KernelStep
  <2>3. CASE otoRemote # NULL
    BY <1>6, <2>1, <2>3 DEF OtoCloses
  <2> QED  BY <2>2, <2>3
<1>9. ASSUME NEW t \in Threads, NEW c \in Conns, NEW fd \in Fds, OtoAccept(t, c, fd)
      PROVE  KernelStep
  <2>1. Opens(c, fd) /\ life = "up" /\ life' = "up" /\ hurt' = FALSE
    BY <1>9 DEF OtoAccept, Opens
  <2> QED  BY <2>1 DEF KernelStep
<1>10. ASSUME NEW t \in Threads, OtoCall(t) PROVE KernelStep
  BY <1>5, <1>7, <1>8, <1>9, <1>10 DEF OtoCall
<1> QED  BY <1>1, <1>2, <1>3, <1>4, <1>10 DEF OtoNext

\* The steps of the client.
LEMMA ClientKernel ==
  ASSUME EndpointsInv, hurt = FALSE, ClientNext, host = "client", UNCHANGED <<otmvars, otovars>>
  PROVE  KernelStep
<1>0. /\ ClientInv /\ KernelInv /\ local \in Conns \cup {NULL} /\ holder \in [Fds -> Holders]
      /\ skt \in [Conns -> Fds \cup {NULL}] /\ NULL \notin Conns
  BY SocketsAssumption DEF EndpointsInv, EndpointsTypeOK, SocketsTypeOK, Holders, Conns
<1>1. CASE SocketsStep /\ UNCHANGED clientvars
  BY <1>1, SocketsKernel
<1>2. ASSUME ClientCloses, local # NULL, life = "up"
      PROVE  /\ local \in Conns /\ skt[local] \in Fds /\ holder[skt[local]] = local
             /\ hurt' = FALSE /\ skt' = skt /\ holder' = [holder EXCEPT ![skt[local]] = NULL]
             /\ past' = past \cup BusyNote(local)
  <2>1. local \in Conns /\ skt[local] \in Fds /\ holder[skt[local]] = local
    BY <1>0, <1>2 DEF ClientInv, Alive
  <2> QED  BY <1>2, <2>1 DEF ClientCloses, Closes, Note
<1>3. ASSUME ClientCloses, local # NULL, life = "up", life' = "up" PROVE KernelStep
  <2>1. Frees(local)
    BY <1>2, <1>3 DEF Frees
  <2> QED  BY <1>2, <1>3, <2>1 DEF KernelStep
<1>4. CASE ClientDeinit
  <2>1. life = "up" /\ life' = "deinit" /\ past \subseteq past'
    BY <1>4 DEF ClientDeinit, MayDeinit, MayWait, ClientCloses, Note
  <2>2. "setsockopt failed" \notin past => \A fd \in Fds : holder[fd] \in Conns => holder[fd] = local
    BY <1>0, <2>1 DEF ClientInv, Alive
  <2>3. \A fd \in Fds : holder[fd] # "listen" /\ holder[fd] \in Holders
    BY <1>0 DEF KernelInv
  <2>4. CASE local = NULL
    <3>1. UNCHANGED kernel
      BY <1>4, <2>4 DEF ClientDeinit
    <3>2. NothingLeft'
      BY <1>0, <2>1, <2>2, <2>3, <2>4, <3>1 DEF NothingLeft, Holders, kernel
    <3> QED  BY <1>0, <2>1, <3>1, <3>2 DEF KernelStep, kernel
  <2>5. CASE local # NULL
    <3>1. ClientCloses
      BY <1>4, <2>5 DEF ClientDeinit
    <3>2. /\ hurt' = FALSE /\ skt' = skt /\ skt[local] \in Fds
          /\ holder' = [holder EXCEPT ![skt[local]] = NULL]
      BY <1>2, <2>1, <2>5, <3>1
    <3>3. /\ holder' \in [Fds -> Holders]
          /\ \A fd \in Fds : holder'[fd] = IF fd = skt[local] THEN NULL ELSE holder[fd]
      BY <1>0, <3>2 DEF Holders
    <3>4. NothingLeft'
      <4> SUFFICES ASSUME "setsockopt failed" \notin past, NEW fd \in Fds, fd # skt[local]
                   PROVE  holder[fd] \in {NULL, "other"}
        BY <2>1, <3>3 DEF NothingLeft
      <4>1. holder[fd] \notin Conns
        BY <1>0, <2>2 DEF KernelInv
      <4> QED  BY <2>3, <4>1 DEF Holders
    <3> QED  BY <2>1, <3>2, <3>3, <3>4 DEF KernelStep
  <2> QED  BY <2>4, <2>5
<1>5. ASSUME NEW err \in BOOLEAN, ClientConnector(err) PROVE KernelStep
  <2>1. life = "up" /\ life' = "up" /\ doing["loop"].at = "lock"
    BY <1>5 DEF ClientConnector
  <2>2. local # NULL
    BY <1>0, <2>1 DEF ClientInv, Alive, Connecting
  <2>3. CASE err
    BY <1>3, <1>5, <2>1, <2>2, <2>3 DEF ClientConnector
  <2>4. CASE ~err
    BY <1>5, <2>1, <2>4 DEF ClientConnector, kernel, KernelStep
  <2> QED  BY <2>3, <2>4
<1>6. ASSUME NEW t \in Threads,
             \/ ClientIsConnected(t) \/ ClientRefused(t) \/ ClientPostsConnector(t)
             \/ ClientRefusedAsync(t) \/ ClientCallbackReturns(t) \/ ClientKeepsLock(t)
             \/ ClientTransferSync(t) \/ \E op \in Ops : ClientTransferAsync(t, op)
      PROVE  KernelStep
  <2>1. life = "up" /\ life' = "up" /\ UNCHANGED kernel
    BY <1>6 DEF ClientIsConnected, ClientRefused, ClientPostsConnector, ClientRefusedAsync,
                ClientCallbackReturns, ClientKeepsLock, MayCall, MayWait, ClientTransferAsync,
                TransferAsync, ClientTransferSync, TransferSync
  <2> QED  BY <2>1 DEF KernelStep, kernel
<1>7. ASSUME NEW t \in Threads, ClientDisconnect(t) PROVE KernelStep
  <2>1. life = "up" /\ life' = "up" /\ connected /\ ClientCloses
    BY <1>7 DEF ClientDisconnect, MayCall, ClientMayDisconnect
  <2>2. local # NULL
    BY <1>0, <2>1 DEF ClientInv, Alive
  <2> QED  BY <1>3, <2>1, <2>2
<1>8. ASSUME NEW t \in Threads, NEW errno \in BOOLEAN, ClientConnects(t, errno) PROVE KernelStep
  <2>1. life = "up" /\ life' = "up" /\ doing[t].at = "connect"
    BY <1>8 DEF ClientConnects
  <2>2. local # NULL
    BY <1>0, <2>1 DEF ClientInv, Alive, Threads, EndpointsInv, ServiceOK
  <2>3. CASE errno
    BY <1>3, <1>8, <2>1, <2>2, <2>3 DEF ClientConnects
  <2>4. CASE ~errno
    BY <1>8, <2>1, <2>4 DEF ClientConnects, kernel, KernelStep
  <2> QED  BY <2>3, <2>4
<1>9. ASSUME NEW t \in Threads, NEW c \in Conns, NEW fd \in Fds,
             \/ ClientNoSocket(t, c, fd) \/ ClientAborts(t, c, fd)
             \/ \E at \in Ats : ClientInitSocket(t, c, fd, at)
      PROVE  KernelStep
  <2>1. Opens(c, fd) /\ life' \in {"up", "aborted"} /\ hurt' = FALSE
    BY <1>9 DEF ClientNoSocket, ClientAborts, ClientInitSocket, MayWait, Opens
  <2> QED  BY <2>1 DEF KernelStep
<1>10. ASSUME NEW t \in Threads, ClientCall(t) PROVE KernelStep
  <2>1. CASE \E c \in Conns, fd \in Fds : ClientConnectSync(t, c, fd) \/ ClientConnectAsync(t, c, fd)
    BY <1>9, <2>1 DEF ClientConnectSync, ClientConnectAsync, Ats
  <2> QED  BY <1>6, <1>7, <1>8, <1>9, <1>10, <2>1 DEF ClientCall
<1> QED  BY <1>1, <1>4, <1>5, <1>10 DEF ClientNext

\* Every step of a host is one of these.
LEMMA KernelKinds ==
  ASSUME EndpointsInv, EndpointsNext
  PROVE  KernelStep
<1>1. hurt = FALSE
  BY DEF EndpointsInv, EndpointsTypeOK, SocketsTypeOK, EndpointsNext
<1> QED  BY <1>1, OtmKernel, OtoKernel, ClientKernel DEF EndpointsNext

\* While the host is used a descriptor changes hands only if it was free or
\* another part's, or its connection is closed.
HandsOver ==
  life' \in {"unborn", "up"} =>
    \A fd \in Fds : \/ holder'[fd] = holder[fd] \/ holder[fd] \in {NULL, "other"}
                    \/ holder[fd] \in Conns /\ BusyNote(holder[fd]) \subseteq past'

\* Every step keeps the descriptors and their connections apart.
LEMMA DescriptorInv ==
  ASSUME EndpointsInv, EndpointsNext
  PROVE  /\ holder' \in [Fds -> Holders] /\ skt' \in [Conns -> Fds \cup {NULL}]
         /\ hurt' \in BOOLEAN /\ KernelInv' /\ HandsOver
<1>0. /\ holder \in [Fds -> Holders] /\ skt \in [Conns -> Fds \cup {NULL}] /\ KernelInv /\ Unborn
      /\ host' = host
  BY DEF EndpointsInv, EndpointsTypeOK, SocketsTypeOK, Holders, EndpointsNext
<1>1. KernelStep
  BY KernelKinds
<1>2. hurt' \in BOOLEAN
  BY <1>1 DEF KernelStep
<1>3. /\ Listen \in Fds /\ NULL \notin Fds /\ NULL \notin Conns
      /\ {"listen", "other"} \cap (Conns \cup {NULL}) = {} /\ "listen" # "other"
  BY SocketsAssumption DEF Conns
<1>4. CASE UNCHANGED <<holder, skt>>
  BY <1>0, <1>2, <1>4 DEF KernelInv, HandsOver
<1>5. ASSUME NEW c \in Conns, NEW fd \in Fds, Opens(c, fd)
      PROVE  /\ holder' \in [Fds -> Holders] /\ skt' \in [Conns -> Fds \cup {NULL}]
             /\ KernelInv' /\ HandsOver
  <2>1. /\ skt[c] = NULL /\ holder[fd] = NULL /\ fd # Listen
        /\ skt' = [skt EXCEPT ![c] = fd] /\ holder' = [holder EXCEPT ![fd] = c]
    BY <1>5 DEF Opens
  <2>2. holder' \in [Fds -> Holders] /\ skt' \in [Conns -> Fds \cup {NULL}]
    BY <1>0, <2>1 DEF Holders
  <2>3. /\ \A d \in Conns : skt'[d] = IF d = c THEN fd ELSE skt[d]
        /\ \A f \in Fds : holder'[f] = IF f = fd THEN c ELSE holder[f]
    BY <1>0, <2>1
  <2>4. ASSUME NEW f \in Fds, holder'[f] \in Conns PROVE skt'[holder'[f]] = f
    BY <1>0, <1>3, <2>1, <2>3, <2>4 DEF KernelInv
  <2>5. KernelInv'
    BY <1>0, <1>3, <2>1, <2>3, <2>4 DEF KernelInv
  <2> QED  BY <2>1, <2>2, <2>3, <2>5 DEF HandsOver
<1>6. ASSUME NEW c \in Conns, Frees(c)
      PROVE  /\ holder' \in [Fds -> Holders] /\ skt' \in [Conns -> Fds \cup {NULL}]
             /\ KernelInv' /\ HandsOver
  <2>1. /\ skt[c] \in Fds /\ skt' = skt /\ holder' = [holder EXCEPT ![skt[c]] = NULL]
        /\ holder[skt[c]] \in {c, NULL, "other"} /\ BusyNote(c) \subseteq past'
    BY <1>6 DEF Frees
  <2>2. /\ holder' \in [Fds -> Holders]
        /\ \A f \in Fds : holder'[f] = IF f = skt[c] THEN NULL ELSE holder[f]
    BY <1>0, <2>1 DEF Holders
  <2>3. KernelInv'
    BY <1>0, <1>3, <2>1, <2>2 DEF KernelInv
  <2>4. HandsOver
    BY <2>1, <2>2 DEF HandsOver
  <2> QED  BY <1>0, <2>1, <2>2, <2>3, <2>4
<1>7. ASSUME NEW fd \in Fds, OtherOpens(fd)
      PROVE  /\ holder' \in [Fds -> Holders] /\ skt' \in [Conns -> Fds \cup {NULL}]
             /\ KernelInv' /\ HandsOver
  <2>1. skt' = skt /\ holder' = [holder EXCEPT ![fd] = "other"] /\ fd # Listen /\ holder[fd] = NULL
    BY <1>7 DEF OtherOpens
  <2>2. /\ holder' \in [Fds -> Holders]
        /\ \A f \in Fds : holder'[f] = IF f = fd THEN "other" ELSE holder[f]
    BY <1>0, <2>1 DEF Holders
  <2>3. KernelInv'
    BY <1>0, <1>3, <2>1, <2>2 DEF KernelInv
  <2> QED  BY <1>0, <2>1, <2>2, <2>3 DEF HandsOver
<1>8. CASE ServerOpens /\ host # "client"
  <2>1. /\ skt' = skt /\ holder' = [holder EXCEPT ![Listen] = "listen"] /\ life = "unborn"
    BY <1>8 DEF ServerOpens
  <2>2. /\ holder' \in [Fds -> Holders]
        /\ \A f \in Fds : holder'[f] = IF f = Listen THEN "listen" ELSE holder[f]
    BY <1>0, <1>3, <2>1 DEF Holders
  <2>3. KernelInv'
    BY <1>0, <1>3, <1>8, <2>1, <2>2 DEF KernelInv
  <2>4. HandsOver
    BY <1>0, <2>1, <2>2 DEF HandsOver, Unborn
  <2> QED  BY <1>0, <1>2, <2>1, <2>2, <2>3, <2>4
<1>9. ASSUME NEW wild \in Fds, ServerClosesWild(wild), host # "client"
      PROVE  /\ holder' \in [Fds -> Holders] /\ skt' \in [Conns -> Fds \cup {NULL}]
             /\ KernelInv' /\ HandsOver
  <2>1. /\ skt' = skt /\ holder' = [holder EXCEPT ![Listen] = "listen", ![wild] = NULL]
        /\ life = "unborn" /\ life' = "failed"
    BY <1>9 DEF ServerClosesWild
  <2>2. /\ holder' \in [Fds -> Holders]
        /\ \A f \in Fds : holder'[f] = IF f = wild THEN NULL
                                       ELSE IF f = Listen THEN "listen" ELSE holder[f]
    BY <1>0, <1>3, <2>1 DEF Holders
  <2>3. \A f \in Fds : holder[f] \in {NULL, "other"}
    BY <1>0, <2>1 DEF Unborn
  <2>4. KernelInv'
    BY <1>0, <1>3, <1>9, <2>1, <2>2, <2>3 DEF KernelInv
  <2> QED  BY <1>0, <2>1, <2>2, <2>4 DEF HandsOver
<1>10. CASE /\ life' \in {"deinit", "undefined"} /\ skt' = skt /\ holder' \in [Fds -> Holders]
            /\ \A fd \in Fds : holder'[fd] \in {holder[fd], NULL}
  <2>1. KernelInv'
    BY <1>0, <1>3, <1>10 DEF KernelInv
  <2> QED  BY <1>0, <1>2, <1>10, <2>1 DEF HandsOver
<1> QED  BY <1>1, <1>2, <1>4, <1>5, <1>6, <1>7, <1>8, <1>9, <1>10 DEF KernelStep

\* Every step keeps what is said of a host before and after its use.
LEMMA LifeInv ==
  ASSUME EndpointsInv, EndpointsNext
  PROVE  Unborn' /\ OverInv' /\ ClosesOwn'
<1>0. holder \in [Fds -> Holders] /\ Unborn /\ OverInv /\ host' = host
  BY DEF EndpointsInv, EndpointsTypeOK, SocketsTypeOK, Holders, EndpointsNext
<1>1. KernelStep
  BY KernelKinds
<1>2. ClosesOwn'
  BY <1>1 DEF KernelStep, ClosesOwn
<1>3. Unborn'
  <2> SUFFICES ASSUME life' = "unborn" PROVE Unborn'
    BY DEF Unborn
  <2>1. PICK fd \in Fds : OtherOpens(fd)
    BY <1>1 DEF KernelStep
  <2>2. /\ UNCHANGED <<slot, inflight, skt, backlog, mutex, doing, life, owed>>
        /\ holder' = [holder EXCEPT ![fd] = "other"]
    BY <2>1 DEF OtherOpens, reactor
  <2>3. UNCHANGED <<remotes, given, looked, otoRemote, otoConnected>>
    BY <1>1 DEF KernelStep, otmvars, otovars
  <2>4. \A f \in Fds : holder[f] \in {NULL, "other"} => holder'[f] \in {NULL, "other"}
    BY <1>0, <2>2
  <2> QED  BY <1>0, <2>2, <2>3, <2>4 DEF Unborn
<1>4. life' = "undefined" => past' \cap {"raced", "refused gone"} # {}
  BY <1>1 DEF KernelStep
<1>5. NothingLeft'
  <2>1. CASE life' = "failed"
    BY <1>0, <1>1, <2>1 DEF KernelStep, NothingLeft, Unborn
  <2>2. CASE life' = "deinit"
    <3>1. Alive
      BY ThreadInv
    <3> QED  BY <1>1, <2>2, <3>1 DEF KernelStep, Frees, OtherOpens, ServerOpens, ServerClosesWild, Alive
  <2>3. CASE life' \notin {"failed", "deinit"}
    BY <2>3 DEF NothingLeft
  <2> QED  BY <2>1, <2>2, <2>3
<1> QED  BY <1>2, <1>3, <1>4, <1>5 DEF OverInv

(***************************************************************************)
(* The jobs of transfers.                                                  *)
(***************************************************************************)

\* The job of a transfer in a slot, and the one the loop has called, each with
\* the descriptor of its connection and its callback to come.
SlotsFresh ==
  \A fd \in Fds, op \in Ops : slot[fd][op].job \in Conns =>
    /\ holder[fd] = slot[fd][op].job /\ slot[fd][op].oneshot
    /\ <<slot[fd][op].job, op>> \in owed
CalledFresh ==
  doing["loop"].at = "transfer" =>
    \A fd \in Fds, op \in Ops : inflight = {<<fd, op, doing["loop"].conn>>} =>
      /\ holder[fd] = doing["loop"].conn /\ <<doing["loop"].conn, op>> \in owed
      /\ slot[fd][op].job # doing["loop"].conn

\* What a post and a call leave in the slots.
Posted(fd, op, job) ==
  \A f \in Fds, o \in Ops :
    \/ slot'[f][o] = slot[f][o]
    \/ /\ f = fd /\ o = op /\ accepting /\ slot[f][o].job = NULL
       /\ slot'[f][o].job = job /\ slot'[f][o].oneshot = TRUE
Called(fd, op) ==
  /\ \A f \in Fds, o \in Ops : slot'[f][o] = slot[f][o] \/ slot'[f][o].job = NULL
  /\ slot[fd][op].oneshot => slot'[fd][op].job = NULL
  /\ inflight = {} /\ inflight' = {<<fd, op, slot[fd][op].job>>}

\* PostOneshot is a post as the lemmas about jobs see it.
LEMMA Posts ==
  ASSUME EndpointsInv, NEW fd, NEW op \in Ops, NEW job \in Jobs, PostOneshot(fd, op, job)
  PROVE  Posted(fd, op, job) /\ inflight' = inflight /\ accepting' = accepting
<1>1. SlotsOK
  BY DEF EndpointsInv, ServiceOK, SlotsOK
<1> QED  BY <1>1, PostFacts DEF Posted

\* Call is a call as the lemmas about jobs see it.
LEMMA Calls ==
  ASSUME EndpointsInv, NEW fd \in Fds, NEW op \in Ops, Call(fd, op)
  PROVE  Called(fd, op) /\ accepting' = accepting
<1>1. SlotsOK
  BY DEF EndpointsInv, ServiceOK, SlotsOK
<1> QED  BY <1>1, CallFacts DEF Called

\* Every step keeps the jobs of transfers with their connections.
LEMMA JobsInv ==
  ASSUME EndpointsInv, EndpointsNext
  PROVE  JobInv'
<1> SUFFICES ASSUME Alive', past' \cap {"closed busy", "stale transfer"} = {}
             PROVE  SlotsFresh' /\ CalledFresh'
  BY DEF JobInv, SlotsFresh, CalledFresh
<1>0. DoingOK /\ KernelInv /\ ServiceOK
  BY DEF EndpointsInv, EndpointsTypeOK, SocketsTypeOK, DoingOK, Ats
<1>1. SlotsFresh /\ CalledFresh
  BY ThreadInv DEF EndpointsInv, JobInv, SlotsFresh, CalledFresh
<1>2. \A fd \in Fds, c \in Conns, op \in Ops :
        holder[fd] = c /\ <<c, op>> \in owed => holder'[fd] = c
  <2> SUFFICES ASSUME NEW fd \in Fds, NEW c \in Conns, NEW op \in Ops, holder[fd] = c,
                      <<c, op>> \in owed, holder'[fd] # c
               PROVE  FALSE
    OBVIOUS
  <2>1. holder[fd] \notin {NULL, "other"}
    BY SocketsAssumption DEF Conns
  <2>2. BusyNote(c) \subseteq past'
    BY <2>1, DescriptorInv DEF HandsOver, Alive
  <2>3. "closed busy" \in BusyNote(c)
    BY DEF BusyNote
  <2> QED  BY <2>2, <2>3
<1>3. /\ HostJob \in Jobs /\ HostJob \notin Conns /\ "read" \in Ops /\ "write" \in Ops
      /\ Conns \subseteq Jobs /\ NULL \notin Conns
  BY SocketsAssumption DEF Ops, Conns
<1>4. doing["loop"].at = "transfer" => doing["loop"].conn \in Conns
  BY <1>0 DEF ServiceOK
<1>5. ASSUME owed \subseteq owed', NEW f \in Fds, NEW o \in Ops, slot'[f][o] = slot[f][o],
             slot'[f][o].job \in Conns
      PROVE  /\ holder'[f] = slot'[f][o].job /\ slot'[f][o].oneshot
             /\ <<slot'[f][o].job, o>> \in owed'
  <2> DEFINE s == slot[f][o]
  <2>1. slot'[f][o] = s /\ s.job \in Conns
    BY <1>5
  <2>2. holder[f] = s.job /\ s.oneshot /\ <<s.job, o>> \in owed
    BY <1>1, <2>1 DEF SlotsFresh
  <2> HIDE DEF s
  <2>3. holder'[f] = s.job /\ s.oneshot /\ <<s.job, o>> \in owed'
    BY <1>2, <1>5, <2>1, <2>2
  <2> QED  BY <2>1, <2>3
<1>6. ASSUME owed \subseteq owed', doing'["loop"] = doing["loop"], inflight' = inflight,
             \A f \in Fds, o \in Ops :
               \/ slot'[f][o] = slot[f][o] \/ slot'[f][o].job = HostJob
               \/ <<slot'[f][o].job, o>> \notin owed
      PROVE  CalledFresh'
  <2> DEFINE c == doing["loop"].conn
  <2> SUFFICES ASSUME doing["loop"].at = "transfer", NEW f \in Fds, NEW o \in Ops,
                      inflight = {<<f, o, c>>}
               PROVE  holder'[f] = c /\ <<c, o>> \in owed' /\ slot'[f][o].job # c
    BY <1>6 DEF CalledFresh
  <2>1. c \in Conns /\ holder[f] = c /\ <<c, o>> \in owed /\ slot[f][o].job # c
    BY <1>1, <1>4 DEF CalledFresh
  <2> HIDE DEF c
  <2> QED  BY <1>2, <1>3, <1>6, <2>1
<1>7. CASE JobGoesOn
  <2>1. UNCHANGED <<slot, inflight, owed>>
    BY <1>7 DEF JobGoesOn
  <2>2. SlotsFresh'
    BY <1>5, <2>1 DEF SlotsFresh
  <2>3. CalledFresh'
    <3>1. CASE doing'["loop"] = doing["loop"]
      BY <1>6, <2>1, <3>1
    <3>2. CASE doing'["loop"].at # "transfer"
      BY <3>2 DEF CalledFresh
    <3> QED  BY <1>7, <3>1, <3>2 DEF JobGoesOn
  <2> QED  BY <2>2, <2>3
<1>8. ASSUME NEW fd, NEW op \in Ops, PostOneshot(fd, op, HostJob), UNCHANGED owed,
             doing'["loop"] = doing["loop"]
      PROVE  SlotsFresh' /\ CalledFresh'
  <2>1. Posted(fd, op, HostJob) /\ inflight' = inflight
    BY <1>3, <1>8, Posts
  <2>2. \A f \in Fds, o \in Ops : slot'[f][o] = slot[f][o] \/ slot'[f][o].job = HostJob
    BY <2>1 DEF Posted
  <2>3. SlotsFresh'
    <3> SUFFICES ASSUME NEW f \in Fds, NEW o \in Ops, slot'[f][o].job \in Conns
                 PROVE  /\ holder'[f] = slot'[f][o].job /\ slot'[f][o].oneshot
                        /\ <<slot'[f][o].job, o>> \in owed'
      BY DEF SlotsFresh
    <3>1. slot'[f][o] = slot[f][o]
      BY <1>3, <2>2
    <3> QED  BY <1>5, <1>8, <3>1
  <2>4. CalledFresh'
    BY <1>6, <1>8, <2>1, <2>2
  <2> QED  BY <2>3, <2>4
<1>9. ASSUME NEW t \in Threads, NEW c \in Conns, NEW op \in Ops, TransferAsync(t, c, op)
      PROVE  SlotsFresh' /\ CalledFresh'
  <2>1. /\ PostOneshot(skt[c], op, c) /\ <<c, op>> \notin owed
        /\ owed' = IF accepting THEN owed \cup {<<c, op>>} ELSE owed
        /\ UNCHANGED <<holder, doing>>
        /\ holder[skt[c]] # c => "stale transfer" \in past'
    BY <1>9 DEF TransferAsync, Note, kernel
  <2>2. Posted(skt[c], op, c) /\ inflight' = inflight
    BY <1>3, <2>1, Posts
  <2>3. \A f \in Fds, o \in Ops :
          \/ slot'[f][o] = slot[f][o]
          \/ /\ f = skt[c] /\ o = op /\ accepting
             /\ slot'[f][o].job = c /\ slot'[f][o].oneshot = TRUE
    BY <2>2 DEF Posted
  <2>4. holder[skt[c]] = c /\ owed \subseteq owed'
    BY <2>1
  <2>5. SlotsFresh'
    <3> SUFFICES ASSUME NEW f \in Fds, NEW o \in Ops, slot'[f][o].job \in Conns
                 PROVE  /\ holder'[f] = slot'[f][o].job /\ slot'[f][o].oneshot
                        /\ <<slot'[f][o].job, o>> \in owed'
      BY DEF SlotsFresh
    <3>1. CASE slot'[f][o] = slot[f][o]
      BY <1>5, <2>4, <3>1
    <3>2. CASE slot'[f][o] # slot[f][o]
      BY <2>1, <2>3, <2>4, <3>2
    <3> QED  BY <3>1, <3>2
  <2>6. \A f \in Fds, o \in Ops : slot'[f][o] = slot[f][o] \/ <<slot'[f][o].job, o>> \notin owed
    BY <2>1, <2>3
  <2>7. CalledFresh'
    BY <1>6, <2>1, <2>2, <2>4, <2>6
  <2> QED  BY <2>5, <2>7
<1>10. ASSUME NEW fd \in Fds, NEW op \in Ops, TransferEnds(fd, op)
       PROVE  SlotsFresh' /\ CalledFresh'
  <2> DEFINE c == doing["loop"].conn
  <2>1. /\ doing["loop"].at = "transfer" /\ inflight = {<<fd, op, c>>}
        /\ owed' = owed \ {<<c, op>>} /\ UNCHANGED <<slot, holder>> /\ doing'["loop"].at = "done"
    BY <1>0, <1>10 DEF TransferEnds, reactor, kernel, Goes, DoingOK, Threads
  <2>2. c \in Conns /\ holder[fd] = c /\ slot[fd][op].job # c
    BY <1>1, <1>4, <2>1 DEF CalledFresh
  <2> HIDE DEF c
  <2>3. SlotsFresh'
    <3> SUFFICES ASSUME NEW f \in Fds, NEW o \in Ops, slot[f][o].job \in Conns,
                        <<slot[f][o].job, o>> = <<c, op>>
                 PROVE  FALSE
      BY <1>1, <2>1 DEF SlotsFresh
    <3>1. holder[f] = c
      BY <1>1 DEF SlotsFresh
    <3>2. f = fd
      BY <1>0, <2>2, <3>1 DEF KernelInv
    <3> QED  BY <2>2, <3>2
  <2> QED  BY <2>1, <2>3 DEF CalledFresh
<1>11. ASSUME NEW fd \in Fds, NEW op \in Ops, TransferGoesOn(fd, op)
       PROVE  SlotsFresh' /\ CalledFresh'
  <2> DEFINE c == doing["loop"].conn
  <2>1. /\ doing["loop"].at = "transfer" /\ inflight = {<<fd, op, c>>} /\ PostOneshot(fd, op, c)
        /\ UNCHANGED <<owed, holder>> /\ doing'["loop"].at = "return"
    BY <1>0, <1>11 DEF TransferGoesOn, kernel, Goes, DoingOK, Threads
  <2>2. c \in Conns /\ holder[fd] = c /\ <<c, op>> \in owed
    BY <1>1, <1>4, <2>1 DEF CalledFresh
  <2> HIDE DEF c
  <2>3. \A f \in Fds, o \in Ops :
          \/ slot'[f][o] = slot[f][o]
          \/ f = fd /\ o = op /\ slot'[f][o].job = c /\ slot'[f][o].oneshot = TRUE
    <3>1. Posted(fd, op, c)
      BY <1>3, <2>1, <2>2, Posts
    <3> QED  BY <3>1 DEF Posted
  <2>4. SlotsFresh'
    <3> SUFFICES ASSUME NEW f \in Fds, NEW o \in Ops, slot'[f][o].job \in Conns
                 PROVE  /\ holder'[f] = slot'[f][o].job /\ slot'[f][o].oneshot
                        /\ <<slot'[f][o].job, o>> \in owed'
      BY DEF SlotsFresh
    <3>1. CASE slot'[f][o] = slot[f][o]
      BY <1>5, <2>1, <3>1
    <3>2. CASE slot'[f][o] # slot[f][o]
      BY <2>1, <2>2, <2>3, <3>2
    <3> QED  BY <3>1, <3>2
  <2> QED  BY <2>1, <2>4 DEF CalledFresh
<1>12. ASSUME UNCHANGED owed, \A f \in Fds, o \in Ops : slot'[f][o] = slot[f][o] \/ slot'[f][o].job = NULL
       PROVE  SlotsFresh'
  <2> SUFFICES ASSUME NEW f \in Fds, NEW o \in Ops, slot'[f][o].job \in Conns
               PROVE  /\ holder'[f] = slot'[f][o].job /\ slot'[f][o].oneshot
                      /\ <<slot'[f][o].job, o>> \in owed'
    BY DEF SlotsFresh
  <2>1. slot'[f][o] = slot[f][o]
    BY <1>3, <1>12
  <2> QED  BY <1>5, <1>12, <2>1
<1>13. ASSUME NEW fd \in Fds, NEW op \in Ops, CallHostJob(fd, op)
       PROVE  SlotsFresh' /\ CalledFresh'
  <2>1. Call(fd, op) /\ UNCHANGED owed /\ doing'["loop"].at = "lock"
    BY <1>0, <1>13 DEF CallHostJob, Goes, DoingOK, Threads
  <2>2. Called(fd, op)
    BY <2>1, Calls
  <2>3. SlotsFresh'
    BY <1>12, <2>1, <2>2 DEF Called
  <2> QED  BY <2>1, <2>3 DEF CalledFresh
<1>14. ASSUME NEW fd \in Fds, NEW op \in Ops, NEW c \in Conns, CallTransfer(c, fd, op)
       PROVE  SlotsFresh' /\ CalledFresh'
  <2>1. /\ Call(fd, op) /\ slot[fd][op].job = c /\ UNCHANGED <<owed, holder>>
        /\ doing'["loop"].at = "transfer" /\ doing'["loop"].conn = c
    BY <1>0, <1>14 DEF CallTransfer, kernel, Goes, DoingOK, Threads
  <2>2. holder[fd] = c /\ slot[fd][op].oneshot /\ <<c, op>> \in owed
    BY <1>1, <2>1 DEF SlotsFresh
  <2>3. Called(fd, op)
    BY <2>1, Calls
  <2>4. SlotsFresh'
    BY <1>12, <2>1, <2>3 DEF Called
  <2>5. slot'[fd][op].job = NULL /\ inflight' = {<<fd, op, c>>}
    BY <2>1, <2>2, <2>3 DEF Called
  <2>6. CalledFresh'
    <3> SUFFICES ASSUME NEW f \in Fds, NEW o \in Ops, inflight' = {<<f, o, c>>}
                 PROVE  holder'[f] = c /\ <<c, o>> \in owed' /\ slot'[f][o].job # c
      BY <2>1 DEF CalledFresh
    <3>1. <<f, o, c>> = <<fd, op, c>>
      BY <2>5, Zenon
    <3>2. f = fd /\ o = op
      BY <3>1
    <3> QED  BY <1>3, <2>1, <2>2, <2>5, <3>2
  <2> QED  BY <2>4, <2>6
<1>15. CASE JobReturns
  <2>1. UNCHANGED <<slot, owed>> /\ doing'["loop"].at = "none"
    BY <1>0, <1>15 DEF JobReturns, Return, Goes, DoingOK, Threads
  <2> QED  BY <1>12, <2>1 DEF CalledFresh
<1> QED
  <2>1. CASE host # "client" /\ PostOneshot(Listen, "read", HostJob) /\ UNCHANGED <<owed, doing>>
    BY <1>3, <1>8, <2>1
  <2>2. CASE /\ PostOneshot(skt[local], "write", HostJob) /\ UNCHANGED owed
             /\ doing'["loop"] = doing["loop"]
    BY <1>3, <1>8, <2>2
  <2> QED  BY <1>7, <1>9, <1>10, <1>11, <1>13, <1>14, <1>15, <2>1, <2>2, ServiceKinds DEF ServiceStep

(***************************************************************************)
(* Accepting.                                                              *)
(***************************************************************************)

\* What a step does to the connections that wait, and who comes to accept one.
AcceptStep ==
  /\ \/ backlog' = backlog
     \/ backlog' = backlog + 1 /\ backlog < MaxBacklog
     \/ /\ backlog' = backlog - 1 /\ backlog > 0
        /\ \E t \in Threads : doing[t].at = "accept" /\ doing'[t].at = "callback"
  /\ host = "client" =>
       \A t \in Threads : doing'[t].at \in {"accept", "callback"} => doing'[t] = doing[t]
  /\ doing'["user"].at = "accept" => doing["user"].at = "accept" \/ "listen_sync" \in past'
  /\ doing'["loop"].at \in {"lock", "accept"} =>
       \/ doing["loop"].at \in {"lock", "accept"} \/ backlog > 0 \/ host = "client"

\* Where the threads are after one has gone on.
LEMMA GoesFacts ==
  ASSUME EndpointsInv, NEW t \in Threads, NEW at, NEW c, Goes(t, at, c)
  PROVE  /\ doing'[t] = [at |-> at, conn |-> c] /\ doing'[t].at = at /\ doing'[t].conn = c
         /\ \A u \in Threads \ {t} : doing'[u] = doing[u]
<1>1. doing \in [Threads -> [at : Ats, conn : Conns \cup {NULL}]]
  BY DEF EndpointsInv, EndpointsTypeOK, SocketsTypeOK, Ats
<1>2. doing' = [doing EXCEPT ![t] = [at |-> at, conn |-> c]]
  BY DEF Goes
<1> QED  BY <1>1, <1>2

\* The step has nothing to do with accepting.
LEMMA QuietStep ==
  ASSUME EndpointsInv, backlog' = backlog,
         \/ doing' = doing
         \/ \E t \in Threads, at \in Ats \ {"lock", "accept", "callback"}, c \in Conns \cup {NULL} :
              Goes(t, at, c)
  PROVE  AcceptStep
<1>1. CASE doing' = doing
  BY <1>1 DEF AcceptStep
<1>2. ASSUME NEW t \in Threads, NEW at \in Ats \ {"lock", "accept", "callback"},
             NEW c \in Conns \cup {NULL}, Goes(t, at, c)
      PROVE  AcceptStep
  <2>1. /\ doing'[t].at = at /\ at \notin {"lock", "accept", "callback"}
        /\ \A u \in Threads \ {t} : doing'[u] = doing[u]
    BY <1>2, GoesFacts
  <2> QED  BY <2>1 DEF AcceptStep, Threads
<1> QED  BY <1>1, <1>2

\* The steps of every host.
LEMMA SocketsAccepts ==
  ASSUME EndpointsInv, SocketsStep
  PROVE  AcceptStep
<1>0. ServiceOK /\ AcceptInv
  BY DEF EndpointsInv
<1>1. CASE (\E fd \in Fds : OtherOpens(fd)) \/ StopService \/ AcceptFails
  BY <1>1, QuietStep DEF OtherOpens, StopService, AcceptFails
<1>2. CASE PeerConnects
  BY <1>2 DEF PeerConnects, AcceptStep
<1>3. ASSUME NEW t \in Threads, SyncReturns(t) PROVE AcceptStep
  BY <1>3, QuietStep DEF SyncReturns, Ats
<1>4. ASSUME NEW fd \in Fds, NEW op \in Ops, TransferEnds(fd, op) PROVE AcceptStep
  <2>1. backlog' = backlog /\ Goes("loop", "done", doing["loop"].conn) /\ doing["loop"].conn \in Conns
    BY <1>0, <1>4 DEF TransferEnds, ServiceOK
  <2> QED  BY <2>1, QuietStep DEF Ats, Threads
<1>5. ASSUME NEW fd \in Fds, NEW op \in Ops, TransferGoesOn(fd, op) PROVE AcceptStep
  <2>1. backlog' = backlog /\ Goes("loop", "return", NULL)
    BY <1>5 DEF TransferGoesOn
  <2> QED  BY <2>1, QuietStep DEF Ats, Threads
<1>6. ASSUME NEW fd \in Fds, NEW op \in Ops, NEW c \in Conns, CallTransfer(c, fd, op)
      PROVE  AcceptStep
  <2>1. backlog' = backlog /\ Goes("loop", "transfer", c)
    BY <1>6 DEF CallTransfer
  <2> QED  BY <2>1, QuietStep DEF Ats, Threads
<1>7. CASE JobReturns
  <2>1. backlog' = backlog /\ Goes("loop", "none", NULL)
    BY <1>7 DEF JobReturns
  <2> QED  BY <2>1, QuietStep DEF Ats, Threads
<1>8. ASSUME NEW fd \in Fds, NEW op \in Ops, CallHostJob(fd, op) PROVE AcceptStep
  <2>1. /\ backlog' = backlog /\ Goes("loop", "lock", NULL) /\ slot[fd][op].job = HostJob
        /\ life = "up" /\ (fd = Listen => backlog > 0)
    BY <1>8 DEF CallHostJob
  <2>2. host = "client" \/ backlog > 0
    BY <1>0, <2>1 DEF AcceptInv, Alive
  <2>3. doing'["loop"].at = "lock" /\ doing'["user"] = doing["user"]
    BY <2>1, GoesFacts DEF Threads
  <2> QED  BY <2>1, <2>2, <2>3 DEF AcceptStep, Threads
<1> QED  BY <1>1, <1>2, <1>3, <1>4, <1>5, <1>6, <1>7, <1>8 DEF SocketsStep

\* A thread of a server comes to accept, and accepts.
LEMMA ComesToAccept ==
  ASSUME EndpointsInv, host # "client", NEW t \in Threads, Goes(t, "accept", NULL), backlog' = backlog,
         t = "loop" => doing["loop"].at = "lock", t = "user" => "listen_sync" \in past'
  PROVE  AcceptStep
<1>1. doing'[t].at = "accept" /\ \A u \in Threads \ {t} : doing'[u] = doing[u]
  BY GoesFacts
<1> QED  BY <1>1 DEF AcceptStep, Threads

\* A thread that accepts takes the connection that was waiting.
LEMMA Accepts ==
  ASSUME EndpointsInv, host # "client", NEW t \in Threads, NEW c \in Conns, Goes(t, "callback", c),
         doing[t].at = "accept", backlog > 0, backlog' = backlog - 1
  PROVE  AcceptStep
<1>1. doing'[t].at = "callback" /\ \A u \in Threads \ {t} : doing'[u] = doing[u]
  BY GoesFacts
<1> QED  BY <1>1 DEF AcceptStep, Threads

\* The steps of the one-to-many server.
LEMMA OtmAccepts ==
  ASSUME EndpointsInv, OtmNext, host = "otm"
  PROVE  AcceptStep
<1>1. CASE OtmInit \/ OtmDeinit
  BY <1>1, QuietStep DEF OtmInit, ServerOpens, ServerFails, ServerClosesWild, OtmDeinit
<1>2. ASSUME NEW t \in Threads,
             \/ OtmListenAsync(t) \/ OtmUsesFreed(t) \/ \E wild \in Fds : OtmRefusesFreed(t, wild)
             \/ \E c \in Conns : \/ OtmLooks(t, c) \/ OtmDisconnect(t, c)
                                 \/ \E op \in Ops : OtmTransferAsync(t, c, op)
      PROVE  AcceptStep
  BY <1>2, QuietStep DEF OtmListenAsync, OtmUsesFreed, OtmRefusesFreed, OtmLooks, OtmDisconnect, OtmTransferAsync,
              TransferAsync
<1>3. CASE OtmAcceptor
  BY <1>3, ComesToAccept DEF OtmAcceptor, Threads
<1>4. ASSUME NEW t \in Threads, OtmListenSync(t) PROVE AcceptStep
  BY <1>4, ComesToAccept DEF OtmListenSync, MayWait, Note
<1>5. ASSUME NEW t \in Threads, OtmRecvSyncReturns(t) PROVE AcceptStep
  BY <1>5, QuietStep DEF OtmRecvSyncReturns, Ats
<1>6. ASSUME NEW t \in Threads, NEW refuse \in BOOLEAN, OtmAcceptorReturns(t, refuse)
      PROVE  AcceptStep
  <2>1. backlog' = backlog /\ Goes(t, IF t = "loop" THEN "return" ELSE "none", NULL)
    BY <1>6 DEF OtmAcceptorReturns, OtmLeavesAcceptor
  <2> QED  BY <2>1, QuietStep DEF Ats
<1>7. ASSUME NEW t \in Threads, NEW c \in Conns, NEW at \in {"sync", "recv"},
             OtmTransferSync(t, c, at)
      PROVE  AcceptStep
  BY <1>7, QuietStep DEF OtmTransferSync, TransferSync, Ats
<1>8. ASSUME NEW t \in Threads, NEW c \in Conns, NEW fd \in Fds, OtmAccept(t, c, fd)
      PROVE  AcceptStep
  BY <1>8, Accepts DEF OtmAccept
<1>9. ASSUME NEW t \in Threads, OtmCall(t) PROVE AcceptStep
  BY <1>2, <1>4, <1>5, <1>6, <1>7, <1>8, <1>9 DEF OtmCall
<1> QED  BY <1>1, <1>3, <1>9, SocketsAccepts DEF OtmNext

\* The steps of the one-to-one server.
LEMMA OtoAccepts ==
  ASSUME EndpointsInv, OtoNext, host = "oto"
  PROVE  AcceptStep
<1>1. CASE OtoInit \/ OtoDeinit
  BY <1>1, QuietStep DEF OtoInit, ServerOpens, ServerFails, ServerClosesWild, OtoDeinit
<1>2. ASSUME NEW t \in Threads,
             OtoListenAsync(t) \/ OtoDisconnect(t) \/ \E op \in Ops : OtoTransferAsync(t, op)
      PROVE  AcceptStep
  BY <1>2, QuietStep DEF OtoListenAsync, OtoDisconnect, OtoTransferAsync, TransferAsync
<1>3. CASE OtoAcceptor
  BY <1>3, ComesToAccept DEF OtoAcceptor, Threads
<1>4. ASSUME NEW t \in Threads, OtoListenSync(t) PROVE AcceptStep
  BY <1>4, ComesToAccept DEF OtoListenSync, MayWait, Note
<1>5. ASSUME NEW t \in Threads, NEW refuse \in BOOLEAN, OtoAcceptorReturns(t, refuse)
      PROVE  AcceptStep
  <2>1. backlog' = backlog /\ Goes(t, IF t = "loop" THEN "return" ELSE "none", NULL)
    BY <1>5 DEF OtoAcceptorReturns
  <2> QED  BY <2>1, QuietStep DEF Ats
<1>6. ASSUME NEW t \in Threads, OtoTransferSync(t) PROVE AcceptStep
  <2>1. otoRemote \in Conns \cup {NULL}
    BY DEF EndpointsInv, EndpointsTypeOK
  <2> QED  BY <1>6, <2>1, QuietStep DEF OtoTransferSync, TransferSync, Ats
<1>7. ASSUME NEW t \in Threads, NEW c \in Conns, NEW fd \in Fds, OtoAccept(t, c, fd)
      PROVE  AcceptStep
  BY <1>7, Accepts DEF OtoAccept
<1>8. ASSUME NEW t \in Threads, OtoCall(t) PROVE AcceptStep
  BY <1>2, <1>4, <1>5, <1>6, <1>7, <1>8 DEF OtoCall
<1> QED  BY <1>1, <1>3, <1>8, SocketsAccepts DEF OtoNext

\* The steps of the client.
LEMMA ClientAccepts ==
  ASSUME EndpointsInv, ClientNext, host = "client"
  PROVE  AcceptStep
<1>0. remote \in Conns \cup {NULL}
  BY DEF EndpointsInv, EndpointsTypeOK
<1>1. CASE ClientDeinit
  BY <1>1, QuietStep DEF ClientDeinit
<1>2. ASSUME NEW t \in Threads,
             \/ ClientDisconnect(t) \/ \E op \in Ops : ClientTransferAsync(t, op)
             \/ \E c \in Conns, fd \in Fds : ClientNoSocket(t, c, fd) \/ ClientAborts(t, c, fd)
      PROVE  AcceptStep
  BY <1>2, QuietStep DEF ClientDisconnect, ClientTransferAsync, TransferAsync, ClientNoSocket, ClientAborts
<1>3. ASSUME NEW err \in BOOLEAN, ClientConnector(err) PROVE AcceptStep
  <2>1. backlog' = backlog /\ Goes("loop", "connected", NULL)
    BY <1>3 DEF ClientConnector
  <2> QED  BY <2>1, QuietStep DEF Ats, Threads
<1>4. ASSUME NEW t \in Threads,
             \/ ClientIsConnected(t) \/ ClientRefused(t) \/ ClientPostsConnector(t)
             \/ ClientRefusedAsync(t) \/ ClientKeepsLock(t) \/ ClientTransferSync(t)
             \/ \E errno \in BOOLEAN : ClientConnects(t, errno)
      PROVE  AcceptStep
  <2>1. backlog' = backlog /\ \E at \in {"none", "kept", "connected", "sync"}, c \in Conns \cup {NULL} : Goes(t, at, c)
    BY <1>0, <1>4 DEF ClientIsConnected, ClientRefused, ClientPostsConnector, ClientRefusedAsync,
          ClientKeepsLock, ClientTransferSync, TransferSync, ClientConnects
  <2> QED  BY <2>1, QuietStep DEF Ats
<1>5. ASSUME NEW t \in Threads, ClientCallbackReturns(t) PROVE AcceptStep
  <2>1. backlog' = backlog /\ Goes(t, IF t = "loop" THEN "return" ELSE "none", NULL)
    BY <1>5 DEF ClientCallbackReturns
  <2> QED  BY <2>1, QuietStep DEF Ats
<1>6. ASSUME NEW t \in Threads, NEW c \in Conns, NEW fd \in Fds,
             NEW at \in {"connect", "aconnect", "kept"}, ClientInitSocket(t, c, fd, at)
      PROVE  AcceptStep
  BY <1>6, QuietStep DEF ClientInitSocket, Ats
<1>7. ASSUME NEW t \in Threads, ClientCall(t) PROVE AcceptStep
  <2>1. CASE \E c \in Conns, fd \in Fds : ClientConnectSync(t, c, fd) \/ ClientConnectAsync(t, c, fd)
    BY <1>6, <2>1 DEF ClientConnectSync, ClientConnectAsync
  <2> QED  BY <1>2, <1>4, <1>5, <1>7, <2>1 DEF ClientCall
<1> QED  BY <1>1, <1>3, <1>7, SocketsAccepts DEF ClientNext

\* Where the host's own job may be put.
LEMMA HostSlots ==
  ASSUME EndpointsInv, EndpointsNext, NEW fd \in Fds, NEW op \in Ops, slot'[fd][op].job = HostJob
  PROVE  \/ slot'[fd][op] = slot[fd][op]
         \/ host # "client" /\ fd = Listen /\ op = "read" /\ slot'[fd][op].oneshot
         \/ host = "client" /\ local # NULL /\ fd = skt[local] /\ op = "write" /\ slot'[fd][op].oneshot
<1>1. /\ HostJob \in Jobs /\ HostJob \notin Conns /\ "read" \in Ops /\ "write" \in Ops
      /\ Conns \subseteq Jobs /\ NULL # HostJob
  BY SocketsAssumption DEF Ops, Conns
<1>2. ASSUME NEW f, NEW o \in Ops, NEW c \in Conns, PostOneshot(f, o, c)
      PROVE  slot'[fd][op] = slot[fd][op]
  <2>1. Posted(f, o, c)
    BY <1>1, <1>2, Posts
  <2> QED  BY <1>1, <2>1 DEF Posted
<1>3. ASSUME NEW f \in Fds, NEW o \in Ops, Call(f, o) PROVE slot'[fd][op] = slot[fd][op]
  <2>1. Called(f, o)
    BY <1>3, Calls
  <2> QED  BY <1>1, <2>1 DEF Called
<1>4. CASE host # "client" /\ PostOneshot(Listen, "read", HostJob)
  <2>1. Posted(Listen, "read", HostJob)
    BY <1>1, <1>4, Posts
  <2> QED  BY <1>4, <2>1 DEF Posted
<1>5. CASE host = "client" /\ PostOneshot(skt[local], "write", HostJob) /\ local # NULL
  <2>1. Posted(skt[local], "write", HostJob)
    BY <1>1, <1>5, Posts
  <2> QED  BY <1>5, <2>1 DEF Posted
<1>6. CASE JobGoesOn \/ JobReturns
  BY <1>6 DEF JobGoesOn, JobReturns, Return
<1>7. ASSUME NEW f \in Fds, NEW o \in Ops, TransferEnds(f, o) PROVE slot'[fd][op] = slot[fd][op]
  BY <1>7 DEF TransferEnds, reactor
<1>8. ASSUME NEW f \in Fds, NEW o \in Ops, TransferGoesOn(f, o) PROVE slot'[fd][op] = slot[fd][op]
  <2>1. doing["loop"].conn \in Conns /\ PostOneshot(f, o, doing["loop"].conn)
    BY <1>8 DEF TransferGoesOn, EndpointsInv, ServiceOK
  <2> QED  BY <1>2, <2>1
<1> QED  BY <1>2, <1>3, <1>4, <1>5, <1>6, <1>7, <1>8, ServiceKinds
         DEF ServiceStep, TransferAsync, CallHostJob, CallTransfer

\* Every step keeps the acceptor where there is something to accept.
LEMMA AcceptsInv ==
  ASSUME EndpointsInv, EndpointsNext
  PROVE  AcceptInv' /\ backlog' \in 0..MaxBacklog
<1>0. AcceptInv /\ backlog \in 0..MaxBacklog /\ MaxBacklog \in Nat /\ host' = host
  BY SocketsAssumption DEF EndpointsInv, EndpointsTypeOK, SocketsTypeOK, EndpointsNext
<1>1. AcceptStep
  BY OtmAccepts, OtoAccepts, ClientAccepts DEF EndpointsNext
<1>2. backlog' \in 0..MaxBacklog
  BY <1>0, <1>1 DEF AcceptStep
<1>3. Alive /\ past \subseteq past'
  BY ThreadInv
<1>4. host = "client" => \A t \in Threads : doing'[t].at \notin {"accept", "callback"}
  BY <1>0, <1>1 DEF AcceptStep, AcceptInv
<1>5. ASSUME host # "client", NEW fd \in Fds, NEW op \in Ops, slot'[fd][op].job = HostJob
      PROVE  fd = Listen /\ op = "read" /\ slot'[fd][op].oneshot
  BY <1>0, <1>3, <1>5, HostSlots DEF AcceptInv
<1>6. ASSUME host # "client", "listen_sync" \notin past'
      PROVE  /\ doing'["user"].at # "accept"
             /\ doing'["loop"].at \in {"lock", "accept"} => backlog' > 0
  <2>1. /\ doing["user"].at # "accept"
        /\ doing["loop"].at \in {"lock", "accept"} => backlog > 0
    BY <1>0, <1>3, <1>6 DEF AcceptInv
  <2>2. doing'["user"].at # "accept"
    BY <1>1, <1>6, <2>1 DEF AcceptStep
  <2>3. ASSUME doing'["loop"].at \in {"lock", "accept"} PROVE backlog' > 0
    BY <1>0, <1>1, <1>6, <2>1, <2>3 DEF AcceptStep, Threads
  <2> QED  BY <2>2, <2>3
<1> QED  BY <1>0, <1>2, <1>4, <1>5, <1>6 DEF AcceptInv

(***************************************************************************)
(* The one-to-many server.                                                 *)
(***************************************************************************)

\* The list and the open descriptors.
ListOpen ==
  /\ remotes = given
  /\ \A fd \in Fds : holder[fd] \in Conns => holder[fd] \in remotes
  /\ \A c \in remotes : skt[c] \in Fds /\ holder[skt[c]] = c

\* What a thread has looked at is there, and no other thread handles it.
LooksAlone ==
  "raced" \notin past =>
    \A t \in Threads : looked[t] # NULL =>
      /\ looked[t] \in given
      /\ \A u \in Threads \ {t} : /\ looked[u] # looked[t]
                                  /\ doing[u] # [at |-> "callback", conn |-> looked[t]]

OtmTypes ==
  remotes \subseteq Conns /\ given \subseteq Conns /\ looked \in [Threads -> Conns \cup {NULL}]

\* The step leaves the list alone; a thread may have done with what it looked at.
LEMMA OtmQuiet ==
  ASSUME OtmTypes, ListOpen, LooksAlone, past \subseteq past', UNCHANGED <<remotes, given>>,
         looked' \in [Threads -> Conns \cup {NULL}], \A t \in Threads : looked'[t] \in {looked[t], NULL},
         skt' = skt,
         \A fd \in Fds : holder'[fd] = holder[fd] \/ (holder[fd] \notin Conns /\ holder'[fd] \notin Conns),
         \A t \in Threads : doing'[t] = doing[t] \/ doing'[t].at # "callback"
  PROVE  OtmTypes' /\ ListOpen' /\ LooksAlone'
<1>1. OtmTypes'
  BY DEF OtmTypes
<1>2. ListOpen'
  <2>1. \A c \in remotes : c \in Conns /\ skt[c] \in Fds /\ holder[skt[c]] = c
    BY DEF OtmTypes, ListOpen
  <2>2. \A c \in remotes : holder'[skt[c]] = c
    BY <2>1
  <2>3. \A fd \in Fds : holder'[fd] \in Conns => holder'[fd] \in remotes
    BY DEF ListOpen
  <2> QED  BY <2>1, <2>2, <2>3 DEF ListOpen
<1>3. LooksAlone'
  <2> SUFFICES ASSUME "raced" \notin past, NEW t \in Threads, looked'[t] # NULL,
                      NEW u \in Threads \ {t}
               PROVE  /\ looked'[t] \in given /\ looked'[u] # looked'[t]
                      /\ doing'[u] # [at |-> "callback", conn |-> looked'[t]]
    <3> SUFFICES ASSUME "raced" \notin past', NEW t \in Threads, looked'[t] # NULL
                 PROVE  /\ looked'[t] \in given'
                        /\ \A u \in Threads \ {t} : /\ looked'[u] # looked'[t]
                                                    /\ doing'[u] # [at |-> "callback", conn |-> looked'[t]]
      BY DEF LooksAlone
    <3>1. Threads \ {t} # {}
      BY DEF Threads
    <3> QED  BY <3>1
  <2>1. /\ looked'[t] = looked[t] /\ looked[t] \in given /\ looked[u] # looked[t]
        /\ doing[u] # [at |-> "callback", conn |-> looked[t]]
    BY DEF LooksAlone
  <2>2. looked'[u] # looked[t]
    BY <2>1
  <2>3. doing'[u] # [at |-> "callback", conn |-> looked[t]]
    BY <2>1
  <2> QED  BY <2>1, <2>2, <2>3
<1> QED  BY <1>1, <1>2, <1>3

\* A connection is closed and taken off the list by the only thread that
\* handles it.
LEMMA OtmCloseKeeps ==
  ASSUME OtmTypes, ListOpen, LooksAlone, KernelInv, holder \in [Fds -> Holders], past \subseteq past',
         NEW t \in Threads, NEW c \in remotes, Closes(c), remotes' = remotes \ {c}, given' = given \ {c},
         looked' = [looked EXCEPT ![t] = NULL],
         looked[t] = c \/ doing[t] = [at |-> "callback", conn |-> c],
         \A u \in Threads : doing'[u] = doing[u] \/ doing'[u].at # "callback"
  PROVE  OtmTypes' /\ ListOpen' /\ LooksAlone'
<1>0. /\ c \in Conns /\ skt[c] \in Fds /\ holder[skt[c]] = c /\ skt' = skt
      /\ holder' = [holder EXCEPT ![skt[c]] = NULL] /\ NULL \notin Conns
  BY SocketsAssumption DEF OtmTypes, ListOpen, Closes, Conns
<1>1. OtmTypes'
  BY DEF OtmTypes
<1>2. \A fd \in Fds : holder'[fd] = IF fd = skt[c] THEN NULL ELSE holder[fd]
  BY <1>0
<1>3. ListOpen'
  <2>1. \A d \in remotes' : d # c /\ d \in Conns /\ skt[d] \in Fds /\ holder[skt[d]] = d
    BY DEF OtmTypes, ListOpen
  <2>2. \A d \in remotes' : holder'[skt[d]] = d
    BY <1>0, <1>2, <2>1
  <2>3. \A fd \in Fds : holder'[fd] \in Conns => holder'[fd] \in remotes'
    BY <1>0, <1>2 DEF ListOpen, KernelInv
  <2>4. remotes' = given'
    BY DEF ListOpen
  <2> QED  BY <1>0, <2>1, <2>2, <2>3, <2>4 DEF ListOpen
<1>4. LooksAlone'
  <2> SUFFICES ASSUME "raced" \notin past, NEW u \in Threads, looked'[u] # NULL
               PROVE  /\ looked'[u] \in given'
                      /\ \A v \in Threads \ {u} : /\ looked'[v] # looked'[u]
                                                  /\ doing'[v] # [at |-> "callback", conn |-> looked'[u]]
    BY DEF LooksAlone
  <2>1. /\ looked'[t] = NULL /\ \A v \in Threads \ {t} : looked'[v] = looked[v]
    BY DEF OtmTypes
  <2>2. /\ u # t /\ looked'[u] = looked[u] /\ looked[u] \in given
        /\ \A v \in Threads \ {u} : /\ looked[v] # looked[u]
                                    /\ doing[v] # [at |-> "callback", conn |-> looked[u]]
    BY <2>1 DEF LooksAlone
  <2>3. looked[u] # c
    BY <2>2
  <2>4. \A v \in Threads \ {u} : looked'[v] # looked[u]
    BY <2>1, <2>2
  <2>5. \A v \in Threads \ {u} : doing'[v] # [at |-> "callback", conn |-> looked[u]]
    BY <2>2
  <2> QED  BY <2>2, <2>3, <2>4, <2>5
<1> QED  BY <1>1, <1>3, <1>4

\* Every step keeps the list.
LEMMA OtmListInv ==
  ASSUME EndpointsInv, EndpointsNext
  PROVE  OtmTypes' /\ OtmInv'
<1>0. /\ OtmTypes /\ OtmInv /\ KernelInv /\ Unborn /\ DoingOK /\ holder \in [Fds -> Holders] /\ host' = host
      /\ skt \in [Conns -> Fds \cup {NULL}]
  BY DEF EndpointsInv, EndpointsTypeOK, SocketsTypeOK, OtmTypes, Holders, DoingOK, Ats, EndpointsNext
<1>1. CASE host # "otm"
  BY <1>0, <1>1 DEF EndpointsNext, otmvars, OtmTypes, OtmInv
<1> SUFFICES ASSUME host = "otm", OtmNext PROVE OtmTypes' /\ OtmInv'
  BY <1>1 DEF EndpointsNext
<1>2. /\ past \subseteq past' /\ NULL \notin Conns /\ NULL \notin Fds
      /\ "other" \notin Conns /\ "listen" \notin Conns /\ Listen \in Fds
  BY ThreadInv, SocketsAssumption DEF Conns
<1>3. ListOpen /\ LooksAlone
  <2>1. ListOpen
    BY <1>0, ThreadInv DEF OtmInv, ListOpen
  <2>2. life = "unborn" => LooksAlone
    BY <1>0 DEF Unborn, LooksAlone
  <2>3. life = "up" => LooksAlone
    BY <1>0 DEF OtmInv, LooksAlone
  <2> QED  BY <2>1, <2>2, <2>3, ThreadInv DEF Alive
<1>4. ASSUME OtmTypes', ListOpen', LooksAlone' PROVE OtmTypes' /\ OtmInv'
  BY <1>4 DEF OtmInv, ListOpen, LooksAlone
<1>5. ASSUME OtmTypes', life' \notin {"unborn", "up"} PROVE OtmTypes' /\ OtmInv'
  BY <1>5 DEF OtmInv, Alive
<1>6. ASSUME UNCHANGED <<otmvars, kernel>>, \A t \in Threads : doing'[t] = doing[t] \/ doing'[t].at # "callback"
      PROVE  OtmTypes' /\ OtmInv'
  <2>1. UNCHANGED <<remotes, given, looked, skt, holder>>
    BY <1>6 DEF otmvars, kernel
  <2>2. looked' \in [Threads -> Conns \cup {NULL}] /\ \A t \in Threads : looked'[t] \in {looked[t], NULL}
    BY <1>0, <2>1 DEF OtmTypes
  <2>3. \A fd \in Fds : holder'[fd] = holder[fd] \/ (holder[fd] \notin Conns /\ holder'[fd] \notin Conns)
    BY <2>1
  <2> QED  BY <1>0, <1>2, <1>3, <1>4, <1>6, <2>1, <2>2, <2>3, OtmQuiet
<1>7. ASSUME NEW fd \in Fds, holder[fd] \in {NULL, "other"}, NEW h \in {"other", "listen"},
             holder' = [holder EXCEPT ![fd] = h], UNCHANGED <<otmvars, skt, doing>>
      PROVE  OtmTypes' /\ OtmInv'
  <2>1. UNCHANGED <<remotes, given, looked>>
    BY <1>7 DEF otmvars
  <2>2. looked' \in [Threads -> Conns \cup {NULL}] /\ \A t \in Threads : looked'[t] \in {looked[t], NULL}
    BY <1>0, <2>1 DEF OtmTypes
  <2>3. \A f \in Fds : holder'[f] = holder[f] \/ (holder[f] \notin Conns /\ holder'[f] \notin Conns)
    BY <1>0, <1>2, <1>7
  <2> QED  BY <1>0, <1>2, <1>3, <1>4, <1>7, <2>1, <2>2, <2>3, OtmQuiet
<1>8. CASE OtmInit
  <2>1. CASE ServerOpens
    <3>1. /\ holder' = [holder EXCEPT ![Listen] = "listen"] /\ UNCHANGED <<otmvars, skt, doing>>
          /\ holder[Listen] \in {NULL, "other"}
      BY <1>0, <1>2, <1>8, <2>1 DEF ServerOpens, OtmInit, Unborn
    <3> QED  BY <1>2, <1>7, <3>1
  <2>2. CASE ServerFails \/ \E wild \in Fds : ServerClosesWild(wild)
    <3>1. life' = "failed" /\ UNCHANGED otmvars
      BY <1>8, <2>2 DEF ServerFails, ServerClosesWild, OtmInit
    <3> QED  BY <1>0, <1>5, <3>1 DEF otmvars, OtmTypes
  <2> QED  BY <1>8, <2>1, <2>2 DEF OtmInit
<1>9. ASSUME life' \in {"deinit", "undefined", "aborted"}, UNCHANGED otmvars PROVE OtmTypes' /\ OtmInv'
  BY <1>0, <1>5, <1>9 DEF otmvars, OtmTypes
<1>10. CASE SocketsStep /\ UNCHANGED otmvars
  <2>1. ASSUME NEW fd \in Fds, OtherOpens(fd) PROVE OtmTypes' /\ OtmInv'
    BY <1>7, <1>10, <2>1 DEF OtherOpens
  <2>2. ASSUME UNCHANGED kernel, NEW t \in Threads, NEW at \in Ats \ {"callback"}, NEW c, Goes(t, at, c)
        PROVE  OtmTypes' /\ OtmInv'
    <3>1. doing'[t].at = at /\ at # "callback" /\ \A u \in Threads \ {t} : doing'[u] = doing[u]
      BY <2>2, GoesFacts
    <3> QED  BY <1>6, <1>10, <2>2, <3>1
  <2>3. ASSUME NEW t \in Threads, SyncReturns(t) PROVE OtmTypes' /\ OtmInv'
    BY <2>2, <2>3 DEF SyncReturns, Ats
  <2>4. ASSUME NEW fd \in Fds, NEW op \in Ops, TransferEnds(fd, op) \/ TransferGoesOn(fd, op) \/ CallHostJob(fd, op)
        PROVE  OtmTypes' /\ OtmInv'
    <3>1. UNCHANGED kernel /\ \E at \in {"done", "return", "lock"}, c \in {NULL, doing["loop"].conn} : Goes("loop", at, c)
      BY <2>4 DEF TransferEnds, TransferGoesOn, CallHostJob
    <3> QED  BY <2>2, <3>1 DEF Ats, Threads
  <2>5. ASSUME NEW fd \in Fds, NEW op \in Ops, NEW c \in Conns, CallTransfer(c, fd, op)
        PROVE  OtmTypes' /\ OtmInv'
    <3>1. UNCHANGED kernel /\ Goes("loop", "transfer", c)
      BY <2>5 DEF CallTransfer
    <3> QED  BY <2>2, <3>1 DEF Ats, Threads
  <2>6. CASE JobReturns
    <3>1. UNCHANGED kernel /\ Goes("loop", "none", NULL)
      BY <2>6 DEF JobReturns
    <3> QED  BY <2>2, <3>1 DEF Ats, Threads
  <2>7. CASE PeerConnects \/ StopService \/ AcceptFails
    BY <1>6, <1>10, <2>7 DEF PeerConnects, StopService, AcceptFails
  <2> QED  BY <1>10, <2>1, <2>3, <2>4, <2>5, <2>6, <2>7 DEF SocketsStep
<1>11. ASSUME UNCHANGED <<otmvars, kernel>>, NEW t \in Threads, NEW at \in Ats \ {"callback"}, NEW c, Goes(t, at, c)
       PROVE  OtmTypes' /\ OtmInv'
  <2>1. doing'[t].at = at /\ at # "callback" /\ \A u \in Threads \ {t} : doing'[u] = doing[u]
    BY <1>11, GoesFacts
  <2> QED  BY <1>6, <1>11, <2>1
<1>12. CASE OtmAcceptor
  <2>1. UNCHANGED <<otmvars, kernel>> /\ Goes("loop", "accept", NULL)
    BY <1>12 DEF OtmAcceptor
  <2> QED  BY <1>11, <2>1 DEF Threads, Ats
<1>13. ASSUME NEW t \in Threads, OtmListenAsync(t) PROVE OtmTypes' /\ OtmInv'
  BY <1>6, <1>13 DEF OtmListenAsync
<1>14. ASSUME NEW t \in Threads, OtmListenSync(t) \/ OtmRecvSyncReturns(t) PROVE OtmTypes' /\ OtmInv'
  <2>1. UNCHANGED <<otmvars, kernel>> /\ \E at \in {"accept", "none"} : Goes(t, at, NULL)
    BY <1>14 DEF OtmListenSync, OtmRecvSyncReturns
  <2> QED  BY <1>11, <2>1 DEF Ats
<1>15. ASSUME NEW t \in Threads, UNCHANGED <<remotes, given, kernel>>,
              looked' = [looked EXCEPT ![t] = NULL],
              \A u \in Threads : doing'[u] = doing[u] \/ doing'[u].at # "callback"
       PROVE  OtmTypes' /\ OtmInv'
  <2>1. UNCHANGED <<holder, skt>>
    BY <1>15 DEF kernel
  <2>2. looked' \in [Threads -> Conns \cup {NULL}] /\ \A u \in Threads : looked'[u] \in {looked[u], NULL}
    BY <1>0, <1>15 DEF OtmTypes
  <2>3. \A fd \in Fds : holder'[fd] = holder[fd] \/ (holder[fd] \notin Conns /\ holder'[fd] \notin Conns)
    BY <2>1
  <2> QED  BY <1>0, <1>2, <1>3, <1>4, <1>15, <2>1, <2>2, <2>3, OtmQuiet
<1>16. ASSUME NEW t \in Threads, NEW c \in Conns, NEW op \in Ops, OtmTransferAsync(t, c, op)
       PROVE  OtmTypes' /\ OtmInv'
  BY <1>15, <1>16 DEF OtmTransferAsync, TransferAsync
<1>17. ASSUME NEW t \in Threads, NEW c \in Conns, NEW at \in {"sync", "recv"}, OtmTransferSync(t, c, at)
       PROVE  OtmTypes' /\ OtmInv'
  <2>1. UNCHANGED <<remotes, given, kernel>> /\ Goes(t, at, c) /\ looked' = [looked EXCEPT ![t] = NULL]
    BY <1>17 DEF OtmTransferSync, TransferSync
  <2>2. doing'[t].at = at /\ at # "callback" /\ \A u \in Threads \ {t} : doing'[u] = doing[u]
    BY <2>1, GoesFacts
  <2> QED  BY <1>15, <2>1, <2>2
<1>18. ASSUME NEW t \in Threads, NEW c \in Conns, OtmDisconnect(t, c) PROVE OtmTypes' /\ OtmInv'
  <2>1. /\ c \in remotes /\ Closes(c) /\ remotes' = remotes \ {c} /\ given' = given \ {c}
        /\ looked' = [looked EXCEPT ![t] = NULL] /\ looked[t] = c /\ doing' = doing
    BY <1>18 DEF OtmDisconnect, OtmHas, OtmCloses
  <2> QED  BY <1>0, <1>2, <1>3, <1>4, <2>1, OtmCloseKeeps
<1>19. ASSUME NEW t \in Threads, NEW refuse \in BOOLEAN, OtmAcceptorReturns(t, refuse)
       PROVE  OtmTypes' /\ OtmInv'
  <2> DEFINE c == doing[t].conn
  <2>1. Goes(t, IF t = "loop" THEN "return" ELSE "none", NULL) /\ doing[t].at = "callback" /\ looked[t] = NULL
        /\ looked' = looked
    BY <1>19 DEF OtmAcceptorReturns, OtmLeavesAcceptor
  <2>2. \A u \in Threads : doing'[u] = doing[u] \/ doing'[u].at # "callback"
    <3>1. /\ doing'[t].at = IF t = "loop" THEN "return" ELSE "none"
          /\ \A u \in Threads \ {t} : doing'[u] = doing[u]
      BY <2>1, GoesFacts
    <3> QED  BY <3>1
  <2>3. CASE ~refuse
    <3>1. UNCHANGED <<otmvars, kernel>>
      BY <1>19, <2>1, <2>3 DEF OtmAcceptorReturns, otmvars
    <3> QED  BY <1>6, <2>2, <3>1
  <2>4. CASE refuse
    <3>1. c \in remotes /\ Closes(c) /\ remotes' = remotes \ {c} /\ given' = given \ {c}
      BY <1>19, <2>4 DEF OtmAcceptorReturns, OtmCloses
    <3>2. c \in given
      BY <1>3, <3>1 DEF ListOpen
    <3>3. doing[t] = [at |-> "callback", conn |-> c]
      BY <1>0, <2>1 DEF DoingOK
    <3>4. looked' = [looked EXCEPT ![t] = NULL]
      BY <1>0, <2>1 DEF OtmTypes
    <3> HIDE DEF c
    <3> QED  BY <1>0, <1>2, <1>3, <1>4, <2>2, <3>1, <3>2, <3>3, <3>4, OtmCloseKeeps
  <2> QED  BY <2>3, <2>4
<1>20. ASSUME NEW t \in Threads, NEW c \in Conns, OtmLooks(t, c) PROVE OtmTypes' /\ OtmInv'
  <2>1. /\ c \in given /\ looked' = [looked EXCEPT ![t] = c] /\ UNCHANGED <<kernel, doing, remotes, given>>
        /\ "raced" \notin past' =>
             \A u \in Threads \ {t} : looked[u] # c /\ doing[u] # [at |-> "callback", conn |-> c]
    BY <1>20 DEF OtmLooks, Note
  <2>2. OtmTypes'
    BY <1>0, <2>1 DEF OtmTypes
  <2>3. looked'[t] = c /\ \A u \in Threads \ {t} : looked'[u] = looked[u]
    BY <1>0, <2>1 DEF OtmTypes
  <2>4. ListOpen'
    BY <1>3, <2>1 DEF ListOpen, kernel
  <2>5. LooksAlone'
    <3> SUFFICES ASSUME "raced" \notin past', NEW u \in Threads, looked'[u] # NULL
                 PROVE  /\ looked'[u] \in given
                        /\ \A v \in Threads \ {u} : /\ looked'[v] # looked'[u]
                                                    /\ doing[v] # [at |-> "callback", conn |-> looked'[u]]
      BY <2>1 DEF LooksAlone
    <3>1. CASE u = t
      BY <2>1, <2>3, <3>1
    <3>2. CASE u # t
      <4>1. /\ looked'[u] = looked[u] /\ looked[u] # c /\ looked[u] \in given
            /\ \A v \in Threads \ {u} : /\ looked[v] # looked[u]
                                        /\ doing[v] # [at |-> "callback", conn |-> looked[u]]
        BY <1>2, <1>3, <2>1, <2>3, <3>2 DEF LooksAlone
      <4> QED  BY <2>3, <4>1
    <3> QED  BY <3>1, <3>2
  <2> QED  BY <1>4, <2>2, <2>4, <2>5
<1>21. ASSUME NEW t \in Threads, NEW c \in Conns, NEW fd \in Fds, OtmAccept(t, c, fd)
       PROVE  OtmTypes' /\ OtmInv'
  <2>1. /\ skt[c] = NULL /\ holder[fd] = NULL /\ skt' = [skt EXCEPT ![c] = fd]
        /\ holder' = [holder EXCEPT ![fd] = c] /\ remotes' = remotes \cup {c} /\ given' = given \cup {c}
        /\ Goes(t, "callback", c) /\ looked' = looked
    BY <1>21 DEF OtmAccept, Opens
  <2>2. OtmTypes'
    BY <1>0, <2>1 DEF OtmTypes
  <2>3. /\ \A d \in Conns : skt'[d] = IF d = c THEN fd ELSE skt[d]
        /\ \A f \in Fds : holder'[f] = IF f = fd THEN c ELSE holder[f]
    BY <1>0, <2>1
  <2>4. c \notin given /\ c \notin remotes
    BY <1>2, <1>3, <2>1 DEF ListOpen
  <2>5. ListOpen'
    <3>1. \A d \in remotes : d \in Conns /\ d # c /\ skt[d] \in Fds /\ holder[skt[d]] = d /\ skt[d] # fd
      BY <1>0, <1>2, <1>3, <2>1, <2>4 DEF ListOpen, OtmTypes
    <3>2. \A d \in remotes' : skt'[d] \in Fds /\ holder'[skt'[d]] = d
      BY <2>1, <2>3, <3>1
    <3>3. \A f \in Fds : holder'[f] \in Conns => holder'[f] \in remotes'
      BY <1>3, <2>1, <2>3 DEF ListOpen
    <3>4. remotes' = given'
      BY <1>3, <2>1 DEF ListOpen
    <3> QED  BY <3>2, <3>3, <3>4 DEF ListOpen
  <2>6. doing'[t] = [at |-> "callback", conn |-> c] /\ \A u \in Threads \ {t} : doing'[u] = doing[u]
    BY <2>1, GoesFacts
  <2>7. LooksAlone'
    <3> SUFFICES ASSUME "raced" \notin past, NEW u \in Threads, looked[u] # NULL
                 PROVE  /\ looked[u] \in given'
                        /\ \A v \in Threads \ {u} : /\ looked[v] # looked[u]
                                                    /\ doing'[v] # [at |-> "callback", conn |-> looked[u]]
      BY <1>2, <2>1 DEF LooksAlone
    <3>1. /\ looked[u] \in given
          /\ \A v \in Threads \ {u} : /\ looked[v] # looked[u]
                                      /\ doing[v] # [at |-> "callback", conn |-> looked[u]]
      BY <1>3 DEF LooksAlone
    <3>2. looked[u] # c
      BY <2>4, <3>1
    <3>3. doing'[t].conn = c
      BY <2>6
    <3>4. doing'[t] # [at |-> "callback", conn |-> looked[u]]
      BY <3>2, <3>3
    <3> QED  BY <2>1, <2>6, <3>1, <3>4
  <2> QED  BY <1>4, <2>2, <2>5, <2>7
<1>22. ASSUME NEW t \in Threads, OtmCall(t) PROVE OtmTypes' /\ OtmInv'
  <2>1. CASE OtmUsesFreed(t)
    BY <1>9, <2>1 DEF OtmUsesFreed
  <2>2. CASE \E wild \in Fds : OtmRefusesFreed(t, wild)
    BY <1>9, <2>2 DEF OtmRefusesFreed
  <2> QED  BY <2>2, <1>13, <1>14, <1>16, <1>17, <1>18, <1>19, <1>20, <1>21, <1>22, <2>1 DEF OtmCall
<1>23. CASE OtmDeinit
  BY <1>9, <1>23 DEF OtmDeinit
<1> QED  BY <1>8, <1>10, <1>12, <1>22, <1>23 DEF OtmNext

(***************************************************************************)
(* The listening socket.                                                   *)
(***************************************************************************)

\* Only a listen puts a job in the slots of the listening socket.
LEMMA ListenKept ==
  ASSUME EndpointsInv, NEW op \in Ops,
         \/ SocketsStep \/ UNCHANGED slot
         \/ \E t \in Threads, c \in Conns, o \in Ops : TransferAsync(t, c, o)
  PROVE  slot'[Listen][op].job \in {slot[Listen][op].job, NULL}
<1>0. /\ KernelInv /\ ListenInv /\ ServiceOK /\ Listen \in Fds /\ Conns \subseteq Jobs
  BY SocketsAssumption DEF EndpointsInv, Conns
<1>1. ASSUME NEW fd, fd # Listen, NEW o \in Ops, NEW c \in Conns, PostOneshot(fd, o, c)
      PROVE  slot'[Listen][op] = slot[Listen][op]
  <2>1. Posted(fd, o, c)
    BY <1>0, <1>1, Posts
  <2> QED  BY <1>0, <1>1, <2>1 DEF Posted
<1>2. ASSUME NEW fd \in Fds, NEW o \in Ops, Call(fd, o)
      PROVE  slot'[Listen][op].job \in {slot[Listen][op].job, NULL}
  <2>1. Called(fd, o)
    BY <1>2, Calls
  <2>2. slot'[Listen][op] = slot[Listen][op] \/ slot'[Listen][op].job = NULL
    BY <1>0, <2>1 DEF Called
  <2> QED  BY <2>2
<1>3. ASSUME NEW t \in Threads, NEW c \in Conns, NEW o \in Ops, TransferAsync(t, c, o)
      PROVE  slot'[Listen][op] = slot[Listen][op]
  BY <1>0, <1>1, <1>3 DEF TransferAsync, KernelInv
<1>4. ASSUME NEW fd \in Fds, NEW o \in Ops, TransferGoesOn(fd, o)
      PROVE  slot'[Listen][op] = slot[Listen][op]
  <2>1. /\ doing["loop"].conn \in Conns /\ PostOneshot(fd, o, doing["loop"].conn)
        /\ doing["loop"].at = "transfer" /\ inflight = {<<fd, o, doing["loop"].conn>>}
    BY <1>0, <1>4 DEF TransferGoesOn, ServiceOK
  <2>2. fd # Listen
    BY <1>0, <2>1 DEF ListenInv
  <2> QED  BY <1>1, <2>1, <2>2
<1>5. CASE \E fd \in Fds, o \in Ops : CallHostJob(fd, o) \/ \E c \in Conns : CallTransfer(c, fd, o)
  BY <1>2, <1>5 DEF CallHostJob, CallTransfer
<1>6. CASE UNCHANGED slot
  BY <1>6
<1>7. CASE \/ (\E fd \in Fds : OtherOpens(fd)) \/ (\E t \in Threads : SyncReturns(t))
           \/ (\E fd \in Fds, o \in Ops : TransferEnds(fd, o)) \/ JobReturns \/ PeerConnects \/ StopService \/ AcceptFails
  <2>1. UNCHANGED slot
    BY <1>7 DEF OtherOpens, SyncReturns, TransferEnds, JobReturns, Return, PeerConnects, StopService, AcceptFails, Refuse,
                reactor
  <2> QED  BY <2>1
<1>8. CASE SocketsStep
  BY <1>4, <1>5, <1>7, <1>8 DEF SocketsStep
<1> QED  BY <1>3, <1>6, <1>8

\* Every step keeps transfers away from the listening socket.
LEMMA ListensInv ==
  ASSUME EndpointsInv, EndpointsNext
  PROVE  ListenInv'
<1>0. /\ ListenInv /\ ServiceOK /\ DoingOK /\ Listen \in Fds /\ NULL \notin Conns /\ HostJob \notin Conns
      /\ HostJob \in Jobs /\ "read" \in Ops /\ "write" \in Ops
  BY SocketsAssumption DEF EndpointsInv, EndpointsTypeOK, SocketsTypeOK, DoingOK, Ats, Conns, Ops
<1>1. ASSUME NEW fd, NEW o \in Ops, PostOneshot(fd, o, HostJob), NEW op \in Ops
      PROVE  slot'[Listen][op].job \in {slot[Listen][op].job, NULL, HostJob}
  <2>1. Posted(fd, o, HostJob)
    BY <1>0, <1>1, Posts
  <2>2. slot'[Listen][op] = slot[Listen][op] \/ slot'[Listen][op].job = HostJob
    BY <1>0, <2>1 DEF Posted
  <2> QED  BY <2>2
<1>2. ASSUME NEW op \in Ops PROVE slot'[Listen][op].job \in {slot[Listen][op].job, NULL, HostJob}
  <2>1. CASE JobGoesOn
    BY <2>1 DEF JobGoesOn
  <2>2. CASE PostOneshot(Listen, "read", HostJob) \/ PostOneshot(skt[local], "write", HostJob)
    BY <1>0, <1>1, <2>2
  <2>3. CASE \/ (\E t \in Threads, c \in Conns, o \in Ops : TransferAsync(t, c, o)) \/ JobReturns
             \/ \E fd \in Fds, o \in Ops :
                  \/ TransferEnds(fd, o) \/ TransferGoesOn(fd, o) \/ CallHostJob(fd, o)
                  \/ \E c \in Conns : CallTransfer(c, fd, o)
    <3>1. SocketsStep \/ \E t \in Threads, c \in Conns, o \in Ops : TransferAsync(t, c, o)
      BY <2>3 DEF SocketsStep
    <3> QED  BY <3>1, ListenKept
  <2> QED  BY <2>1, <2>2, <2>3, ServiceKinds DEF ServiceStep
<1>3. ASSUME doing'["loop"].at = "transfer", NEW op \in Ops, inflight' = {<<Listen, op, doing'["loop"].conn>>}
      PROVE  FALSE
  <2>1. CASE inflight' = inflight /\ doing'["loop"] = doing["loop"]
    BY <1>0, <1>3, <2>1 DEF ListenInv
  <2>2. ASSUME NEW fd \in Fds, NEW o \in Ops, NEW c \in Conns, CallTransfer(c, fd, o) PROVE FALSE
    <3>1. Called(fd, o) /\ slot[fd][o].job = c /\ doing'["loop"].conn = c
      BY <1>0, <2>2, Calls DEF CallTransfer, Goes, DoingOK, Threads
    <3>2. {<<fd, o, c>>} = {<<Listen, op, c>>}
      BY <1>3, <3>1 DEF Called
    <3>3. <<fd, o, c>> = <<Listen, op, c>>
      BY <3>2, Zenon
    <3>4. fd = Listen
      BY <3>3
    <3> QED  BY <1>0, <3>1, <3>4 DEF ListenInv
  <2>3. CASE JobGoesOn
    BY <1>3, <2>1, <2>3 DEF JobGoesOn
  <2>4. CASE /\ PostOneshot(Listen, "read", HostJob) \/ PostOneshot(skt[local], "write", HostJob)
             /\ doing'["loop"] = doing["loop"]
    <3>1. inflight' = inflight
      BY <1>0, <2>4, Posts
    <3> QED  BY <2>1, <2>4, <3>1
  <2>5. ASSUME NEW t \in Threads, NEW c \in Conns, NEW o \in Ops, TransferAsync(t, c, o) PROVE FALSE
    <3>1. inflight' = inflight /\ doing' = doing
      BY <2>5, Posts DEF TransferAsync, Conns
    <3> QED  BY <2>1, <3>1
  <2>6. CASE \/ JobReturns
             \/ \E fd \in Fds, o \in Ops : TransferEnds(fd, o) \/ TransferGoesOn(fd, o) \/ CallHostJob(fd, o)
    <3>1. doing'["loop"].at \in {"none", "done", "return", "lock"}
      BY <1>0, <2>6 DEF JobReturns, TransferEnds, TransferGoesOn, CallHostJob, Goes, DoingOK, Threads
    <3> QED  BY <1>3, <3>1
  <2> QED  BY <2>2, <2>3, <2>4, <2>5, <2>6, ServiceKinds DEF ServiceStep
<1> QED  BY <1>0, <1>2, <1>3 DEF ListenInv

(***************************************************************************)
(* The one-to-one server.                                                  *)
(***************************************************************************)

\* The connection the server knows.
OtoKnows ==
  /\ otoRemote # NULL => /\ skt[otoRemote] \in Fds
                         /\ holder[skt[otoRemote]] \in {otoRemote, NULL, "other"}
  /\ otoConnected => otoRemote # NULL
  /\ otoConnected /\ "disconnected" \notin past => holder[skt[otoRemote]] = otoRemote
  /\ \A t \in Threads : doing[t].at = "callback" => otoConnected

\* Without overlapping listens there is one connection, or one listen that
\* waits for it.
OneListen ==
  "overlap" \notin past =>
    /\ \A fd \in Fds : holder[fd] \in Conns => otoConnected /\ holder[fd] = otoRemote
    /\ otoConnected => /\ slot[Listen]["read"].job = NULL
                       /\ \A t \in Threads : doing[t].at \notin {"lock", "accept"}
    /\ slot[Listen]["read"].job # NULL =>
         \A t \in Threads : doing[t].at \notin {"lock", "accept"}
    /\ doing["user"].at = "accept" => doing["loop"].at \notin {"lock", "accept"}

OtoTypes == otoRemote \in Conns \cup {NULL} /\ otoConnected \in BOOLEAN

\* No thread comes to wait for a connection or into a callback.
OtoStays ==
  /\ \A t \in Threads :
       /\ doing'[t].at = "callback" => doing[t].at = "callback"
       /\ doing'[t].at \in {"lock", "accept"} => doing[t].at \in {"lock", "accept"}
  /\ doing'["user"].at = "accept" => doing["user"].at = "accept"
  /\ slot'[Listen]["read"].job \in {slot[Listen]["read"].job, NULL}

\* A step that leaves the one-to-one server's connection alone keeps what is known of it.
LEMMA OtoQuiet ==
  ASSUME OtoTypes, OtoKnows, OneListen, past \subseteq past', UNCHANGED <<otoRemote, otoConnected, skt>>,
         \A fd \in Fds : holder'[fd] = holder[fd] \/ (holder[fd] = NULL /\ holder'[fd] = "other"),
         OtoStays, NULL \notin Conns, "other" \notin Conns
  PROVE  OtoTypes' /\ OtoKnows' /\ OneListen'
<1>1. OtoTypes'
  BY DEF OtoTypes
<1>2. OtoKnows'
  BY DEF OtoTypes, OtoKnows, OtoStays
<1>3. OneListen'
  <2> SUFFICES ASSUME "overlap" \notin past' PROVE OneListen'
    BY DEF OneListen
  <2>1. "overlap" \notin past
    OBVIOUS
  <2> QED  BY <2>1 DEF OneListen, OtoStays, Threads
<1> QED  BY <1>1, <1>2, <1>3

\* Only one thread is in a callback of a connection: it has the mutex.
LEMMA OneCallback ==
  ASSUME EndpointsInv, Alive, NEW t \in Threads, NEW u \in Threads, doing[t].at = "callback", doing[u].at = "callback"
  PROVE  u = t
<1>1. MutexOK /\ Frames(t) <= Held(t) /\ Frames(u) <= Held(u)
  BY DEF EndpointsInv, EndpointsTypeOK, SocketsTypeOK, MutexOK, LockInv
<1>2. Frames(t) \in {1, 2} /\ Frames(u) \in {1, 2}
  BY DEF Frames
<1>3. Held(t) # 0 /\ Held(u) # 0
  BY <1>1, <1>2
<1> QED  BY <1>3 DEF Held

\* Every step keeps what the one-to-one server knows.
LEMMA OtoServerInv ==
  ASSUME EndpointsInv, EndpointsNext
  PROVE  OtoTypes' /\ OtoInv'
<1>0. /\ OtoTypes /\ OtoInv /\ KernelInv /\ Unborn /\ DoingOK /\ holder \in [Fds -> Holders] /\ host' = host
      /\ skt \in [Conns -> Fds \cup {NULL}] /\ ServiceOK /\ AcceptInv
  BY DEF EndpointsInv, EndpointsTypeOK, SocketsTypeOK, OtoTypes, Holders, DoingOK, Ats, EndpointsNext
<1>1. CASE host # "oto"
  BY <1>0, <1>1 DEF EndpointsNext, otovars, OtoTypes, OtoInv
<1> SUFFICES ASSUME host = "oto", OtoNext PROVE OtoTypes' /\ OtoInv'
  BY <1>1 DEF EndpointsNext
<1>2. /\ past \subseteq past' /\ Alive /\ NULL \notin Conns /\ NULL \notin Fds
      /\ "other" \notin Conns /\ "listen" \notin Conns /\ Listen \in Fds /\ "read" \in Ops
      /\ "loop" \in Threads /\ "user" \in Threads
  BY ThreadInv, SocketsAssumption DEF Conns, Ops, Threads
<1>3. OtoKnows /\ OneListen
  BY <1>0, <1>2 DEF OtoInv, OtoKnows, OneListen
<1>4. ASSUME OtoTypes', OtoKnows', OneListen' PROVE OtoTypes' /\ OtoInv'
  BY <1>4 DEF OtoInv, OtoKnows, OneListen
<1>5. ASSUME UNCHANGED otovars, life' \notin {"unborn", "up"} PROVE OtoTypes' /\ OtoInv'
  BY <1>0, <1>5 DEF OtoInv, Alive, otovars, OtoTypes
<1>6. ASSUME UNCHANGED <<otovars, kernel>>, OtoStays PROVE OtoTypes' /\ OtoInv'
  <2>1. UNCHANGED <<otoRemote, otoConnected, skt, holder>>
    BY <1>6 DEF otovars, kernel
  <2>2. \A fd \in Fds : holder'[fd] = holder[fd] \/ (holder[fd] = NULL /\ holder'[fd] = "other")
    BY <2>1
  <2> QED  BY <1>0, <1>2, <1>3, <1>4, <1>6, <2>1, <2>2, OtoQuiet
<1>7. ASSUME NEW t \in Threads, NEW at \in Ats \ {"lock", "accept", "callback"}, NEW c, Goes(t, at, c),
             slot'[Listen]["read"].job \in {slot[Listen]["read"].job, NULL}
      PROVE  OtoStays
  <2>1. doing'[t].at = at /\ at \notin {"lock", "accept", "callback"} /\ \A u \in Threads \ {t} : doing'[u] = doing[u]
    BY <1>7, GoesFacts
  <2> QED  BY <1>7, <2>1 DEF OtoStays, Threads
<1>8. CASE OtoInit
  <2>1. CASE ServerOpens
    <3>1. /\ life = "unborn" /\ holder' = [holder EXCEPT ![Listen] = "listen"]
          /\ UNCHANGED <<otoRemote, otoConnected, slot, doing>>
      BY <1>8, <2>1 DEF ServerOpens, OtoInit, otovars, reactor
    <3>2. /\ otoRemote = NULL /\ otoConnected = FALSE /\ doing = [t \in Threads |-> Idle]
          /\ slot = [fd \in Fds |-> [op \in Ops |-> Empty]] /\ \A fd \in Fds : holder[fd] \in {NULL, "other"}
      BY <1>0, <3>1 DEF Unborn
    <3>3. \A t \in Threads : doing'[t].at = "none"
      BY <3>1, <3>2 DEF Idle
    <3>4. slot'[Listen]["read"].job = NULL
      BY <1>2, <3>1, <3>2 DEF Empty
    <3>5. \A fd \in Fds : holder'[fd] \notin Conns
      BY <1>0, <1>2, <3>1, <3>2
    <3> QED  BY <1>2, <1>4, <3>1, <3>2, <3>3, <3>4, <3>5 DEF OtoTypes, OtoKnows, OneListen
  <2>2. CASE ServerFails \/ \E wild \in Fds : ServerClosesWild(wild)
    BY <1>5, <1>8, <2>2 DEF ServerFails, ServerClosesWild, OtoInit
  <2> QED  BY <1>8, <2>1, <2>2 DEF OtoInit
<1>9. CASE OtoDeinit
  BY <1>5, <1>9 DEF OtoDeinit
<1>10. CASE OtoAcceptor
  <2>1. /\ UNCHANGED <<otovars, kernel, slot>> /\ Goes("loop", "accept", NULL) /\ doing["loop"].at = "lock"
    BY <1>10 DEF OtoAcceptor, reactor
  <2>2. doing'["loop"].at = "accept" /\ doing'["user"] = doing["user"]
    BY <1>2, <2>1, GoesFacts DEF Threads
  <2>3. OtoStays
    BY <2>1, <2>2 DEF OtoStays, Threads
  <2> QED  BY <1>6, <2>1, <2>3
<1>11. ASSUME NEW t \in Threads, OtoListenAsync(t) PROVE OtoTypes' /\ OtoInv'
  <2>1. /\ ~otoConnected /\ UNCHANGED <<otoRemote, otoConnected, skt, holder, doing>>
        /\ "overlap" \notin past' => \A u \in Threads : doing[u].at \notin {"lock", "accept"}
    BY <1>11 DEF OtoListenAsync, OtoMayListen, OtoOverlap, Note, kernel, otovars
  <2>2. OtoTypes' /\ OtoKnows'
    BY <1>0, <1>2, <1>3, <2>1 DEF OtoTypes, OtoKnows
  <2>3. OneListen'
    BY <1>2, <1>3, <2>1 DEF OneListen
  <2> QED  BY <1>4, <2>2, <2>3
<1>12. ASSUME NEW t \in Threads, OtoListenSync(t) PROVE OtoTypes' /\ OtoInv'
  <2>1. /\ t = "user" /\ ~otoConnected /\ UNCHANGED <<otoRemote, otoConnected, skt, holder, slot>>
        /\ Goes(t, "accept", NULL)
        /\ "overlap" \notin past' => /\ slot[Listen]["read"].job = NULL
                                     /\ \A u \in Threads : doing[u].at \notin {"lock", "accept"}
    BY <1>12 DEF OtoListenSync, MayWait, OtoMayListen, OtoOverlap, Note, kernel, otovars, reactor
  <2>2. doing'["user"].at = "accept" /\ doing'["loop"] = doing["loop"]
    BY <1>2, <2>1, GoesFacts DEF Threads
  <2>3. \A u \in Threads : doing'[u].at = "callback" => doing[u].at = "callback"
    BY <2>2 DEF Threads
  <2>4. OtoTypes' /\ OtoKnows'
    BY <1>0, <1>2, <1>3, <2>1, <2>3 DEF OtoTypes, OtoKnows
  <2>5. OneListen'
    BY <1>2, <1>3, <2>1, <2>2 DEF OneListen
  <2> QED  BY <1>4, <2>4, <2>5
<1>13. ASSUME NEW t \in Threads, NEW op \in Ops, OtoTransferAsync(t, op) PROVE OtoTypes' /\ OtoInv'
  <2>1. TransferAsync(t, otoRemote, op) /\ otoRemote \in Conns /\ UNCHANGED <<otovars, kernel, doing>>
    BY <1>0, <1>13 DEF OtoTransferAsync, TransferAsync, OtoTypes
  <2>2. slot'[Listen]["read"].job \in {slot[Listen]["read"].job, NULL}
    BY <1>2, <2>1, ListenKept
  <2>3. OtoStays
    BY <2>1, <2>2 DEF OtoStays
  <2> QED  BY <1>6, <2>1, <2>3
<1>14. ASSUME NEW t \in Threads, OtoTransferSync(t) PROVE OtoTypes' /\ OtoInv'
  <2>1. Goes(t, "sync", otoRemote) /\ UNCHANGED <<otovars, kernel, slot>>
    BY <1>14 DEF OtoTransferSync, TransferSync, reactor
  <2> QED  BY <1>6, <1>7, <2>1 DEF Ats
<1>15. CASE SocketsStep /\ UNCHANGED otovars
  <2>1. slot'[Listen]["read"].job \in {slot[Listen]["read"].job, NULL}
    BY <1>2, <1>15, ListenKept
  <2>2. ASSUME NEW fd \in Fds, OtherOpens(fd) PROVE OtoTypes' /\ OtoInv'
    <3>1. /\ UNCHANGED <<otoRemote, otoConnected, skt, doing>> /\ holder[fd] = NULL
          /\ holder' = [holder EXCEPT ![fd] = "other"]
      BY <1>15, <2>2 DEF OtherOpens, otovars
    <3>2. \A f \in Fds : holder'[f] = holder[f] \/ (holder[f] = NULL /\ holder'[f] = "other")
      BY <1>0, <3>1
    <3>3. OtoStays
      BY <2>1, <3>1 DEF OtoStays
    <3> QED  BY <1>0, <1>2, <1>3, <1>4, <3>1, <3>2, <3>3, OtoQuiet
  <2>3. ASSUME NEW t \in Threads, SyncReturns(t) PROVE OtoTypes' /\ OtoInv'
    <3>1. Goes(t, "none", NULL) /\ UNCHANGED kernel
      BY <2>3 DEF SyncReturns
    <3> QED  BY <1>6, <1>7, <1>15, <2>1, <3>1 DEF Ats
  <2>4. ASSUME NEW fd \in Fds, NEW op \in Ops, TransferEnds(fd, op) \/ TransferGoesOn(fd, op)
        PROVE  OtoTypes' /\ OtoInv'
    <3>1. UNCHANGED kernel /\ \E at \in {"done", "return"}, c \in {NULL, doing["loop"].conn} : Goes("loop", at, c)
      BY <2>4 DEF TransferEnds, TransferGoesOn
    <3>2. OtoStays
      BY <1>2, <1>7, <2>1, <3>1 DEF Ats
    <3> QED  BY <1>6, <1>15, <3>1, <3>2
  <2>5. ASSUME NEW fd \in Fds, NEW op \in Ops, NEW c \in Conns, CallTransfer(c, fd, op)
        PROVE  OtoTypes' /\ OtoInv'
    <3>1. UNCHANGED kernel /\ Goes("loop", "transfer", c)
      BY <2>5 DEF CallTransfer
    <3>2. OtoStays
      BY <1>2, <1>7, <2>1, <3>1 DEF Ats
    <3> QED  BY <1>6, <1>15, <3>1, <3>2
  <2>6. CASE JobReturns
    <3>1. UNCHANGED kernel /\ Goes("loop", "none", NULL)
      BY <2>6 DEF JobReturns
    <3>2. OtoStays
      BY <1>2, <1>7, <2>1, <3>1 DEF Ats
    <3> QED  BY <1>6, <1>15, <3>1, <3>2
  <2>7. CASE PeerConnects \/ StopService \/ AcceptFails
    <3>1. UNCHANGED <<kernel, doing>>
      BY <2>7 DEF PeerConnects, StopService, AcceptFails
    <3> QED  BY <1>6, <1>15, <2>1, <3>1 DEF OtoStays
  <2>8. ASSUME NEW fd \in Fds, NEW op \in Ops, CallHostJob(fd, op) PROVE OtoTypes' /\ OtoInv'
    <3>1. /\ slot[fd][op].job = HostJob /\ Call(fd, op) /\ Goes("loop", "lock", NULL)
          /\ UNCHANGED <<otoRemote, otoConnected, skt, holder>>
      BY <1>15, <2>8 DEF CallHostJob, kernel, otovars
    <3>2. fd = Listen /\ op = "read" /\ slot[fd][op].oneshot
      BY <1>0, <1>2, <3>1 DEF AcceptInv
    <3>3. Called(fd, op)
      BY <3>1, Calls
    <3>4. slot'[Listen]["read"].job = NULL /\ slot[Listen]["read"].job # NULL
      BY <3>1, <3>2, <3>3, SocketsAssumption DEF Called
    <3>5. doing'["loop"].at = "lock" /\ doing'["user"] = doing["user"]
      BY <1>2, <3>1, GoesFacts DEF Threads
    <3>6. \A u \in Threads : doing'[u].at = "callback" => doing[u].at = "callback"
      BY <3>5 DEF Threads
    <3>7. OtoTypes' /\ OtoKnows'
      BY <1>0, <1>2, <1>3, <3>1, <3>6 DEF OtoTypes, OtoKnows
    <3>8. OneListen'
      <4> SUFFICES ASSUME "overlap" \notin past' PROVE OneListen'
        BY DEF OneListen
      <4>1. /\ \A f \in Fds : holder[f] \in Conns => otoConnected /\ holder[f] = otoRemote
            /\ ~otoConnected /\ \A u \in Threads : doing[u].at \notin {"lock", "accept"}
        BY <1>2, <1>3, <3>4 DEF OneListen
      <4> QED  BY <1>2, <3>1, <3>4, <3>5, <4>1 DEF OneListen
    <3> QED  BY <1>4, <3>7, <3>8
  <2> QED  BY <1>15, <2>2, <2>3, <2>4, <2>5, <2>6, <2>7, <2>8 DEF SocketsStep
<1>16. ASSUME otoRemote # NULL, Closes(otoRemote), OtoStays, otoRemote' = otoRemote,
              \/ otoConnected' = FALSE /\ \A u \in Threads : doing'[u].at # "callback"
              \/ otoConnected' = otoConnected /\ "disconnected" \in past'
       PROVE  OtoTypes' /\ OtoInv'
  <2>1. /\ otoRemote \in Conns /\ skt[otoRemote] \in Fds /\ skt' = skt
        /\ holder' = [holder EXCEPT ![skt[otoRemote]] = NULL]
    BY <1>0, <1>3, <1>16 DEF OtoTypes, OtoKnows, Closes
  <2>2. \A f \in Fds : holder'[f] = IF f = skt[otoRemote] THEN NULL ELSE holder[f]
    BY <1>0, <2>1
  <2>3. OtoTypes'
    BY <1>0, <1>16 DEF OtoTypes
  <2>4. OtoKnows'
    BY <1>0, <1>2, <1>3, <1>16, <2>1, <2>2 DEF OtoTypes, OtoKnows, OtoStays
  <2>5. OneListen'
    <3> SUFFICES ASSUME "overlap" \notin past' PROVE OneListen'
      BY DEF OneListen
    <3>1. /\ \A f \in Fds : holder[f] \in Conns => otoConnected /\ holder[f] = otoRemote
          /\ otoConnected => /\ slot[Listen]["read"].job = NULL
                             /\ \A t \in Threads : doing[t].at \notin {"lock", "accept"}
          /\ slot[Listen]["read"].job # NULL =>
               \A t \in Threads : doing[t].at \notin {"lock", "accept"}
          /\ doing["user"].at = "accept" => doing["loop"].at \notin {"lock", "accept"}
      BY <1>2, <1>3 DEF OneListen
    <3>2. \A f \in Fds : holder'[f] \notin Conns
      <4> SUFFICES ASSUME NEW f \in Fds, holder'[f] \in Conns PROVE FALSE
        OBVIOUS
      <4>1. f # skt[otoRemote] /\ holder[f] = otoRemote
        BY <1>2, <2>2, <3>1
      <4> QED  BY <1>0, <2>1, <4>1 DEF KernelInv
    <3>3. otoConnected' => otoConnected
      BY <1>0, <1>16 DEF OtoTypes
    <3>4. otoConnected' => /\ slot'[Listen]["read"].job = NULL
                           /\ \A t \in Threads : doing'[t].at \notin {"lock", "accept"}
      BY <1>16, <3>1, <3>3 DEF OtoStays
    <3>5. slot'[Listen]["read"].job # NULL => \A t \in Threads : doing'[t].at \notin {"lock", "accept"}
      BY <1>16, <3>1 DEF OtoStays
    <3>6. doing'["user"].at = "accept" => doing'["loop"].at \notin {"lock", "accept"}
      BY <1>2, <1>16, <3>1 DEF OtoStays
    <3> QED  BY <3>2, <3>4, <3>5, <3>6 DEF OneListen
  <2> QED  BY <1>4, <2>3, <2>4, <2>5
<1>17. ASSUME NEW t \in Threads, OtoDisconnect(t) PROVE OtoTypes' /\ OtoInv'
  <2>1. /\ OtoCloses /\ "disconnected" \in past' /\ UNCHANGED <<slot, doing, otovars>>
    BY <1>17 DEF OtoDisconnect, Note, reactor
  <2>2. OtoStays
    BY <2>1 DEF OtoStays
  <2>3. CASE otoRemote = NULL
    <3>1. UNCHANGED <<otoRemote, otoConnected, holder, skt>>
      BY <2>1, <2>3 DEF OtoCloses, otovars
    <3>2. \A fd \in Fds : holder'[fd] = holder[fd] \/ (holder[fd] = NULL /\ holder'[fd] = "other")
      BY <3>1
    <3> QED  BY <1>0, <1>2, <1>3, <1>4, <2>2, <3>1, <3>2, OtoQuiet
  <2>4. CASE otoRemote # NULL
    BY <1>16, <2>1, <2>2, <2>4 DEF OtoCloses, otovars
  <2> QED  BY <2>3, <2>4
<1>18. ASSUME NEW t \in Threads, NEW refuse \in BOOLEAN, OtoAcceptorReturns(t, refuse)
       PROVE  OtoTypes' /\ OtoInv'
  <2>1. /\ Goes(t, IF t = "loop" THEN "return" ELSE "none", NULL) /\ doing[t].at = "callback" /\ UNCHANGED slot
    BY <1>18 DEF OtoAcceptorReturns, reactor
  <2>2. /\ doing'[t].at = (IF t = "loop" THEN "return" ELSE "none")
        /\ \A u \in Threads \ {t} : doing'[u] = doing[u]
    BY <2>1, GoesFacts
  <2>3. OtoStays
    BY <2>1, <2>2 DEF OtoStays, Threads
  <2>4. CASE ~refuse
    BY <1>6, <1>18, <2>3, <2>4 DEF OtoAcceptorReturns
  <2>5. CASE refuse
    <3>1. OtoCloses /\ otoConnected' = FALSE /\ otoRemote' = otoRemote
      BY <1>18, <2>5 DEF OtoAcceptorReturns, OtoRefuses
    <3>2. otoRemote # NULL
      BY <1>3, <2>1 DEF OtoKnows
    <3>3. \A u \in Threads : doing'[u].at # "callback"
      BY <1>2, <2>1, <2>2, OneCallback
    <3> QED  BY <1>16, <2>3, <3>1, <3>2, <3>3 DEF OtoCloses
  <2> QED  BY <2>4, <2>5
<1>19. ASSUME NEW t \in Threads, NEW c \in Conns, NEW fd \in Fds, OtoAccept(t, c, fd)
       PROVE  OtoTypes' /\ OtoInv'
  <2>1. /\ doing[t].at = "accept" /\ skt' = [skt EXCEPT ![c] = fd] /\ holder' = [holder EXCEPT ![fd] = c]
        /\ otoConnected' = TRUE /\ otoRemote' = c /\ Goes(t, "callback", c) /\ UNCHANGED <<slot, past>>
    BY <1>19 DEF OtoAccept, Opens, reactor
  <2>2. skt'[c] = fd /\ holder'[fd] = c /\ \A f \in Fds : f # fd => holder'[f] = holder[f]
    BY <1>0, <2>1
  <2>3. doing'[t].at = "callback" /\ \A u \in Threads \ {t} : doing'[u] = doing[u]
    BY <2>1, GoesFacts
  <2>4. OtoTypes' /\ OtoKnows'
    BY <1>2, <2>1, <2>2 DEF OtoTypes, OtoKnows
  <2>5. OneListen'
    <3> SUFFICES ASSUME "overlap" \notin past PROVE OneListen'
      BY <2>1 DEF OneListen
    <3>1. ~otoConnected /\ slot[Listen]["read"].job = NULL /\ \A f \in Fds : holder[f] \notin Conns
      BY <1>3, <2>1 DEF OneListen
    <3>2. \A u \in Threads \ {t} : doing[u].at \notin {"lock", "accept"}
      <4>1. doing["user"].at = "accept" => doing["loop"].at \notin {"lock", "accept"}
        BY <1>3 DEF OneListen
      <4>2. doing["user"].at # "lock"
        BY <1>0 DEF ServiceOK
      <4> QED  BY <2>1, <4>1, <4>2 DEF Threads
    <3>3. \A u \in Threads : doing'[u].at \notin {"lock", "accept"}
      BY <2>3, <3>2
    <3>4. \A f \in Fds : holder'[f] \in Conns => holder'[f] = c
      BY <2>2, <3>1
    <3> QED  BY <1>2, <2>1, <3>1, <3>3, <3>4 DEF OneListen
  <2> QED  BY <1>4, <2>4, <2>5
<1>20. ASSUME NEW t \in Threads, OtoCall(t) PROVE OtoTypes' /\ OtoInv'
  BY <1>11, <1>12, <1>13, <1>14, <1>17, <1>18, <1>19, <1>20 DEF OtoCall
<1> QED  BY <1>8, <1>9, <1>10, <1>15, <1>20 DEF OtoNext

(***************************************************************************)
(* The client.                                                             *)
(***************************************************************************)

\* The socket of the client.
OneSocket ==
  /\ local # NULL => skt[local] \in Fds /\ holder[skt[local]] = local
  /\ remote # NULL => skt[remote] \in Fds
  /\ connected => local # NULL /\ remote = local
  /\ "setsockopt failed" \notin past => \A fd \in Fds : holder[fd] \in Conns => holder[fd] = local

\* The connector posted for it.
OneConnector ==
  /\ doing["user"].at \in {"connect", "aconnect"} => local # NULL /\ ~connected /\ ~Connecting
  /\ Connecting => local # NULL /\ remote = local /\ ~connected
  /\ doing["loop"].at = "lock" => \A fd \in Fds, op \in Ops : slot[fd][op].job # HostJob
  /\ \A fd \in Fds, op \in Ops :
       slot[fd][op].job = HostJob => op = "write" /\ slot[fd][op].oneshot /\ skt[local] = fd

ClientTypes == {local, remote} \subseteq Conns \cup {NULL} /\ connected \in BOOLEAN

\* Nobody comes to connect.
ClientStays ==
  /\ doing'["user"].at \in {"connect", "aconnect"} => doing["user"].at \in {"connect", "aconnect"}
  /\ doing'["loop"].at = "lock" => doing["loop"].at = "lock"
  /\ \A fd \in Fds, op \in Ops : slot'[fd][op].job = HostJob => slot'[fd][op] = slot[fd][op]

\* A step that leaves the client's socket alone keeps what is known of it.
LEMMA ClientQuiet ==
  ASSUME ClientTypes, OneSocket, OneConnector, past \subseteq past',
         UNCHANGED <<local, remote, connected, skt>>,
         \A fd \in Fds : holder'[fd] = holder[fd] \/ (holder[fd] = NULL /\ holder'[fd] = "other"),
         ClientStays, NULL \notin Conns, "other" \notin Conns
  PROVE  ClientTypes' /\ OneSocket' /\ OneConnector'
<1>1. ClientTypes'
  BY DEF ClientTypes
<1>2. OneSocket'
  BY DEF ClientTypes, OneSocket
<1>3. Connecting' => Connecting
  BY DEF Connecting, ClientStays
<1>4. /\ doing'["user"].at \in {"connect", "aconnect"} => local # NULL /\ ~connected /\ ~Connecting'
      /\ Connecting' => local # NULL /\ remote = local /\ ~connected
  BY <1>3 DEF OneConnector, ClientStays
<1>5. doing'["loop"].at = "lock" => \A fd \in Fds, op \in Ops : slot'[fd][op].job # HostJob
  BY DEF OneConnector, ClientStays
<1>6. ASSUME NEW fd \in Fds, NEW op \in Ops, slot'[fd][op].job = HostJob
      PROVE  op = "write" /\ slot'[fd][op].oneshot /\ skt[local] = fd
  BY <1>6 DEF OneConnector, ClientStays
<1> QED  BY <1>1, <1>2, <1>4, <1>5, <1>6 DEF OneConnector

\* The socket is closed and forgotten, while nobody connects it.
LEMMA ClientCloseKeeps ==
  ASSUME ClientTypes, OneSocket, KernelInv, holder \in [Fds -> Holders], past \subseteq past', NULL \notin Conns,
         local # NULL, Closes(local), local' = NULL, connected' = FALSE, remote' \in {local, remote},
         OneConnector'
  PROVE  ClientTypes' /\ OneSocket' /\ OneConnector'
<1>1. /\ local \in Conns /\ skt[local] \in Fds /\ skt' = skt
      /\ holder' = [holder EXCEPT ![skt[local]] = NULL]
  BY DEF ClientTypes, OneSocket, Closes
<1>2. \A f \in Fds : holder'[f] = IF f = skt[local] THEN NULL ELSE holder[f]
  BY <1>1
<1>3. ClientTypes'
  BY DEF ClientTypes
<1>4. remote' # NULL => skt'[remote'] \in Fds
  BY <1>1 DEF OneSocket
<1>5. ASSUME "setsockopt failed" \notin past', NEW f \in Fds, holder'[f] \in Conns PROVE FALSE
  <2>1. f # skt[local] /\ holder[f] = local
    BY <1>2, <1>5 DEF OneSocket
  <2> QED  BY <1>1, <2>1 DEF KernelInv
<1>6. OneSocket'
  BY <1>4, <1>5 DEF OneSocket
<1> QED  BY <1>3, <1>6

\* Every step keeps the socket of the client and its connector.
LEMMA ClientSocketInv ==
  ASSUME EndpointsInv, EndpointsNext
  PROVE  ClientTypes' /\ ClientInv'
<1>0. /\ ClientTypes /\ ClientInv /\ KernelInv /\ DoingOK /\ holder \in [Fds -> Holders] /\ host' = host
      /\ skt \in [Conns -> Fds \cup {NULL}] /\ ServiceOK
  BY DEF EndpointsInv, EndpointsTypeOK, SocketsTypeOK, ClientTypes, Holders, DoingOK, Ats, EndpointsNext
<1>1. CASE host # "client"
  BY <1>0, <1>1 DEF EndpointsNext, clientvars, ClientTypes, ClientInv
<1> SUFFICES ASSUME host = "client", ClientNext PROVE ClientTypes' /\ ClientInv'
  BY <1>1 DEF EndpointsNext
<1>2. /\ past \subseteq past' /\ Alive /\ NULL \notin Conns /\ NULL \notin Fds
      /\ "other" \notin Conns /\ "write" \in Ops /\ HostJob \in Jobs /\ HostJob # NULL
      /\ "loop" \in Threads /\ "user" \in Threads
  BY ThreadInv, SocketsAssumption DEF Conns, Ops, Threads
<1>3. OneSocket /\ OneConnector
  BY <1>0, <1>2 DEF ClientInv, OneSocket, OneConnector
<1>4. ASSUME ClientTypes', OneSocket', OneConnector' PROVE ClientTypes' /\ ClientInv'
  BY <1>4 DEF ClientInv, OneSocket, OneConnector
<1>5. ASSUME ClientTypes', life' \notin {"unborn", "up"} PROVE ClientTypes' /\ ClientInv'
  BY <1>5 DEF ClientInv, Alive
<1>6. ASSUME UNCHANGED <<clientvars, kernel>>, ClientStays PROVE ClientTypes' /\ ClientInv'
  <2>1. UNCHANGED <<local, remote, connected, skt, holder>>
    BY <1>6 DEF clientvars, kernel
  <2>2. \A fd \in Fds : holder'[fd] = holder[fd] \/ (holder[fd] = NULL /\ holder'[fd] = "other")
    BY <2>1
  <2> QED  BY <1>0, <1>2, <1>3, <1>4, <1>6, <2>1, <2>2, ClientQuiet
<1>7. ASSUME NEW t \in Threads, NEW at \in Ats \ {"lock", "connect", "aconnect"}, NEW c, Goes(t, at, c),
             \A fd \in Fds, op \in Ops : slot'[fd][op].job = HostJob => slot'[fd][op] = slot[fd][op]
      PROVE  ClientStays
  <2>1. /\ doing'[t].at = at /\ at \notin {"lock", "connect", "aconnect"}
        /\ \A u \in Threads \ {t} : doing'[u] = doing[u]
    BY <1>7, GoesFacts
  <2> QED  BY <1>7, <2>1 DEF ClientStays, Threads
<1>8. ASSUME NEW t \in Threads,
             \/ ClientIsConnected(t) \/ ClientRefused(t) \/ ClientRefusedAsync(t) \/ ClientCallbackReturns(t)
             \/ ClientKeepsLock(t) \/ ClientTransferSync(t)
      PROVE  ClientTypes' /\ ClientInv'
  <2>1. /\ UNCHANGED <<clientvars, kernel, slot>>
        /\ \E at \in {"kept", "connected", "none", "return", "sync"}, c \in {NULL, remote} : Goes(t, at, c)
    BY <1>8 DEF ClientIsConnected, ClientRefused, ClientRefusedAsync, ClientCallbackReturns, ClientKeepsLock,
                ClientTransferSync, TransferSync, reactor
  <2>2. ClientStays
    BY <1>7, <2>1 DEF Ats
  <2> QED  BY <1>6, <2>1, <2>2
<1>9. ASSUME NEW c \in Conns, NEW fd, NEW op \in Ops, PostOneshot(fd, op, c)
      PROVE  \A f \in Fds, o \in Ops : slot'[f][o].job = HostJob => slot'[f][o] = slot[f][o]
  <2>1. Posted(fd, op, c) /\ c # HostJob
    BY <1>9, Posts DEF Conns
  <2> QED  BY <2>1 DEF Posted
<1>10. ASSUME NEW t \in Threads, NEW op \in Ops, ClientTransferAsync(t, op) PROVE ClientTypes' /\ ClientInv'
  <2>1. /\ PostOneshot(skt[remote], op, remote) /\ remote \in Conns /\ UNCHANGED <<clientvars, kernel, doing>>
    BY <1>0, <1>10 DEF ClientTransferAsync, TransferAsync, ClientTypes
  <2>2. ClientStays
    BY <1>9, <2>1 DEF ClientStays
  <2> QED  BY <1>6, <2>1, <2>2
<1>11. CASE SocketsStep /\ UNCHANGED clientvars
  <2>1. ASSUME NEW fd \in Fds, OtherOpens(fd) PROVE ClientTypes' /\ ClientInv'
    <3>1. /\ UNCHANGED <<local, remote, connected, skt, doing, slot>> /\ holder[fd] = NULL
          /\ holder' = [holder EXCEPT ![fd] = "other"]
      BY <1>11, <2>1 DEF OtherOpens, clientvars, reactor
    <3>2. \A f \in Fds : holder'[f] = holder[f] \/ (holder[f] = NULL /\ holder'[f] = "other")
      BY <1>0, <3>1
    <3>3. ClientStays
      BY <3>1 DEF ClientStays
    <3> QED  BY <1>0, <1>2, <1>3, <1>4, <3>1, <3>2, <3>3, ClientQuiet
  <2>2. ASSUME NEW t \in Threads, SyncReturns(t) PROVE ClientTypes' /\ ClientInv'
    <3>1. Goes(t, "none", NULL) /\ UNCHANGED <<kernel, slot>>
      BY <2>2 DEF SyncReturns, reactor
    <3> QED  BY <1>6, <1>7, <1>11, <3>1 DEF Ats
  <2>3. ASSUME NEW fd \in Fds, NEW op \in Ops, TransferEnds(fd, op) PROVE ClientTypes' /\ ClientInv'
    <3>1. UNCHANGED <<kernel, slot>> /\ Goes("loop", "done", doing["loop"].conn)
      BY <2>3 DEF TransferEnds, reactor
    <3>2. ClientStays
      BY <1>2, <1>7, <3>1 DEF Ats
    <3> QED  BY <1>6, <1>11, <3>1, <3>2
  <2>4. ASSUME NEW fd \in Fds, NEW op \in Ops, TransferGoesOn(fd, op) PROVE ClientTypes' /\ ClientInv'
    <3>1. /\ UNCHANGED kernel /\ Goes("loop", "return", NULL) /\ doing["loop"].conn \in Conns
          /\ PostOneshot(fd, op, doing["loop"].conn)
      BY <1>0, <2>4 DEF TransferGoesOn, ServiceOK
    <3>2. ClientStays
      BY <1>2, <1>7, <1>9, <3>1 DEF Ats
    <3> QED  BY <1>6, <1>11, <3>1, <3>2
  <2>5. ASSUME NEW fd \in Fds, NEW op \in Ops, NEW c \in Conns, CallTransfer(c, fd, op)
        PROVE  ClientTypes' /\ ClientInv'
    <3>1. UNCHANGED kernel /\ Goes("loop", "transfer", c) /\ Called(fd, op)
      BY <2>5, Calls DEF CallTransfer
    <3>2. \A f \in Fds, o \in Ops : slot'[f][o].job = HostJob => slot'[f][o] = slot[f][o]
      BY <1>2, <3>1 DEF Called
    <3>3. ClientStays
      BY <1>2, <1>7, <3>1, <3>2 DEF Ats
    <3> QED  BY <1>6, <1>11, <3>1, <3>3
  <2>6. CASE JobReturns
    <3>1. UNCHANGED <<kernel, slot>> /\ Goes("loop", "none", NULL)
      BY <2>6 DEF JobReturns, Return
    <3>2. ClientStays
      BY <1>2, <1>7, <3>1 DEF Ats
    <3> QED  BY <1>6, <1>11, <3>1, <3>2
  <2>7. CASE PeerConnects \/ StopService \/ AcceptFails
    <3>1. UNCHANGED <<kernel, doing, slot>>
      BY <2>7 DEF PeerConnects, StopService, AcceptFails, Refuse, reactor
    <3> QED  BY <1>6, <1>11, <3>1 DEF ClientStays
  <2>8. ASSUME NEW fd \in Fds, NEW op \in Ops, CallHostJob(fd, op) PROVE ClientTypes' /\ ClientInv'
    <3>1. /\ slot[fd][op].job = HostJob /\ Called(fd, op) /\ Goes("loop", "lock", NULL)
          /\ UNCHANGED <<local, remote, connected, skt, holder, past>>
      BY <1>11, <2>8, Calls DEF CallHostJob, kernel, clientvars
    <3>2. Connecting
      BY <3>1 DEF Connecting
    <3>3. \A f \in Fds, o \in Ops : slot'[f][o].job # HostJob
      <4>1. op = "write" /\ fd = skt[local] /\ slot[fd][op].oneshot
        BY <1>3, <3>1 DEF OneConnector
      <4>2. slot'[fd][op].job = NULL
        BY <3>1, <4>1 DEF Called
      <4> SUFFICES ASSUME NEW f \in Fds, NEW o \in Ops, slot'[f][o].job = HostJob PROVE FALSE
        OBVIOUS
      <4>3. slot'[f][o] = slot[f][o]
        BY <1>2, <3>1 DEF Called
      <4>4. o = "write" /\ f = skt[local]
        BY <1>3, <4>3 DEF OneConnector
      <4> QED  BY <1>2, <4>1, <4>2, <4>4
    <3>4. doing'["loop"].at = "lock" /\ doing'["user"] = doing["user"]
      BY <1>2, <3>1, GoesFacts DEF Threads
    <3>5. /\ doing["user"].at \notin {"connect", "aconnect"} /\ local # NULL /\ remote = local /\ ~connected
      BY <1>3, <3>2 DEF OneConnector
    <3>6. OneConnector'
      BY <3>1, <3>3, <3>4, <3>5 DEF OneConnector
    <3>7. ClientTypes' /\ OneSocket'
      BY <1>0, <1>3, <3>1 DEF ClientTypes, OneSocket
    <3> QED  BY <1>4, <3>6, <3>7
  <2> QED  BY <1>11, <2>1, <2>2, <2>3, <2>4, <2>5, <2>6, <2>7, <2>8 DEF SocketsStep
<1>12. ASSUME NEW c \in Conns, NEW fd \in Fds, Opens(c, fd), local = NULL
       PROVE  /\ skt'[c] = fd /\ holder'[fd] = c /\ ~connected /\ ~Connecting
              /\ doing["user"].at \notin {"connect", "aconnect"}
              /\ \A f \in Fds : holder'[f] = IF f = fd THEN c ELSE holder[f]
              /\ remote # NULL => skt'[remote] \in Fds
  <2>1. skt' = [skt EXCEPT ![c] = fd] /\ holder' = [holder EXCEPT ![fd] = c]
    BY <1>12 DEF Opens
  <2>2. skt'[c] = fd /\ \A f \in Fds : holder'[f] = IF f = fd THEN c ELSE holder[f]
    BY <1>0, <2>1
  <2>3. ~connected /\ ~Connecting /\ doing["user"].at \notin {"connect", "aconnect"}
    BY <1>3, <1>12 DEF OneSocket, OneConnector
  <2>4. remote # NULL => skt'[remote] \in Fds
    BY <1>0, <1>3, <2>1 DEF OneSocket, ClientTypes
  <2> QED  BY <2>2, <2>3, <2>4
<1>13. ASSUME NEW t \in Threads, NEW c \in Conns, NEW fd \in Fds, ClientNoSocket(t, c, fd)
       PROVE  ClientTypes' /\ ClientInv'
  <2>1. /\ Opens(c, fd) /\ local = NULL /\ "setsockopt failed" \in past'
        /\ UNCHANGED <<local, remote, connected, doing, slot>>
    BY <1>13 DEF ClientNoSocket, Note, clientvars, reactor
  <2>2. ClientTypes' /\ OneSocket'
    BY <1>0, <1>12, <2>1 DEF ClientTypes, OneSocket
  <2>3. ~Connecting' /\ doing'["user"].at \notin {"connect", "aconnect"}
    BY <1>12, <2>1 DEF Connecting
  <2>4. OneConnector'
    BY <2>3 DEF Connecting, OneConnector
  <2> QED  BY <1>4, <2>2, <2>4
<1>14. ASSUME NEW t \in Threads, NEW c \in Conns, NEW fd \in Fds, NEW at \in {"connect", "aconnect", "kept"},
              ClientInitSocket(t, c, fd, at)
       PROVE  ClientTypes' /\ ClientInv'
  <2>1. /\ Opens(c, fd) /\ t = "user" /\ local = NULL /\ local' = c /\ Goes(t, at, NULL)
        /\ UNCHANGED <<remote, connected, slot, past>>
    BY <1>14 DEF ClientInitSocket, MayWait, reactor
  <2>2. doing'["loop"] = doing["loop"]
    BY <1>2, <2>1, GoesFacts DEF Threads
  <2>3. ~Connecting' /\ ~connected'
    BY <1>12, <2>1, <2>2 DEF Connecting
  <2>4. ClientTypes'
    BY <1>0, <2>1 DEF ClientTypes
  <2>5. OneConnector'
    BY <1>2, <2>1, <2>3 DEF OneConnector, Connecting
  <2>6. ASSUME "setsockopt failed" \notin past, NEW f \in Fds, holder'[f] \in Conns PROVE holder'[f] = c
    <3>1. holder'[f] = IF f = fd THEN c ELSE holder[f]
      BY <1>12, <2>1
    <3>2. holder[f] \notin Conns
      BY <1>2, <1>3, <2>1, <2>6 DEF OneSocket
    <3> QED  BY <2>6, <3>1, <3>2
  <2>7. OneSocket'
    BY <1>2, <1>12, <2>1, <2>3, <2>6 DEF OneSocket
  <2> QED  BY <1>4, <2>4, <2>5, <2>7
<1>15. ASSUME NEW t \in Threads, NEW c \in Conns, NEW fd \in Fds, ClientAborts(t, c, fd)
       PROVE  ClientTypes' /\ ClientInv'
  <2>1. ClientTypes' /\ life' = "aborted"
    BY <1>0, <1>15 DEF ClientAborts, ClientTypes
  <2> QED  BY <1>5, <2>1
<1>16. CASE ClientDeinit
  <2>1. ClientTypes' /\ life' = "deinit"
    BY <1>0, <1>16 DEF ClientDeinit, ClientCloses, ClientTypes
  <2> QED  BY <1>5, <2>1
<1>17. ASSUME local # NULL, ~Connecting', doing'["user"].at \notin {"connect", "aconnect"},
              \/ ClientCloses /\ remote' \in {local, remote}
              \/ /\ remote' = local /\ connected' = TRUE /\ UNCHANGED <<local, kernel, past>>
       PROVE  ClientTypes' /\ ClientInv'
  <2>1. OneConnector'
    BY <1>17 DEF Connecting, OneConnector
  <2>2. CASE ClientCloses /\ remote' \in {local, remote}
    <3>1. Closes(local) /\ local' = NULL /\ connected' = FALSE
      BY <2>2 DEF ClientCloses
    <3> QED  BY <1>0, <1>2, <1>3, <1>4, <1>17, <2>1, <2>2, <3>1, ClientCloseKeeps
  <2>3. CASE remote' = local /\ connected' = TRUE /\ UNCHANGED <<local, kernel, past>>
    <3>1. UNCHANGED <<holder, skt>>
      BY <2>3 DEF kernel
    <3>2. ClientTypes' /\ OneSocket'
      BY <1>0, <1>3, <1>17, <2>3, <3>1 DEF ClientTypes, OneSocket
    <3> QED  BY <1>4, <2>1, <3>2
  <2> QED  BY <1>17, <2>2, <2>3
<1>18. ASSUME NEW t \in Threads, NEW errno \in BOOLEAN, ClientConnects(t, errno) PROVE ClientTypes' /\ ClientInv'
  <2>1. /\ doing[t].at = "connect" /\ Goes(t, "connected", NULL) /\ UNCHANGED slot /\ remote' = local
        /\ ClientCloses \/ (connected' = TRUE /\ UNCHANGED <<local, kernel, past>>)
    BY <1>18 DEF ClientConnects, reactor
  <2>2. t = "user" /\ doing["user"].at = "connect"
    BY <1>0, <2>1 DEF ServiceOK, Threads
  <2>3. local # NULL /\ ~Connecting
    BY <1>3, <2>2 DEF OneConnector
  <2>4. doing'["user"].at = "connected" /\ doing'["loop"] = doing["loop"]
    BY <1>2, <2>1, <2>2, GoesFacts DEF Threads
  <2>5. ~Connecting'
    BY <2>1, <2>3, <2>4 DEF Connecting
  <2> QED  BY <1>17, <2>1, <2>3, <2>4, <2>5
<1>19. ASSUME NEW err \in BOOLEAN, ClientConnector(err) PROVE ClientTypes' /\ ClientInv'
  <2>1. /\ doing["loop"].at = "lock" /\ Goes("loop", "connected", NULL) /\ UNCHANGED <<slot, remote>>
        /\ ClientCloses \/ (connected' = TRUE /\ UNCHANGED <<local, kernel, past>>)
    BY <1>19 DEF ClientConnector, reactor
  <2>2. Connecting
    BY <2>1 DEF Connecting
  <2>3. /\ local # NULL /\ remote = local /\ doing["user"].at \notin {"connect", "aconnect"}
        /\ \A fd \in Fds, op \in Ops : slot[fd][op].job # HostJob
    BY <1>3, <2>1, <2>2 DEF OneConnector
  <2>4. doing'["loop"].at = "connected" /\ doing'["user"] = doing["user"]
    BY <1>2, <2>1, GoesFacts DEF Threads
  <2>5. ~Connecting'
    BY <2>1, <2>3, <2>4 DEF Connecting
  <2> QED  BY <1>17, <2>1, <2>3, <2>4, <2>5
<1>20. ASSUME NEW t \in Threads, ClientDisconnect(t) PROVE ClientTypes' /\ ClientInv'
  <2>1. connected /\ ClientCloses /\ UNCHANGED <<slot, doing, remote>>
    BY <1>20 DEF ClientDisconnect, ClientMayDisconnect, reactor
  <2>2. local # NULL /\ ~Connecting /\ doing["user"].at \notin {"connect", "aconnect"}
    BY <1>3, <2>1 DEF OneSocket, OneConnector
  <2>3. ~Connecting' /\ doing'["user"].at \notin {"connect", "aconnect"}
    BY <2>1, <2>2 DEF Connecting
  <2> QED  BY <1>17, <2>1, <2>2, <2>3
<1>21. ASSUME NEW t \in Threads, ClientPostsConnector(t) PROVE ClientTypes' /\ ClientInv'
  <2>1. /\ doing[t].at = "aconnect" /\ Goes(t, "none", NULL) /\ remote' = local
        /\ PostOneshot(skt[local], "write", HostJob) /\ UNCHANGED <<local, connected, skt, holder, past>>
    BY <1>21 DEF ClientPostsConnector, kernel
  <2>2. t = "user" /\ doing["user"].at = "aconnect"
    BY <1>0, <2>1 DEF ServiceOK, Threads
  <2>3. local # NULL /\ ~Connecting /\ ~connected
    BY <1>3, <2>2 DEF OneConnector
  <2>4. doing'["user"].at = "none" /\ doing'["loop"] = doing["loop"]
    BY <1>2, <2>1, <2>2, GoesFacts DEF Threads
  <2>5. Posted(skt[local], "write", HostJob)
    BY <1>2, <2>1, Posts
  <2>6. ASSUME NEW fd \in Fds, NEW op \in Ops, slot'[fd][op].job = HostJob
        PROVE  op = "write" /\ slot'[fd][op].oneshot /\ fd = skt[local]
    BY <2>3, <2>5, <2>6 DEF Posted, Connecting
  <2>7. doing'["loop"].at # "lock"
    BY <2>3, <2>4 DEF Connecting
  <2>8. OneConnector'
    BY <2>1, <2>3, <2>4, <2>6, <2>7 DEF OneConnector
  <2>9. ClientTypes' /\ OneSocket'
    BY <1>0, <1>3, <2>1, <2>3 DEF ClientTypes, OneSocket
  <2> QED  BY <1>4, <2>8, <2>9
<1>22. ASSUME NEW t \in Threads, ClientCall(t) PROVE ClientTypes' /\ ClientInv'
  <2>1. CASE \E c \in Conns, fd \in Fds : ClientConnectSync(t, c, fd) \/ ClientConnectAsync(t, c, fd)
    BY <1>14, <2>1 DEF ClientConnectSync, ClientConnectAsync
  <2> QED  BY <1>8, <1>10, <1>13, <1>15, <1>18, <1>20, <1>21, <1>22, <2>1 DEF ClientCall
<1> QED  BY <1>11, <1>16, <1>19, <1>22 DEF ClientNext

(***************************************************************************)
(* The theorems.                                                           *)
(***************************************************************************)

\* A host that was just made satisfies the invariant.
LEMMA EndpointsInvInit ==
  ASSUME EndpointsInit
  PROVE  EndpointsInv
<1>1. /\ accepting = TRUE /\ slot = [fd \in Fds |-> [op \in Ops |-> Empty]] /\ inflight = {}
      /\ holder = [fd \in Fds |-> NULL] /\ skt = [c \in Conns |-> NULL] /\ backlog = 0 /\ mutex = Free
      /\ doing = [t \in Threads |-> Idle] /\ owed = {} /\ hurt = FALSE /\ past = {}
      /\ (host \in {"otm", "oto"} /\ life = "unborn") \/ (host = "client" /\ life = "up")
  BY DEF EndpointsInit, SocketsInit, Init
<1>2. /\ remotes = {} /\ looked = [t \in Threads |-> NULL] /\ given = {} /\ otoConnected = FALSE
      /\ otoRemote = NULL /\ local = NULL /\ remote = NULL /\ connected = FALSE
  BY DEF EndpointsInit, OtmStart, OtoStart, ClientStart
<1>3. /\ Listen \in Fds /\ HostJob \in Jobs /\ NULL \notin Fds \cup Jobs /\ NULL \notin Conns
      /\ MaxBacklog \in Nat /\ MaxDepth \in Nat
  BY SocketsAssumption DEF Conns
<1>4. /\ \A t \in Threads : doing[t] = Idle /\ doing[t].at = "none" /\ doing[t].conn = NULL
      /\ \A fd \in Fds : holder[fd] = NULL
      /\ \A fd \in Fds, op \in Ops : slot[fd][op] = Empty /\ slot[fd][op].job = NULL
      /\ mutex.owner = "nobody" /\ mutex.depth = 0 /\ "loop" \in Threads /\ "user" \in Threads
  BY <1>1 DEF Idle, Empty, Free, Threads
<1>5. EndpointsTypeOK
  <2>1. mutex \in [owner : Threads \cup {"nobody"}, depth : 0..MaxDepth]
    BY <1>1, <1>3 DEF Free
  <2>2. Idle \in [at : Ats, conn : Conns \cup {NULL}]
    BY DEF Idle, Ats
  <2>3. doing \in [Threads -> [at : Ats, conn : Conns \cup {NULL}]]
    BY <1>1, <2>2
  <2>4. /\ holder \in [Fds -> Conns \cup {NULL, "listen", "other"}]
        /\ skt \in [Conns -> Fds \cup {NULL}] /\ backlog \in 0..MaxBacklog
    BY <1>1, <1>3
  <2>5. SocketsTypeOK
    BY <1>1, <1>4, <2>1, <2>3, <2>4 DEF SocketsTypeOK, Ats
  <2> QED  BY <1>2, <2>5 DEF EndpointsTypeOK
<1>6. ServiceOK
  <2>1. Empty \in [job : Jobs \cup {NULL}, oneshot : BOOLEAN]
    BY DEF Empty
  <2> QED  BY <1>1, <1>4, <2>1 DEF ServiceOK
<1>7. LockInv
  <2>1. \A t \in Threads : Frames(t) = 0 /\ Held(t) = 0
    BY <1>4 DEF Frames, Held
  <2> QED  BY <1>1, <2>1 DEF LockInv
<1>8. Unborn
  BY <1>1, <1>2, <1>4 DEF Unborn
<1>9. KernelInv
  BY <1>1, <1>3, <1>4, SocketsAssumption DEF KernelInv
<1>10. AcceptInv /\ ListenInv
  BY <1>1, <1>3, <1>4 DEF AcceptInv, ListenInv
<1>11. OtmInv
  BY <1>1, <1>2, <1>3, <1>4 DEF OtmInv
<1>12. OtoInv
  BY <1>1, <1>2, <1>3, <1>4 DEF OtoInv, Ops
<1>13. ClientInv
  BY <1>1, <1>2, <1>3, <1>4 DEF ClientInv, Connecting
<1>14. JobInv
  BY <1>1, <1>3, <1>4 DEF JobInv
<1>15. OverInv /\ ClosesOwn
  BY <1>1 DEF OverInv, NothingLeft, ClosesOwn
<1> QED  BY <1>5, <1>6, <1>7, <1>8, <1>9, <1>10, <1>11, <1>12, <1>13, <1>14, <1>15 DEF EndpointsInv

\* Every step keeps the invariant.
LEMMA EndpointsInvNext ==
  ASSUME EndpointsInv, [EndpointsNext]_endpointvars
  PROVE  EndpointsInv'
<1>1. CASE EndpointsNext
  <2>1. host' \in {"otm", "oto", "client"}
    BY <1>1 DEF EndpointsInv, EndpointsTypeOK, SocketsTypeOK, EndpointsNext
  <2>2. SocketsTypeOK'
    <3>1. /\ MutexOK' /\ DoingOK' /\ past' \subseteq Events
          /\ life' \in {"unborn", "failed", "up", "deinit", "aborted", "undefined"}
      BY <1>1, ThreadInv
    <3>2. owed' \subseteq Conns \X Ops /\ backlog' \in 0..MaxBacklog
      BY <1>1, ServiceInv, AcceptsInv
    <3>3. holder' \in [Fds -> Holders] /\ skt' \in [Conns -> Fds \cup {NULL}] /\ hurt' \in BOOLEAN
      BY <1>1, DescriptorInv
    <3> QED  BY <2>1, <3>1, <3>2, <3>3 DEF SocketsTypeOK, MutexOK, DoingOK, Ats, Events, Holders
  <2>3. EndpointsTypeOK'
    <3>1. OtmTypes' /\ OtoTypes' /\ ClientTypes'
      BY <1>1, OtmListInv, OtoServerInv, ClientSocketInv
    <3> QED  BY <2>2, <3>1 DEF EndpointsTypeOK, OtmTypes, OtoTypes, ClientTypes
  <2>4. ServiceOK' /\ LockInv' /\ Unborn' /\ KernelInv' /\ AcceptInv'
    BY <1>1, ServiceInv, ThreadInv, LifeInv, DescriptorInv, AcceptsInv
  <2>5. ListenInv' /\ OtmInv' /\ OtoInv' /\ ClientInv' /\ JobInv' /\ OverInv' /\ ClosesOwn'
    BY <1>1, ListensInv, OtmListInv, OtoServerInv, ClientSocketInv, JobsInv, LifeInv
  <2> QED  BY <2>3, <2>4, <2>5 DEF EndpointsInv
<1>2. CASE UNCHANGED endpointvars
  <2>1. /\ UNCHANGED <<accepting, slot, inflight, holder, skt, hurt, host, backlog, mutex, doing, life, owed, past>>
        /\ UNCHANGED <<remotes, looked, given, otoConnected, otoRemote, local, remote, connected>>
    BY <1>2 DEF endpointvars, svars, reactor, kernel, otmvars, otovars, clientvars
  <2>2. EndpointsTypeOK'
    BY <2>1 DEF EndpointsInv, EndpointsTypeOK, SocketsTypeOK
  <2>3. ServiceOK'
    BY <2>1 DEF EndpointsInv, ServiceOK
  <2>4. LockInv'
    BY <2>1 DEF EndpointsInv, LockInv, Alive, Frames, Held
  <2>5. Unborn' /\ KernelInv'
    BY <2>1 DEF EndpointsInv, Unborn, KernelInv
  <2>6. AcceptInv' /\ ListenInv'
    BY <2>1 DEF EndpointsInv, AcceptInv, ListenInv, Alive
  <2>7. OtmInv'
    BY <2>1 DEF EndpointsInv, OtmInv, Alive
  <2>8. OtoInv'
    BY <2>1 DEF EndpointsInv, OtoInv, Alive
  <2>9. ClientInv'
    BY <2>1 DEF EndpointsInv, ClientInv, Alive, Connecting
  <2>10. JobInv'
    BY <2>1 DEF EndpointsInv, JobInv, Alive
  <2>11. OverInv' /\ ClosesOwn'
    BY <2>1 DEF EndpointsInv, OverInv, NothingLeft, ClosesOwn
  <2> QED  BY <2>2, <2>3, <2>4, <2>5, <2>6, <2>7, <2>8, <2>9, <2>10, <2>11 DEF EndpointsInv
<1> QED  BY <1>1, <1>2

\* The invariant holds in every reachable state.
LEMMA EndpointsInvAlways == EndpointsSpec => []EndpointsInv
  BY EndpointsInvInit, EndpointsInvNext, PTL DEF EndpointsSpec

\* What each host believes of its connections is what the kernel knows, for
\* any number of descriptors, connections, waiting peers and transfers: the
\* list of otm_server_tcp, the connection of oto_server_tcp, the socket and
\* the connector of client_tcp.
THEOREM HostsAlwaysIntact == EndpointsSpec => []HostIntact
<1>1. EndpointsInv => HostIntact
  <2> SUFFICES ASSUME EndpointsInv PROVE HostIntact
    OBVIOUS
  <2>1. EndpointsTypeOK
    BY DEF EndpointsInv
  <2>2. OtmListed
    <3>1. ASSUME host = "otm", life = "up"
          PROVE  /\ remotes = given
                 /\ {holder[fd] : fd \in Fds} \cap Conns = remotes
                 /\ \A c \in remotes : holder[skt[c]] = c
      <4>1. /\ remotes = given /\ \A fd \in Fds : holder[fd] \in Conns => holder[fd] \in remotes
            /\ \A c \in remotes : skt[c] \in Fds /\ holder[skt[c]] = c
        BY <3>1 DEF EndpointsInv, OtmInv, Alive
      <4>2. {holder[fd] : fd \in Fds} \cap Conns \subseteq remotes
        BY <4>1
      <4>3. remotes \subseteq {holder[fd] : fd \in Fds} \cap Conns
        BY <2>1, <4>1 DEF EndpointsTypeOK
      <4> QED  BY <4>1, <4>2, <4>3
    <3> QED  BY <3>1 DEF OtmListed, EndpointsInv, OverInv
  <2>3. OtoOneConnection
    BY DEF OtoOneConnection, EndpointsInv, OtoInv, Alive
  <2>4. ClientOneSocket
    BY DEF ClientOneSocket, EndpointsInv, ClientInv, Alive, Connecting, Ops
  <2> QED  BY <2>1, <2>2, <2>3, <2>4 DEF HostIntact
<1> QED  BY <1>1, EndpointsInvAlways, PTL

\* Every call of a host gives back what it took of the mutex, except the calls
\* that the code leaves locked.
THEOREM LockAlwaysGivenBack == EndpointsSpec => []LockGivenBack
<1>1. EndpointsInv => LockGivenBack
  BY DEF EndpointsInv, LockInv, LockGivenBack, Alive, Held
<1> QED  BY <1>1, EndpointsInvAlways, PTL

\* A host closes only descriptors of its own, except after
\* oto_server_tcp_disconnect, when setsockopt fails, and when a callback of the
\* one-to-many server refuses a connection that it has disconnected.
THEOREM OnlyOwnClosed == EndpointsSpec => []ClosesOwn
<1>1. EndpointsInv => ClosesOwn
  BY DEF EndpointsInv
<1> QED  BY <1>1, EndpointsInvAlways, PTL

\* The job of a transfer meets the descriptor of its own connection, if callers
\* wait for its callback before they close the connection.
THEOREM JobsNeverStale == EndpointsSpec => []NoStaleJob
<1>1. EndpointsInv => NoStaleJob
  BY DEF EndpointsInv, JobInv, NoStaleJob, Alive
<1> QED  BY <1>1, EndpointsInvAlways, PTL

\* The loop calls an acceptor only when there is a connection to accept, if no
\* thread listens synchronously beside it.
THEOREM AcceptGoesOn == EndpointsSpec => []AcceptNeverBlocks
<1>1. EndpointsInv => AcceptNeverBlocks
  <2> SUFFICES ASSUME EndpointsInv, doing["loop"].at = "accept", "listen_sync" \notin past
               PROVE  backlog > 0
    BY DEF AcceptNeverBlocks
  <2> QED  BY DEF EndpointsInv, AcceptInv, Threads
<1> QED  BY <1>1, EndpointsInvAlways, PTL

\* A host that is freed, or could not be set up, leaves no descriptor open,
\* except after overlapping listens and when setsockopt has failed.
THEOREM NothingEverLeft == EndpointsSpec => []NothingLeft
<1>1. EndpointsInv => NothingLeft
  BY DEF EndpointsInv, OverInv
<1> QED  BY <1>1, EndpointsInvAlways, PTL
=============================================================================
