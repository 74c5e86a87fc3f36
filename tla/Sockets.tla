------------------------------- MODULE Sockets -------------------------------
(***************************************************************************)
(* What the TCP hosts of network/ have in common: the two servers          *)
(* (OtmServer, OtoServer) and the client (Client).                         *)
(*                                                                         *)
(* A host keeps descriptors, guards its state by a recursive mutex and     *)
(* works in jobs of the I/O service, taken by its promise, Reactor.        *)
(* Closing a connection closes its descriptor but removes no job from the  *)
(* service, and a host remembers numbers of descriptors: the kernel may    *)
(* have given the number to somebody else when the host uses it again.     *)
(*                                                                         *)
(* Two threads call a host: "loop", from the callbacks of its jobs, and    *)
(* "user", which alone makes the calls that wait, outside any callback.  A *)
(* call that does not wait while it holds the mutex is one action.  A      *)
(* connection is a job too: the transfers started on it.                   *)
(***************************************************************************)
EXTENDS Integers, FiniteSets, Reactor

CONSTANTS
  Listen,       \* the descriptor of a server's listening socket
  HostJob,      \* the host's own job, the acceptor or the connector; the
                \* other Jobs are the connections
  MaxBacklog,   \* bound: connections that wait to be accepted
  MaxDepth,     \* bound: how often a thread locks the mutex
  MaxOwed       \* bound: transfers under way

ASSUME SocketsAssumption ==
  /\ Listen \in Fds /\ HostJob \in Jobs /\ NULL \notin Fds \cup Jobs
  /\ {"listen", "other"} \cap (Jobs \cup {NULL}) = {}
  /\ MaxBacklog \in Nat \ {0} /\ MaxDepth \in Nat \ {0} /\ MaxOwed \in Nat \ {0}

VARIABLES
  host,      \* which host it is: "otm", "oto" or "client"
  holder,    \* kernel: what each number was given to: NULL (it is free), a
             \* connection, "listen" or "other" (another part of the process)
  skt,       \* the number of each connection's descriptor
  backlog,   \* kernel: the connections that wait at the listening socket
  mutex,     \* the owner of the host's mutex and how often it has locked it
  doing,     \* what each thread is in the middle of, for which connection
  life,      \* of the host: "unborn", "failed", "up", "deinit", "aborted" (a
             \* failed assertion) or "undefined" (freed memory was used)
  owed,      \* history: the transfers callers have started while jobs were
             \* accepted and whose callback has not been called
  hurt,      \* history: a close() has hit a descriptor of somebody else
  past       \* history: the events the properties make exceptions for

reactor == <<accepting, slot, inflight>>
kernel == <<holder, skt, hurt>>
svars == <<reactor, kernel, host, backlog, mutex, doing, life, owed, past>>

Conns == Jobs \ {HostJob}
Threads == {"loop", "user"}
Idle == [at |-> "none", conn |-> NULL]
Free == [owner |-> "nobody", depth |-> 0]

SocketsInit(name, state) ==
  /\ Init
  /\ host = name
  /\ holder = [fd \in Fds |-> NULL]
  /\ skt = [c \in Conns |-> NULL]
  /\ backlog = 0
  /\ mutex = Free
  /\ doing = [t \in Threads |-> Idle]
  /\ life = state
  /\ owed = {}
  /\ hurt = FALSE
  /\ past = {}

Note(events) == past' = past \cup events
Goes(t, at, c) == doing' = [doing EXCEPT ![t] = [at |-> at, conn |-> c]]

(***************************************************************************)
(* The mutex.                                                              *)
(***************************************************************************)

\* The mutex is free, or this thread has it.
CanLock(t) == mutex.owner \in {"nobody", t}

\* pthread_mutex_lock, times over.
Lock(t, times) ==
  /\ CanLock(t) /\ mutex.depth + times <= MaxDepth
  /\ mutex' = [owner |-> t, depth |-> mutex.depth + times]

\* pthread_mutex_unlock, times over.
Unlock(times) ==
  mutex' = IF mutex.depth = times THEN Free ELSE [mutex EXCEPT !.depth = @ - times]

\* A thread may begin a call: "user" between its calls, either of them in a
\* callback of a connection or of a transfer.
MayCall(t) ==
  /\ life = "up"
  /\ \/ doing[t].at \in {"callback", "connected", "kept", "done"}
     \/ t = "user" /\ doing[t].at = "none"

\* The thread may make a call that waits.
MayWait(t) == life = "up" /\ t = "user" /\ doing[t].at = "none"

(***************************************************************************)
(* Descriptors.                                                            *)
(***************************************************************************)

\* The kernel gives a free number to a new connection (Listen is kept for a
\* server's socket).
Opens(c, fd) ==
  /\ skt[c] = NULL /\ holder[fd] = NULL /\ fd # Listen
  /\ skt' = [skt EXCEPT ![c] = fd]
  /\ holder' = [holder EXCEPT ![fd] = c]
  /\ UNCHANGED hurt

\* The connection is closed with a transfer that has not called back.
BusyNote(c) == IF \E op \in Ops : <<c, op>> \in owed THEN {"closed busy"} ELSE {}

\* close() of the number of a connection, whoever holds it now.
Closes(c) ==
  /\ holder' = [holder EXCEPT ![skt[c]] = NULL]
  /\ hurt' = (hurt \/ holder[skt[c]] \notin {c, NULL})
  /\ UNCHANGED skt

\* Bound: another part of the process holds one descriptor at most.
OtherRoom == \A fd \in Fds : holder[fd] # "other"

\* Another part of the process opens a descriptor.
OtherOpens(fd) ==
  /\ life \in {"unborn", "up"} /\ fd # Listen /\ holder[fd] = NULL /\ OtherRoom
  /\ holder' = [holder EXCEPT ![fd] = "other"]
  /\ UNCHANGED <<reactor, skt, hurt, backlog, mutex, doing, life, past, owed>>

(***************************************************************************)
(* Jobs and transfers.                                                     *)
(***************************************************************************)

\* Mutant: the job is not a oneshot one.
PostForGood(fd, op, job) ==
  \/ Post(fd, op, FALSE, job)
  \/ (~accepting \/ slot[fd][op].job # NULL) /\ UNCHANGED reactor

\* io_service_post_job of a oneshot job, which may be dropped.
PostOneshot(fd, op, job) ==
  \/ Post(fd, op, TRUE, job)
  \/ (~accepting \/ slot[fd][op].job # NULL) /\ UNCHANGED reactor

\* The asynchronous send or receive of a host, on the number it remembers.  One
\* that overlaps another of its kind is the subject of Transfer.
TransferAsync(t, c, op) ==
  /\ CanLock(t) /\ <<c, op>> \notin owed /\ Cardinality(owed) < MaxOwed
  /\ PostOneshot(skt[c], op, c)
  /\ owed' = IF accepting THEN owed \cup {<<c, op>>} ELSE owed
  /\ Note(IF holder[skt[c]] = c THEN {} ELSE {"stale transfer"})
  /\ UNCHANGED <<kernel, backlog, mutex, doing, life>>

\* The synchronous send or receive of a host, which waits with the mutex.
TransferSync(t, c, at) ==
  /\ Lock(t, 1)
  /\ Goes(t, at, c)
  /\ Note(IF holder[skt[c]] = c THEN {} ELSE {"stale transfer"})
  /\ UNCHANGED <<reactor, kernel, backlog, life, owed>>

\* It returns and unlocks the mutex.
SyncReturns(t) ==
  /\ life = "up" /\ doing[t].at = "sync"
  /\ Unlock(1)
  /\ Goes(t, "none", NULL)
  /\ UNCHANGED <<reactor, kernel, backlog, life, past, owed>>

\* The service calls the host's own job.
CallHostJob(fd, op) ==
  /\ life = "up" /\ slot[fd][op].job = HostJob
  /\ fd = Listen => backlog > 0
  /\ Call(fd, op)
  /\ Goes("loop", "lock", NULL)
  /\ UNCHANGED <<kernel, backlog, mutex, life, past, owed>>

\* The service calls the job of a transfer.
CallTransfer(c, fd, op) ==
  /\ life = "up" /\ slot[fd][op].job = c /\ holder[fd] # NULL
  /\ Call(fd, op)
  /\ Goes("loop", "transfer", c)
  /\ UNCHANGED <<kernel, backlog, mutex, life, past, owed>>

\* A transfer that is not complete posts itself again.
TransferGoesOn(fd, op) ==
  LET c == doing["loop"].conn
  IN  /\ life = "up" /\ doing["loop"].at = "transfer" /\ inflight = {<<fd, op, c>>}
      /\ PostOneshot(fd, op, c)
      /\ Goes("loop", "return", NULL)
      /\ UNCHANGED <<kernel, backlog, mutex, life, past, owed>>

\* A transfer is complete or has failed: its callback is called.
TransferEnds(fd, op) ==
  LET c == doing["loop"].conn
  IN  /\ life = "up" /\ doing["loop"].at = "transfer" /\ inflight = {<<fd, op, c>>}
      /\ owed' = owed \ {<<c, op>>}
      /\ Goes("loop", "done", c)
      /\ UNCHANGED <<reactor, kernel, backlog, mutex, life, past>>

\* A job returns to the service.
JobReturns ==
  /\ life = "up" /\ doing["loop"].at \in {"return", "done"}
  /\ Return
  /\ Goes("loop", "none", NULL)
  /\ UNCHANGED <<kernel, backlog, mutex, life, past, owed>>

\* A peer connects to the listening socket.
PeerConnects ==
  /\ life = "up" /\ holder[Listen] = "listen" /\ backlog < MaxBacklog
  /\ backlog' = backlog + 1
  /\ UNCHANGED <<reactor, kernel, mutex, doing, life, past, owed>>

\* accept() fails in an acceptor: assert(afd >= 0).
AcceptFails ==
  /\ life = "up" /\ \E t \in Threads : doing[t].at = "accept"
  /\ life' = "aborted"
  /\ UNCHANGED <<reactor, kernel, backlog, mutex, doing, past, owed>>

\* io_service_stop.
StopService ==
  /\ life = "up" /\ accepting /\ Refuse
  /\ UNCHANGED <<kernel, backlog, mutex, doing, life, past, owed>>

\* The steps that are the same for every host.
SocketsStep ==
  \/ \E fd \in Fds : OtherOpens(fd)
  \/ \E t \in Threads : SyncReturns(t)
  \/ \E fd \in Fds, op \in Ops :
       \/ TransferEnds(fd, op) \/ TransferGoesOn(fd, op) \/ CallHostJob(fd, op)
       \/ \E c \in Conns : CallTransfer(c, fd, op)
  \/ JobReturns \/ PeerConnects \/ StopService \/ AcceptFails

(***************************************************************************)
(* Setting up and taking down a server.                                    *)
(***************************************************************************)

\* The listening socket is bound and listens.
ServerOpens ==
  /\ life = "unborn"
  /\ life' = "up"
  /\ holder' = [holder EXCEPT ![Listen] = "listen"]
  /\ UNCHANGED <<reactor, skt, hurt, backlog, mutex, doing, past, owed>>

\* No address, no socket that can be bound, or listen() fails: what was opened
\* is closed again.
ServerFails ==
  /\ life = "unborn"
  /\ life' = "failed"
  /\ UNCHANGED <<reactor, kernel, backlog, mutex, doing, past, owed>>

\* setsockopt() fails: the socket stays open and the number in local.skt, not
\* yet assigned, is closed.
ServerClosesWild(wild) ==
  /\ life = "unborn"
  /\ life' = "failed"
  /\ holder' = [holder EXCEPT ![Listen] = "listen", ![wild] = NULL]
  /\ hurt' = (hurt \/ holder[wild] # NULL)
  /\ Note({"setsockopt failed"})
  /\ UNCHANGED <<reactor, skt, backlog, mutex, doing, owed>>

\* The loop has ended and "user" is outside any call: the host may be freed.
MayDeinit == MayWait("user") /\ CanLock("user") /\ ~accepting /\ doing["loop"].at = "none"

(***************************************************************************)
(* Properties.                                                             *)
(***************************************************************************)

\* The type of every variable.
SocketsTypeOK ==
  /\ host \in {"otm", "oto", "client"}
  /\ holder \in [Fds -> Conns \cup {NULL, "listen", "other"}]
  /\ skt \in [Conns -> Fds \cup {NULL}]
  /\ backlog \in 0..MaxBacklog
  /\ mutex \in [owner : Threads \cup {"nobody"}, depth : 0..MaxDepth]
  /\ mutex.owner = "nobody" <=> mutex.depth = 0
  /\ doing \in [Threads -> [at : {"none", "lock", "accept", "callback", "connect", "aconnect",
                                  "connected", "kept", "transfer", "done", "return", "sync", "recv"},
                            conn : Conns \cup {NULL}]]
  /\ life \in {"unborn", "failed", "up", "deinit", "aborted", "undefined"}
  /\ owed \subseteq Conns \X Ops
  /\ hurt \in BOOLEAN
  /\ past \subseteq {"closed busy", "stale transfer", "setsockopt failed", "kept", "raced",
                     "listen_sync", "overlap", "disconnected", "refused gone"}

\* How often the calls a thread is in have locked the mutex; a synchronous
\* listen locks it, and the acceptor it calls locks it again.
Frames(t) ==
  CASE doing[t].at \in {"accept", "callback"} -> IF t = "user" THEN 2 ELSE 1
    [] doing[t].at \in {"sync", "recv", "connect", "aconnect", "connected", "kept"} -> 1
    [] OTHER -> 0

\* A thread holds the mutex of a host exactly as deep as the calls it is in:
\* every call gives back what it took, so no other thread waits for ever,
\* except after the calls that do not unlock (otm_server_tcp_recv_sync and the
\* error paths of client_tcp_connect_sync and client_tcp_connect_async).
LockGivenBack ==
  "kept" \notin past /\ life = "up" =>
    \A t \in Threads : Frames(t) = IF mutex.owner = t THEN mutex.depth ELSE 0

\* A host closes only its own descriptors, although it remembers numbers that
\* it has closed, except after oto_server_tcp_disconnect, which leaves the
\* server believing that it is connected, when setsockopt fails in the
\* initialisation of a server, and when a callback of the one-to-many server
\* refuses a connection that it has disconnected.
ClosesOwn == hurt => past \cap {"disconnected", "setsockopt failed", "refused gone"} # {}

\* No transfer meets a descriptor that is not its connection's: the jobs in
\* the service are for connections that still hold their number, if callers
\* close a connection only after all its transfers have called back, and start
\* transfers on open connections only.
NoStaleJob ==
  life = "up" /\ past \cap {"closed busy", "stale transfer"} = {} =>
    \A fd \in Fds, op \in Ops :
      slot[fd][op].job \in Conns => holder[fd] = slot[fd][op].job

\* The loop never waits in accept(), holding the mutex and holding up every
\* other job of the service, if no thread listens synchronously beside it.
AcceptNeverBlocks ==
  doing["loop"].at = "accept" /\ "listen_sync" \notin past => backlog > 0

\* A host that is freed, or that could not be set up, leaves no descriptor
\* open, except after overlapping listens of the one-to-one server and when
\* setsockopt has failed.
NothingLeft ==
  life \in {"failed", "deinit"} /\ past \cap {"overlap", "setsockopt failed"} = {} =>
    \A fd \in Fds : holder[fd] \in {NULL, "other"}
=============================================================================
