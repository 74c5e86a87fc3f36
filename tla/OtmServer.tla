------------------------------ MODULE OtmServer ------------------------------
(***************************************************************************)
(* The TCP server of network/one-to-many/server.c, which keeps its         *)
(* connections in a list.  A connection is an element of the list; callers *)
(* get its address in the connection callback.  A call for a connection    *)
(* looks at connection->host before it locks the mutex.                    *)
(***************************************************************************)
EXTENDS Sockets

VARIABLES
  remotes,   \* server->remotes_list
  looked,    \* the connection a thread has looked at and is to lock for
  given      \* history: the connections callers were given and have not
             \* given back, by a disconnect or a refusing callback

otmvars == <<remotes, looked, given>>

OtmStart == remotes = {} /\ looked = [t \in Threads |-> NULL] /\ given = {}

\* otm_server_tcp_init.
OtmInit ==
  /\ ServerOpens \/ ServerFails \/ \E wild \in Fds : ServerClosesWild(wild)
  /\ UNCHANGED otmvars

OtmMayCall(t) == MayCall(t) /\ looked[t] = NULL

\* otm_server_tcp_listen_async.
OtmListenAsync(t) ==
  /\ OtmMayCall(t) /\ CanLock(t)
  /\ PostOneshot(Listen, "read", HostJob)
  /\ UNCHANGED <<kernel, backlog, mutex, doing, life, past, otmvars, owed>>

\* otm_server_tcp_listen_sync and tcp_acceptor up to accept().
OtmListenSync(t) ==
  /\ MayWait(t) /\ looked[t] = NULL
  /\ Lock(t, 2)
  /\ Goes(t, "accept", NULL)
  /\ Note({"listen_sync"})
  /\ UNCHANGED <<reactor, kernel, backlog, life, otmvars, owed>>

\* tcp_acceptor, called by the service, locks the mutex.
OtmAcceptor ==
  /\ life = "up" /\ doing["loop"].at = "lock"
  /\ Lock("loop", 1)
  /\ Goes("loop", "accept", NULL)
  /\ UNCHANGED <<reactor, kernel, backlog, life, past, otmvars, owed>>

\* tcp_acceptor: accept() has waited for a connection; the callback is called.
OtmAccept(t, c, fd) ==
  /\ life = "up" /\ doing[t].at = "accept" /\ backlog > 0
  /\ Opens(c, fd)
  /\ backlog' = backlog - 1
  /\ remotes' = remotes \cup {c}
  /\ given' = given \cup {c}
  /\ Goes(t, "callback", c)
  /\ UNCHANGED <<reactor, mutex, life, past, looked, owed>>

\* close_connection and list_remove_element.
OtmCloses(c) ==
  /\ Closes(c) /\ Note(BusyNote(c))
  /\ remotes' = remotes \ {c}

\* Mutant: a server that serves everybody accepts until accept() fails.
OtmAcceptsOn(t) == Goes(t, "accept", NULL) /\ UNCHANGED mutex

\* Mutant: nothing is unlocked.
OtmLeavesLocked(t) == Goes(t, IF t = "loop" THEN "return" ELSE "none", NULL) /\ UNCHANGED mutex

\* tcp_acceptor and otm_server_tcp_listen_sync unlock and return.
OtmLeavesAcceptor(t) ==
  /\ Unlock(Frames(t))
  /\ Goes(t, IF t = "loop" THEN "return" ELSE "none", NULL)

\* tcp_acceptor: the callback has returned; a connection that it refuses is
\* closed (OtmRefusesFreed, if it has disconnected it as well).
OtmAcceptorReturns(t, refuse) ==
  LET c == doing[t].conn
  IN  /\ life = "up" /\ doing[t].at = "callback" /\ looked[t] = NULL
      /\ IF refuse THEN c \in remotes /\ OtmCloses(c) /\ given' = given \ {c}
                   ELSE UNCHANGED <<kernel, past, remotes, given>>
      /\ OtmLeavesAcceptor(t)
      /\ UNCHANGED <<reactor, backlog, life, looked, owed>>

\* tcp_acceptor: the callback has disconnected the connection and refuses it.
\* The element is freed: a number is read from it and closed, whatever it is by
\* now, and the element is removed from the list, and freed, once more.
OtmRefusesFreed(t, wild) ==
  /\ life = "up" /\ doing[t].at = "callback" /\ looked[t] = NULL
  /\ doing[t].conn \notin remotes
  /\ holder' = [holder EXCEPT ![wild] = NULL]
  /\ hurt' = (hurt \/ holder[wild] # NULL)
  /\ Note({"refused gone"})
  /\ life' = "undefined"
  /\ UNCHANGED <<reactor, skt, backlog, mutex, doing, otmvars, owed>>

\* A call for a connection looks at connection->host and finds the server.  It
\* races if another thread handles the same connection.
OtmLooks(t, c) ==
  /\ OtmMayCall(t) /\ c \in given
  /\ looked' = [looked EXCEPT ![t] = c]
  /\ Note(IF \E u \in Threads \ {t} : looked[u] = c \/ doing[u] = [at |-> "callback", conn |-> c]
          THEN {"raced"} ELSE {})
  /\ UNCHANGED <<reactor, kernel, backlog, mutex, doing, life, remotes, given, owed>>

\* It locks the mutex and uses the connection, which may be freed by now.
OtmUsesFreed(t) ==
  /\ life = "up" /\ looked[t] # NULL /\ CanLock(t) /\ looked[t] \notin remotes
  /\ life' = "undefined"
  /\ UNCHANGED <<reactor, kernel, backlog, mutex, doing, past, otmvars, owed>>

\* The thread has locked the mutex and the connection is still there.
OtmHas(t, c) == life = "up" /\ looked[t] = c /\ CanLock(t) /\ c \in remotes

\* otm_server_tcp_disconnect.
OtmDisconnect(t, c) ==
  /\ OtmHas(t, c)
  /\ OtmCloses(c)
  /\ given' = given \ {c}
  /\ looked' = [looked EXCEPT ![t] = NULL]
  /\ UNCHANGED <<reactor, backlog, mutex, doing, life, owed>>

\* otm_server_tcp_send_async, otm_server_tcp_recv_async.
OtmTransferAsync(t, c, op) ==
  /\ OtmHas(t, c)
  /\ TransferAsync(t, c, op)
  /\ looked' = [looked EXCEPT ![t] = NULL]
  /\ UNCHANGED <<remotes, given>>

\* otm_server_tcp_send_sync ("sync"), otm_server_tcp_recv_sync ("recv").
OtmTransferSync(t, c, at) ==
  /\ OtmHas(t, c) /\ MayWait(t)
  /\ TransferSync(t, c, at)
  /\ looked' = [looked EXCEPT ![t] = NULL]
  /\ UNCHANGED <<remotes, given>>

\* otm_server_tcp_recv_sync returns; its last statement locks the mutex again.
OtmRecvSyncReturns(t) ==
  /\ life = "up" /\ doing[t].at = "recv"
  /\ Lock(t, 1)
  /\ Goes(t, "none", NULL)
  /\ Note({"kept"})
  /\ UNCHANGED <<reactor, kernel, backlog, life, otmvars, owed>>

\* Mutant: only the listening socket is closed.
OtmClosesListen ==
  /\ holder' = [holder EXCEPT ![Listen] = NULL]
  /\ UNCHANGED <<hurt, skt>>

\* Every connection of the list and the listening socket are closed.
OtmClosesAll ==
  /\ holder' = [fd \in Fds |-> IF fd = Listen \/ \E c \in remotes : skt[c] = fd
                               THEN NULL ELSE holder[fd]]
  /\ hurt' = (hurt \/ \E c \in remotes : holder[skt[c]] \notin {c, NULL})
  /\ UNCHANGED skt

\* otm_server_tcp_deinit.
OtmDeinit ==
  /\ MayDeinit /\ looked["user"] = NULL
  /\ OtmClosesAll
  /\ life' = "deinit"
  /\ UNCHANGED <<reactor, backlog, mutex, doing, past, otmvars, owed>>

OtmCall(t) ==
  \/ OtmListenAsync(t) \/ OtmListenSync(t) \/ OtmUsesFreed(t) \/ OtmRecvSyncReturns(t)
  \/ \E refuse \in BOOLEAN : OtmAcceptorReturns(t, refuse)
  \/ \E wild \in Fds : OtmRefusesFreed(t, wild)
  \/ \E c \in Conns :
       \/ OtmLooks(t, c) \/ OtmDisconnect(t, c)
       \/ \E op \in Ops : OtmTransferAsync(t, c, op)
       \/ \E at \in {"sync", "recv"} : OtmTransferSync(t, c, at)
       \/ \E fd \in Fds : OtmAccept(t, c, fd)

OtmNext ==
  \/ OtmInit \/ OtmAcceptor \/ OtmDeinit
  \/ \E t \in Threads : OtmCall(t)
  \/ SocketsStep /\ UNCHANGED otmvars

(***************************************************************************)
(* Properties.                                                             *)
(***************************************************************************)

\* The list holds exactly the connections the callers were given and have not
\* given back, each with its own open descriptor, and no other descriptor of
\* a connection is open; a freed connection is used only if two threads handle
\* the same connection at once (the look at connection->host is not locked) or
\* a callback refuses a connection that it has itself disconnected.
OtmListed ==
  /\ host = "otm" /\ life = "up" =>
       /\ remotes = given
       /\ {holder[fd] : fd \in Fds} \cap Conns = remotes
       /\ \A c \in remotes : holder[skt[c]] = c
  /\ life = "undefined" => past \cap {"raced", "refused gone"} # {}
=============================================================================
