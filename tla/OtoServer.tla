------------------------------ MODULE OtoServer ------------------------------
(***************************************************************************)
(* The TCP server of network/one-to-one/server.c, which has room for one   *)
(* connection, server->remote.  Its number is that of standard input until *)
(* the first connection is accepted, and is never cleared.                 *)
(***************************************************************************)
EXTENDS Sockets

VARIABLES
  otoConnected,   \* server->connected
  otoRemote       \* server->remote: the connection accepted last, or NULL

otovars == <<otoConnected, otoRemote>>

OtoStart == otoConnected = FALSE /\ otoRemote = NULL

\* oto_server_tcp_init.
OtoInit ==
  /\ ServerOpens \/ ServerFails \/ \E wild \in Fds : ServerClosesWild(wild)
  /\ UNCHANGED otovars

\* Mutant: the server listens with a connection established.
OtoAlwaysListens == TRUE

\* if (server->connected) return.
OtoMayListen == ~otoConnected

\* Another listen is waiting for its connection.
OtoOverlap ==
  IF slot[Listen]["read"].job # NULL \/ \E t \in Threads : doing[t].at \in {"lock", "accept"}
  THEN {"overlap"} ELSE {}

\* oto_server_tcp_listen_async.
OtoListenAsync(t) ==
  /\ MayCall(t) /\ CanLock(t) /\ OtoMayListen
  /\ PostOneshot(Listen, "read", HostJob)
  /\ Note(OtoOverlap)
  /\ UNCHANGED <<kernel, backlog, mutex, doing, life, otovars, owed>>

\* oto_server_tcp_listen_sync and oto_tcp_acceptor up to accept().
OtoListenSync(t) ==
  /\ MayWait(t) /\ OtoMayListen
  /\ Lock(t, 2)
  /\ Goes(t, "accept", NULL)
  /\ Note({"listen_sync"} \cup OtoOverlap)
  /\ UNCHANGED <<reactor, kernel, backlog, life, otovars, owed>>

\* oto_tcp_acceptor, called by the service, locks the mutex; it does not look
\* at connected.
OtoAcceptor ==
  /\ life = "up" /\ doing["loop"].at = "lock"
  /\ Lock("loop", 1)
  /\ Goes("loop", "accept", NULL)
  /\ UNCHANGED <<reactor, kernel, backlog, life, past, otovars, owed>>

\* oto_tcp_acceptor: accept() has waited for a connection, which takes the
\* place of the one before; the callback is called.
OtoAccept(t, c, fd) ==
  /\ life = "up" /\ doing[t].at = "accept" /\ backlog > 0
  /\ Opens(c, fd)
  /\ backlog' = backlog - 1
  /\ otoConnected' = TRUE
  /\ otoRemote' = c
  /\ Goes(t, "callback", c)
  /\ UNCHANGED <<reactor, mutex, life, past, owed>>

\* close(server->remote.ep_skt.skt); before the first connection this is
\* standard input.
OtoCloses ==
  IF otoRemote = NULL THEN hurt' = TRUE /\ UNCHANGED <<holder, skt>> ELSE Closes(otoRemote)

OtoBusyNote == IF otoRemote = NULL THEN {} ELSE BusyNote(otoRemote)

\* The callback has refused the connection.
OtoRefuses == OtoCloses /\ otoConnected' = FALSE /\ UNCHANGED otoRemote

\* oto_tcp_acceptor: the callback has returned.
OtoAcceptorReturns(t, refuse) ==
  /\ life = "up" /\ doing[t].at = "callback"
  /\ IF refuse THEN OtoRefuses /\ Note(OtoBusyNote)
               ELSE UNCHANGED <<kernel, past, otovars>>
  /\ Unlock(Frames(t))
  /\ Goes(t, IF t = "loop" THEN "return" ELSE "none", NULL)
  /\ UNCHANGED <<reactor, backlog, life, owed>>

\* oto_server_tcp_disconnect: connected keeps its value.
OtoDisconnect(t) ==
  /\ MayCall(t) /\ CanLock(t)
  /\ OtoCloses
  /\ Note({"disconnected"} \cup OtoBusyNote)
  /\ UNCHANGED <<reactor, backlog, mutex, doing, life, otovars, owed>>

\* oto_server_tcp_send_async, oto_server_tcp_recv_async; callers have seen a
\* connection.
OtoTransferAsync(t, op) ==
  /\ MayCall(t) /\ otoRemote # NULL
  /\ TransferAsync(t, otoRemote, op)
  /\ UNCHANGED otovars

\* oto_server_tcp_send_sync, oto_server_tcp_recv_sync.
OtoTransferSync(t) ==
  /\ MayWait(t) /\ otoRemote # NULL
  /\ TransferSync(t, otoRemote, "sync")
  /\ UNCHANGED otovars

\* oto_server_tcp_deinit: the connection, if any, and the listening socket are
\* closed.
OtoDeinit ==
  LET fd == IF otoConnected THEN skt[otoRemote] ELSE Listen
  IN  /\ MayDeinit
      /\ holder' = [holder EXCEPT ![Listen] = NULL, ![fd] = NULL]
      /\ hurt' = (hurt \/ (otoConnected /\ holder[fd] \notin {otoRemote, NULL}))
      /\ life' = "deinit"
      /\ UNCHANGED <<reactor, skt, backlog, mutex, doing, past, otovars, owed>>

OtoCall(t) ==
  \/ OtoListenAsync(t) \/ OtoListenSync(t) \/ OtoDisconnect(t) \/ OtoTransferSync(t)
  \/ \E refuse \in BOOLEAN : OtoAcceptorReturns(t, refuse)
  \/ \E op \in Ops : OtoTransferAsync(t, op)
  \/ \E c \in Conns, fd \in Fds : OtoAccept(t, c, fd)

OtoNext ==
  \/ OtoInit \/ OtoAcceptor \/ OtoDeinit
  \/ \E t \in Threads : OtoCall(t)
  \/ SocketsStep /\ UNCHANGED otovars

(***************************************************************************)
(* Properties.                                                             *)
(***************************************************************************)

\* There is one connection at most, the server knows it, and connected says
\* whether it is open: no descriptor is lost.  Overlapping listens break this
\* (the acceptor does not look at connected), a disconnect only that connected
\* implies open.
OtoOneConnection ==
  host = "oto" /\ life = "up" /\ "overlap" \notin past =>
    /\ {holder[fd] : fd \in Fds} \cap Conns \subseteq (IF otoConnected THEN {otoRemote} ELSE {})
    /\ otoConnected /\ "disconnected" \notin past => holder[skt[otoRemote]] = otoRemote
=============================================================================
