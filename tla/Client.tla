-------------------------------- MODULE Client --------------------------------
(***************************************************************************)
(* Connecting and disconnecting in network/client/client.c, TCP.           *)
(*                                                                         *)
(* A connection stands for a socket the client has made, before and after  *)
(* it is connected.  client_tcp_connect_async sets O_NONBLOCK inside an    *)
(* assertion that fails when the call succeeds: either the process aborts, *)
(* or assertions are compiled out (NDEBUG), the call with them, and the    *)
(* socket stays blocking.  The connects are called by "user" outside any   *)
(* callback.                                                               *)
(***************************************************************************)
EXTENDS Sockets

VARIABLES
  local,       \* client->local.skt: the socket, or NULL (-1)
  remote,      \* client->remote.skt: the socket connected last, or NULL
  connected    \* client->connected

clientvars == <<local, remote, connected>>

\* client_tcp_init.
ClientStart == local = NULL /\ remote = NULL /\ connected = FALSE

\* The socket is there already, from an earlier attempt, failed or not: the
\* callback gets EISCONN, and the mutex stays locked.
ClientIsConnected(t) ==
  /\ MayWait(t) /\ local # NULL
  /\ Lock(t, 1)
  /\ Goes(t, "kept", NULL)
  /\ UNCHANGED <<reactor, kernel, backlog, life, past, clientvars, owed>>

\* setsockopt() fails in client_init_socket: the socket is not closed, and no
\* callback is called.
ClientNoSocket(t, c, fd) ==
  /\ MayWait(t) /\ CanLock(t) /\ local = NULL
  /\ Opens(c, fd)
  /\ Note({"setsockopt failed"})
  /\ UNCHANGED <<reactor, backlog, mutex, doing, life, clientvars, owed>>

\* client_init_socket succeeds; the caller goes on with the mutex locked.
ClientInitSocket(t, c, fd, at) ==
  /\ MayWait(t) /\ local = NULL
  /\ Lock(t, 1)
  /\ Opens(c, fd)
  /\ local' = c
  /\ Goes(t, at, NULL)
  /\ UNCHANGED <<reactor, backlog, life, past, remote, connected, owed>>

\* client_tcp_connect_sync up to connect(), or up to the callback that it calls
\* when the address is not known.
ClientConnectSync(t, c, fd) ==
  \E at \in {"connect", "kept"} : ClientInitSocket(t, c, fd, at)

\* client_tcp_connect_async, likewise.
ClientConnectAsync(t, c, fd) ==
  \E at \in {"aconnect", "kept"} : ClientInitSocket(t, c, fd, at)

\* client_tcp_connect_async: the assertion around fcntl() fails.
ClientAborts(t, c, fd) ==
  /\ MayWait(t) /\ local = NULL
  /\ Lock(t, 1)
  /\ Opens(c, fd)
  /\ local' = c
  /\ life' = "aborted"
  /\ UNCHANGED <<reactor, backlog, doing, past, remote, connected, owed>>

\* Mutant: the number of the closed socket is kept.
ClientClosesOnly ==
  Closes(local) /\ Note(BusyNote(local)) /\ connected' = FALSE /\ UNCHANGED local

\* The socket is closed and forgotten, as in client_tcp_disconnect.
ClientCloses ==
  Closes(local) /\ Note(BusyNote(local)) /\ connected' = FALSE /\ local' = NULL

\* client_tcp_connect_sync: connect() succeeds; errno is left over if an
\* earlier address of the list was refused, and the connection is given up.
ClientConnects(t, errno) ==
  /\ life = "up" /\ doing[t].at = "connect"
  /\ remote' = local
  /\ IF errno THEN ClientCloses ELSE connected' = TRUE /\ UNCHANGED <<local, kernel, past>>
  /\ Goes(t, "connected", NULL)
  /\ UNCHANGED <<reactor, backlog, mutex, life, owed>>

\* client_tcp_connect_sync: no address can be connected to.  The socket stays,
\* and the callback is called, but the mutex will not be unlocked.
ClientRefused(t) ==
  /\ life = "up" /\ doing[t].at = "connect"
  /\ Goes(t, "kept", NULL)
  /\ UNCHANGED <<reactor, kernel, backlog, mutex, life, past, clientvars, owed>>

\* client_tcp_connect_async: connect() has succeeded; the connector is posted.
ClientPostsConnector(t) ==
  /\ life = "up" /\ doing[t].at = "aconnect"
  /\ remote' = local
  /\ PostOneshot(skt[local], "write", HostJob)
  /\ Unlock(1)
  /\ Goes(t, "none", NULL)
  /\ UNCHANGED <<kernel, backlog, life, past, local, connected, owed>>

\* client_tcp_connect_async: no address can be connected to.
ClientRefusedAsync(t) ==
  /\ life = "up" /\ doing[t].at = "aconnect"
  /\ Goes(t, "connected", NULL)
  /\ UNCHANGED <<reactor, kernel, backlog, mutex, life, past, clientvars, owed>>

\* client_tcp_connector: the connection is reported, or given up if the socket
\* has an error by now.
ClientConnector(err) ==
  /\ life = "up" /\ doing["loop"].at = "lock"
  /\ Lock("loop", 1)
  /\ IF err THEN ClientCloses ELSE connected' = TRUE /\ UNCHANGED <<local, kernel, past>>
  /\ Goes("loop", "connected", NULL)
  /\ UNCHANGED <<reactor, backlog, life, remote, owed>>

\* The callback returns; the mutex is unlocked.
ClientCallbackReturns(t) ==
  /\ life = "up" /\ doing[t].at = "connected"
  /\ Unlock(1)
  /\ Goes(t, IF t = "loop" THEN "return" ELSE "none", NULL)
  /\ UNCHANGED <<reactor, kernel, backlog, life, past, clientvars, owed>>

\* The callback of an error path returns, and so does the connect.
ClientKeepsLock(t) ==
  /\ life = "up" /\ doing[t].at = "kept"
  /\ Goes(t, "none", NULL)
  /\ Note({"kept"})
  /\ UNCHANGED <<reactor, kernel, backlog, mutex, life, clientvars, owed>>

\* if (!client->connected) return.
ClientMayDisconnect == connected

\* client_tcp_disconnect.
ClientDisconnect(t) ==
  /\ MayCall(t) /\ CanLock(t) /\ ClientMayDisconnect
  /\ ClientCloses
  /\ UNCHANGED <<reactor, backlog, mutex, doing, life, remote, owed>>

\* client_tcp_send_async, client_tcp_recv_async; callers have been connected.
ClientTransferAsync(t, op) ==
  /\ MayCall(t) /\ remote # NULL
  /\ TransferAsync(t, remote, op)
  /\ UNCHANGED clientvars

\* client_tcp_send_sync, client_tcp_recv_sync.
ClientTransferSync(t) ==
  /\ MayWait(t) /\ remote # NULL
  /\ TransferSync(t, remote, "sync")
  /\ UNCHANGED clientvars

\* client_tcp_deinit: the socket, connected or not, is closed.
ClientDeinit ==
  /\ MayDeinit
  /\ IF local = NULL THEN UNCHANGED <<kernel, past, local, connected>> ELSE ClientCloses
  /\ life' = "deinit"
  /\ UNCHANGED <<reactor, backlog, mutex, doing, remote, owed>>

ClientCall(t) ==
  \/ ClientIsConnected(t) \/ ClientRefused(t) \/ ClientPostsConnector(t) \/ ClientRefusedAsync(t)
  \/ ClientCallbackReturns(t) \/ ClientKeepsLock(t) \/ ClientDisconnect(t) \/ ClientTransferSync(t)
  \/ \E errno \in BOOLEAN : ClientConnects(t, errno)
  \/ \E op \in Ops : ClientTransferAsync(t, op)
  \/ \E c \in Conns, fd \in Fds :
       \/ ClientNoSocket(t, c, fd) \/ ClientConnectSync(t, c, fd)
       \/ ClientConnectAsync(t, c, fd) \/ ClientAborts(t, c, fd)

ClientNext ==
  \/ ClientDeinit
  \/ \E err \in BOOLEAN : ClientConnector(err)
  \/ \E t \in Threads : ClientCall(t)
  \/ SocketsStep /\ UNCHANGED clientvars

(***************************************************************************)
(* Properties.                                                             *)
(***************************************************************************)

\* The client owns at most one socket and knows it, unless setsockopt has
\* failed; connected implies that it is open and that transfers use it; and
\* the connector in the service is for it, so it never finds the socket gone.
ClientOneSocket ==
  host = "client" /\ life = "up" =>
    /\ "setsockopt failed" \notin past => {holder[fd] : fd \in Fds} \cap Conns \subseteq {local}
    /\ connected => local # NULL /\ remote = local
    /\ local # NULL => holder[skt[local]] = local
    /\ \A fd \in Fds : slot[fd]["write"].job = HostJob => local # NULL /\ skt[local] = fd
=============================================================================
