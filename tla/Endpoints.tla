------------------------------ MODULE Endpoints ------------------------------
(***************************************************************************)
(* One of the TCP hosts, with the rest of the process around it: the       *)
(* servers and the client share no state, so each is looked at by itself.  *)
(***************************************************************************)
EXTENDS OtmServer, OtoServer, Client

endpointvars == <<svars, otmvars, otovars, clientvars>>

EndpointsInit ==
  /\ \/ \E server \in {"otm", "oto"} : SocketsInit(server, "unborn")
     \/ SocketsInit("client", "up")
  /\ OtmStart /\ OtoStart /\ ClientStart

\* Once a host has closed a descriptor of another part of the process, what
\* happens next is not up to the host.
EndpointsNext ==
  /\ ~hurt
  /\ \/ host = "otm" /\ OtmNext /\ UNCHANGED <<otovars, clientvars>>
     \/ host = "oto" /\ OtoNext /\ UNCHANGED <<otmvars, clientvars>>
     \/ host = "client" /\ ClientNext /\ UNCHANGED <<otmvars, otovars>>
  /\ UNCHANGED host

EndpointsSpec == EndpointsInit /\ [][EndpointsNext]_endpointvars

\* The type of every variable of the hosts.
EndpointsTypeOK ==
  /\ SocketsTypeOK
  /\ remotes \subseteq Conns /\ given \subseteq Conns
  /\ looked \in [Threads -> Conns \cup {NULL}]
  /\ {otoRemote, local, remote} \subseteq Conns \cup {NULL}
  /\ {otoConnected, connected} \subseteq BOOLEAN

\* What a host believes of its connections is what the kernel knows: the list
\* of the one-to-many server, the connection and `connected` of the one-to-one
\* server, the socket of the client and the connector posted for it.
HostIntact == EndpointsTypeOK /\ OtmListed /\ OtoOneConnection /\ ClientOneSocket
=============================================================================
