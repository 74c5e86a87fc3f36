----------------------------- MODULE MCEndpoints -----------------------------
(***************************************************************************)
(* Instances of Endpoints for TLC.  Connections are interchangeable, and   *)
(* so are the numbers the kernel gives them.                               *)
(***************************************************************************)
EXTENDS Endpoints, TLC

EndpointSymmetry == Permutations(Conns) \cup Permutations(Fds \ {Listen})
=============================================================================
