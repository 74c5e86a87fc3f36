----------------------------- MODULE MCTransfer -----------------------------
(***************************************************************************)
(* Instances of Transfer for TLC.  Srbs, and sockets, are interchangeable. *)
(***************************************************************************)
EXTENDS Transfer, TLC

TransferSymmetry == Permutations(Jobs) \cup Permutations(Fds)
=============================================================================
