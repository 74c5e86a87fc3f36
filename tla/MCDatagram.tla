----------------------------- MODULE MCDatagram -----------------------------
(***************************************************************************)
(* Instances of Datagram for TLC.  Srbs are interchangeable.               *)
(***************************************************************************)
EXTENDS Datagram, TLC

DatagramSymmetry == Permutations(Jobs)
=============================================================================
