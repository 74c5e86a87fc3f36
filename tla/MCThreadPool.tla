---------------------------- MODULE MCThreadPool ----------------------------
(***************************************************************************)
(* ThreadPool for TLC.  The run checks liveness, so the worker threads are *)
(* not declared symmetric.                                                 *)
(***************************************************************************)
EXTENDS ThreadPool
=============================================================================
