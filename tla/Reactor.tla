------------------------------- MODULE Reactor -------------------------------
(***************************************************************************)
(* What an I/O service promises to those who post jobs to it, with no      *)
(* epoll set, notification or lookup table: each (descriptor, operation)   *)
(* pair holds at most one job, which an accepted post puts there; only the *)
(* job a pair holds is called; a oneshot job leaves the pair as it is      *)
(* called; one job is called at a time; and a removed job is not called    *)
(* any more.  io-service/io-service.h promises this interface; IoService   *)
(* is shown to implement it.                                               *)
(***************************************************************************)
CONSTANTS Fds, Jobs, NULL

VARIABLES
  accepting,   \* are jobs still accepted?
  slot,        \* the job of each pair
  inflight     \* the job being called, with its pair: at most one

vars == <<accepting, slot, inflight>>

Ops == {"read", "write"}
Empty == [job |-> NULL, oneshot |-> FALSE]

Init ==
  /\ accepting = TRUE
  /\ slot = [fd \in Fds |-> [op \in Ops |-> Empty]]
  /\ inflight = {}

Post(fd, op, oneshot, job) ==
  /\ accepting
  /\ slot[fd][op].job = NULL
  /\ slot' = [slot EXCEPT ![fd][op] = [job |-> job, oneshot |-> oneshot]]
  /\ UNCHANGED <<accepting, inflight>>

Remove(fd, op, job) ==
  /\ slot[fd][op].job = job
  /\ slot' = [slot EXCEPT ![fd][op] = Empty]
  /\ UNCHANGED <<accepting, inflight>>

Call(fd, op) ==
  /\ inflight = {}
  /\ slot[fd][op].job # NULL
  /\ inflight' = {<<fd, op, slot[fd][op].job>>}
  /\ slot' = IF slot[fd][op].oneshot THEN [slot EXCEPT ![fd][op] = Empty] ELSE slot
  /\ UNCHANGED accepting

Return ==
  /\ inflight # {}
  /\ inflight' = {}
  /\ UNCHANGED <<accepting, slot>>

Refuse ==
  /\ accepting' = FALSE
  /\ UNCHANGED <<slot, inflight>>

Next ==
  \/ \E fd \in Fds, op \in Ops, job \in Jobs :
       Remove(fd, op, job) \/ \E oneshot \in BOOLEAN : Post(fd, op, oneshot, job)
  \/ \E fd \in Fds, op \in Ops : Call(fd, op)
  \/ Return
  \/ Refuse

Spec == Init /\ [][Next]_vars
=============================================================================
