------------------------------- MODULE JobPool -------------------------------
(***************************************************************************)
(* What a pool of workers promises to those who submit jobs to it, with no *)
(* threads, mutexes or condition variables: jobs start in the order of     *)
(* their submission, each at most once; nothing is accepted after the      *)
(* shutdown has begun; a graceful shutdown starts every accepted job       *)
(* before it closes the pool, unless it is hurried; and the pool is closed *)
(* only when no job is running.  thread-pool/thread-pool.h declares this   *)
(* interface; ThreadPool is shown to implement it.                         *)
(***************************************************************************)
EXTENDS Integers, Sequences

CONSTANT MaxJobs   \* bound: how many jobs are ever accepted

VARIABLES
  pending,     \* the accepted jobs that have not started, oldest first
  running,     \* the jobs that are being run
  finished,    \* the jobs that have been run to the end
  submitted,   \* how many jobs have been accepted
  phase        \* "open", "draining", "hurried", "closing", "closed"

vars == <<pending, running, finished, submitted, phase>>

Init ==
  /\ pending = <<>>
  /\ running = {}
  /\ finished = {}
  /\ submitted = 0
  /\ phase = "open"

Submit ==
  /\ phase = "open" /\ submitted < MaxJobs
  /\ pending' = Append(pending, submitted + 1)
  /\ submitted' = submitted + 1
  /\ UNCHANGED <<running, finished, phase>>

Start ==
  /\ phase \in {"open", "draining", "hurried"} /\ pending # <<>>
  /\ running' = running \cup {Head(pending)}
  /\ pending' = Tail(pending)
  /\ UNCHANGED <<finished, submitted, phase>>

Finish(j) ==
  /\ j \in running
  /\ running' = running \ {j}
  /\ finished' = finished \cup {j}
  /\ UNCHANGED <<pending, submitted, phase>>

Shutdown(graceful) ==
  /\ phase = "open"
  /\ phase' = IF graceful /\ pending # <<>> THEN "draining" ELSE "closing"
  /\ UNCHANGED <<pending, running, finished, submitted>>

\* A graceful shutdown gives up waiting while jobs are pending.  The owner of
\* the pool cannot ask for it, and nothing shows that it has happened.
Hurry ==
  /\ phase = "draining" /\ pending # <<>>
  /\ phase' = "hurried"
  /\ UNCHANGED <<pending, running, finished, submitted>>

\* Only a shutdown that gave up may close over pending jobs.
Drained ==
  /\ phase = "hurried" \/ (phase = "draining" /\ pending = <<>>)
  /\ phase' = "closing"
  /\ UNCHANGED <<pending, running, finished, submitted>>

Close ==
  /\ phase = "closing" /\ running = {}
  /\ phase' = "closed"
  /\ UNCHANGED <<pending, running, finished, submitted>>

Next ==
  \/ Submit
  \/ Start
  \/ \E j \in running : Finish(j)
  \/ \E graceful \in BOOLEAN : Shutdown(graceful)
  \/ Hurry
  \/ Drained
  \/ Close

Spec == Init /\ [][Next]_vars
=============================================================================
