----------------------------- MODULE ThreadPool -----------------------------
(***************************************************************************)
(* The thread pool of thread-pool/thread-pool.c.                           *)
(*                                                                         *)
(* A pool is a FIFO queue of jobs and a fixed set of worker threads.       *)
(* Everything the threads share is guarded by job_mutex, so each critical  *)
(* section (from a pthread_mutex_lock, or the return of a                  *)
(* pthread_cond_wait, to the next unlock or wait) is one action.  The two  *)
(* condition variables are wait sets: the workers whose pc is "wait" sleep *)
(* on job_semaphore and the stopper whose stop is "wait" sleeps on         *)
(* job_end_semaphore.  A broadcast moves the sleepers to the state in      *)
(* which they compete for the mutex again.                                 *)
(*                                                                         *)
(* Jobs are numbered in the order in which they are accepted.              *)
(***************************************************************************)
EXTENDS Integers, Sequences, FiniteSets

CONSTANTS
  Workers,    \* the threads created by thread_pool_init
  MaxPosts    \* bound: how many jobs are ever accepted

ASSUME MaxPostsAssumption == MaxPosts \in Nat

VARIABLES
  queue,            \* tp->queue
  run,              \* tp->run
  allow_new_jobs,   \* tp->allow_new_jobs
  pc,               \* where each worker is: "lock" (about to lock the mutex),
                    \* "wait", "job" (running a job unlocked), "exit"
  cur,              \* the job each worker runs, NoJob if none
  stop,             \* where the caller of thread_pool_stop is: "none" (not
                    \* called), "wait", "woken", "join", "freed" (returned)
  wait_for_stop,    \* its argument, FALSE before the call
  spurred,          \* history: has the wait of thread_pool_stop returned
                    \* without a broadcast?
  posted,           \* history: how many jobs have been accepted
  done              \* history: the jobs that have been run to the end

vars == <<queue, run, allow_new_jobs, pc, cur, stop, wait_for_stop, spurred, posted,
          done>>

NoJob == 0
JobIds == 1..MaxPosts

(***************************************************************************)
(* The operations.                                                         *)
(***************************************************************************)
Init ==
  /\ queue = <<>>
  /\ run = TRUE
  /\ allow_new_jobs = TRUE
  /\ pc = [w \in Workers |-> "lock"]
  /\ cur = [w \in Workers |-> NoJob]
  /\ stop = "none"
  /\ wait_for_stop = FALSE
  /\ spurred = FALSE
  /\ posted = 0
  /\ done = {}

\* Mutant: the broadcast wakes nobody.
WakeNobody == pc

\* pthread_cond_broadcast(&tp->job_semaphore): every sleeping worker competes
\* for the mutex again.
WakeWorkers == [w \in Workers |-> IF pc[w] = "wait" THEN "lock" ELSE pc[w]]

\* push_job: the next job, behind the others.
PushJob == queue' = Append(queue, posted + 1) /\ posted' = posted + 1

\* Mutant: the push is not followed by the broadcast.
PostJobSilently ==
  /\ stop # "freed" /\ posted < MaxPosts
  /\ allow_new_jobs
  /\ PushJob
  /\ UNCHANGED <<run, allow_new_jobs, pc, cur, stop, wait_for_stop, spurred, done>>

\* thread_pool_post_job.  A call made once new jobs are refused changes
\* nothing and is a stuttering step.
PostJob ==
  /\ stop # "freed" /\ posted < MaxPosts
  /\ allow_new_jobs
  /\ PushJob
  /\ pc' = WakeWorkers
  /\ UNCHANGED <<run, allow_new_jobs, cur, stop, wait_for_stop, spurred, done>>

\* The condition of worker_tpl's inner loop: there is nothing to do yet.
Idle == run /\ allow_new_jobs /\ queue = <<>>

\* Mutant: a worker leaves as soon as new jobs are refused.
OverWithJobsQueued == ~run \/ ~allow_new_jobs

\* The two breaks of worker_tpl.
Over == ~run \/ (queue = <<>> /\ ~allow_new_jobs)

\* worker_tpl: lock, find nothing to do, sleep.
WorkerWait(w) ==
  /\ pc[w] = "lock" /\ Idle
  /\ pc' = [pc EXCEPT ![w] = "wait"]
  /\ UNCHANGED <<queue, run, allow_new_jobs, cur, stop, wait_for_stop, spurred, posted, done>>

\* worker_tpl: lock, find that the pool is over, leave.
WorkerExit(w) ==
  /\ pc[w] = "lock" /\ ~Idle /\ Over
  /\ pc' = [pc EXCEPT ![w] = "exit"]
  /\ UNCHANGED <<queue, run, allow_new_jobs, cur, stop, wait_for_stop, spurred, posted, done>>

\* Mutant: the newest job is taken.
PopNewest(w) ==
  /\ cur' = [cur EXCEPT ![w] = queue[Len(queue)]]
  /\ queue' = SubSeq(queue, 1, Len(queue) - 1)
  /\ stop' = IF stop = "wait" /\ queue' = <<>> THEN "woken" ELSE stop

\* Mutant: the stopper is not told that the queue became empty.
PopSilently(w) ==
  /\ cur' = [cur EXCEPT ![w] = Head(queue)]
  /\ queue' = Tail(queue)
  /\ UNCHANGED stop

\* get_and_pop_job, which wakes the stopper when it empties the queue.
GetAndPopJob(w) ==
  /\ cur' = [cur EXCEPT ![w] = Head(queue)]
  /\ queue' = Tail(queue)
  /\ stop' = IF stop = "wait" /\ queue' = <<>> THEN "woken" ELSE stop

\* worker_tpl: lock, pop a job, unlock.  The queue is not empty, because the
\* worker is neither idle nor over.
WorkerTake(w) ==
  /\ pc[w] = "lock" /\ ~Idle /\ ~Over
  /\ GetAndPopJob(w)
  /\ pc' = [pc EXCEPT ![w] = "job"]
  /\ UNCHANGED <<run, allow_new_jobs, wait_for_stop, spurred, posted, done>>

\* worker_tpl: the job returns.
WorkerFinish(w) ==
  /\ pc[w] = "job"
  /\ done' = done \cup {cur[w]}
  /\ cur' = [cur EXCEPT ![w] = NoJob]
  /\ pc' = [pc EXCEPT ![w] = "lock"]
  /\ UNCHANGED <<queue, run, allow_new_jobs, stop, wait_for_stop, spurred, posted>>

\* Mutant: a graceful stop does not wait.
NeverWait(wait) == FALSE

\* The condition under which thread_pool_stop waits for the queue.
MustWait(wait) == wait /\ queue # <<>>

\* thread_pool_stop up to its pthread_cond_wait or, if it does not wait, up to
\* its unlock.
Stop(wait) ==
  /\ stop = "none"
  /\ wait_for_stop' = wait
  /\ allow_new_jobs' = FALSE
  /\ pc' = WakeWorkers
  /\ \/ MustWait(wait) /\ run' = TRUE /\ stop' = "wait"
     \/ ~MustWait(wait) /\ run' = FALSE /\ stop' = "join"
  /\ UNCHANGED <<queue, cur, spurred, posted, done>>

\* thread_pool_stop after its pthread_cond_wait.  The wait is not in a loop:
\* the queue is not looked at again.
StopResume ==
  /\ stop = "woken"
  /\ run' = FALSE
  /\ pc' = WakeWorkers
  /\ stop' = "join"
  /\ UNCHANGED <<queue, allow_new_jobs, cur, wait_for_stop, spurred, posted, done>>

\* Mutant: the join of one thread is enough.
OneJoined == \E w \in Workers : pc[w] = "exit"

\* The loop over pthread_join.
AllJoined == \A w \in Workers : pc[w] = "exit"

\* thread_pool_stop: every thread is joined, then the pool is freed.
StopReturn ==
  /\ stop = "join"
  /\ AllJoined
  /\ stop' = "freed"
  /\ UNCHANGED <<queue, run, allow_new_jobs, pc, cur, wait_for_stop, spurred, posted, done>>

\* POSIX lets a pthread_cond_wait return without a broadcast.
SpuriousWorker(w) ==
  /\ pc[w] = "wait"
  /\ pc' = [pc EXCEPT ![w] = "lock"]
  /\ UNCHANGED <<queue, run, allow_new_jobs, cur, stop, wait_for_stop, spurred, posted, done>>

SpuriousStopper ==
  /\ stop = "wait"
  /\ stop' = "woken"
  /\ spurred' = TRUE
  /\ UNCHANGED <<queue, run, allow_new_jobs, pc, cur, wait_for_stop, posted, done>>

\* Once the pool is freed nothing happens any more.
Terminated == stop = "freed" /\ UNCHANGED vars

WorkerStep(w) == WorkerWait(w) \/ WorkerExit(w) \/ WorkerTake(w) \/ WorkerFinish(w)

Next ==
  \/ PostJob
  \/ \E w \in Workers : WorkerStep(w) \/ SpuriousWorker(w)
  \/ \E wait \in BOOLEAN : Stop(wait)
  \/ StopResume
  \/ StopReturn
  \/ SpuriousStopper
  \/ Terminated

Spec == Init /\ [][Next]_vars

\* Every thread gets the mutex in the end and every job returns; nobody is
\* obliged to post a job or to stop the pool.
Fairness ==
  /\ \A w \in Workers : WF_vars(WorkerStep(w))
  /\ WF_vars(StopResume)
  /\ WF_vars(StopReturn)

FairSpec == Spec /\ Fairness

(***************************************************************************)
(* Safety.                                                                 *)
(***************************************************************************)

\* The type of every variable.
TypeOK ==
  /\ queue \in Seq(JobIds)
  /\ run \in BOOLEAN
  /\ allow_new_jobs \in BOOLEAN
  /\ pc \in [Workers -> {"lock", "wait", "job", "exit"}]
  /\ cur \in [Workers -> JobIds \cup {NoJob}]
  /\ stop \in {"none", "wait", "woken", "join", "freed"}
  /\ wait_for_stop \in BOOLEAN
  /\ spurred \in BOOLEAN
  /\ posted \in 0..MaxPosts
  /\ done \in SUBSET JobIds

\* No lost wakeup: a worker sleeps on job_semaphore only while worker_tpl's
\* loop condition holds, so no job is queued, and no stop is under way, that a
\* sleeping worker was not told of.
NoLostWakeup == \A w \in Workers : pc[w] = "wait" => Idle

\* No lost wakeup of the stopper: thread_pool_stop sleeps on
\* job_end_semaphore only while there is a queued job and the workers are
\* still allowed to take it.
StopperAwaitsJobs == stop = "wait" => queue # <<>> /\ run

\* The jobs that have been taken from the queue are 1..Taken.
Taken == posted - Len(queue)

\* The variables have their types, and every accepted job is in exactly one
\* place: in the queue, in the order of acceptance; or run by exactly one
\* worker; or done.  Jobs are taken in the order in which they were accepted.
JobsConserved ==
  /\ TypeOK
  /\ Taken >= 0
  /\ \A i \in 1..Len(queue) : queue[i] = Taken + i
  /\ done \subseteq 1..Taken
  /\ \A w \in Workers : pc[w] = "job" => cur[w] \in (1..Taken) \ done
  /\ \A v, w \in Workers : pc[v] = "job" /\ pc[w] = "job" /\ cur[v] = cur[w] => v = w
  /\ \A j \in 1..Taken : j \in done \/ \E w \in Workers : pc[w] = "job" /\ cur[w] = j

\* A graceful stop drains the pool: when thread_pool_stop(tp, true) returns,
\* every job that was ever accepted has been run to the end.  The one exception
\* is a wait that POSIX let return without a broadcast: thread_pool_stop does
\* not look at the queue again, and the jobs left in it are never run.
GracefulDrain == stop = "freed" /\ wait_for_stop /\ ~spurred => done = 1..posted

\* No use after free: when thread_pool_stop frees the pool no worker will
\* touch it, its mutex or its condition variables again.
NoUseAfterFree == stop = "freed" => \A w \in Workers : pc[w] = "exit"

(***************************************************************************)
(* The abstract pool this one implements.                                  *)
(***************************************************************************)
InFlight == {cur[w] : w \in {v \in Workers : pc[v] = "job"}}

Phase ==
  CASE stop = "none" -> "open"
    [] stop \in {"wait", "woken"} -> IF spurred THEN "hurried" ELSE "draining"
    [] stop = "join" -> "closing"
    [] stop = "freed" -> "closed"

Pool == INSTANCE JobPool WITH
  MaxJobs <- MaxPosts, pending <- queue, running <- InFlight,
  finished <- done, submitted <- posted, phase <- Phase

\* The pool keeps the promises of JobPool: every step of a thread is a step of
\* the abstract pool or invisible to those who use it.  The return of the
\* stopper's wait without a broadcast is the abstract pool's Hurry.
ImplementsJobPool == Pool!Spec

(***************************************************************************)
(* Liveness.                                                               *)
(***************************************************************************)

\* thread_pool_stop returns, whatever its argument and whatever the workers
\* were doing when it was called.
StopTerminates == stop # "none" ~> stop = "freed"

\* An accepted job is run, unless the pool is stopped without waiting or the
\* wait of thread_pool_stop has returned without a broadcast.
JobsServed ==
  \A j \in JobIds :
    j <= posted ~> (j \in done \/ (stop # "none" /\ (~wait_for_stop \/ spurred)))
=============================================================================
