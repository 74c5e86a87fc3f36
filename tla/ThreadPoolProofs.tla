-------------------------- MODULE ThreadPoolProofs --------------------------
(***************************************************************************)
(* Proofs about ThreadPool for any set of workers and any number of jobs.  *)
(***************************************************************************)
EXTENDS ThreadPool, SequenceTheorems, TLAPS

\* The flags and the queue at each stage of thread_pool_stop.  After the
\* pthread_cond_wait the queue is known to be empty only if the wait was ended
\* by a broadcast.
StageInv ==
  /\ stop = "none" => run /\ allow_new_jobs /\ ~wait_for_stop
  /\ stop # "none" => ~allow_new_jobs
  /\ stop \in {"wait", "woken"} => run /\ wait_for_stop
  /\ stop \in {"join", "freed"} => ~run
  /\ stop \in {"none", "wait"} => ~spurred
  /\ wait_for_stop /\ stop \in {"woken", "join", "freed"} /\ ~spurred => queue = <<>>

\* The inductive invariant.
IInv ==
  /\ TypeOK
  /\ StageInv
  /\ NoLostWakeup
  /\ StopperAwaitsJobs
  /\ JobsConserved
  /\ NoUseAfterFree

(***************************************************************************)
(* The inductive invariant holds initially and is preserved by each step.  *)
(***************************************************************************)

\* The initial pool, as thread_pool_init leaves it, satisfies the invariant.
LEMMA InitIInv == Init => IInv
<1> SUFFICES ASSUME Init PROVE IInv
  OBVIOUS
<1>1. queue \in Seq(JobIds) /\ Len(queue) = 0
  <2>1. <<>> \in Seq(JobIds) /\ Len(<<>>) = 0
    BY EmptySeq
  <2> QED  BY <2>1, Zenon DEF Init
<1>2. posted = 0 /\ done = {}
  BY DEF Init
<1>3. Taken = 0
  BY <1>1, <1>2 DEF Taken
<1>4. pc = [w \in Workers |-> "lock"] /\ cur = [w \in Workers |-> NoJob]
  BY DEF Init
<1>5. /\ run \in BOOLEAN /\ allow_new_jobs \in BOOLEAN /\ wait_for_stop \in BOOLEAN
      /\ spurred \in BOOLEAN
  BY DEF Init
<1>6. TypeOK
  <2>1. stop = "none"
    BY DEF Init
  <2> QED  BY <1>1, <1>2, <1>4, <1>5, <2>1, MaxPostsAssumption DEF TypeOK, JobIds
<1>7. JobsConserved
  BY <1>1, <1>2, <1>3, <1>4, <1>6 DEF JobsConserved
<1> QED
  BY <1>6, <1>7 DEF IInv, Init, StageInv, NoLostWakeup, StopperAwaitsJobs, NoUseAfterFree

\* A step that takes, finishes and accepts no job keeps every job in its place.
LEMMA JobsUntouched ==
  ASSUME JobsConserved, TypeOK', UNCHANGED <<queue, posted, done, cur>>,
         \A w \in Workers : pc'[w] = "job" <=> pc[w] = "job"
  PROVE  JobsConserved'
<1>1. Taken' = Taken
  BY DEF Taken
<1> QED  BY <1>1 DEF JobsConserved

\* A broadcast changes no worker but the sleeping ones.
LEMMA Broadcast ==
  ASSUME TypeOK, pc' = WakeWorkers
  PROVE  /\ pc' \in [Workers -> {"lock", "wait", "job", "exit"}]
         /\ \A w \in Workers : pc'[w] # "wait"
         /\ \A w \in Workers : pc'[w] = "job" <=> pc[w] = "job"
         /\ \A w \in Workers : pc[w] = "exit" => pc'[w] = "exit"
  BY DEF TypeOK, WakeWorkers

\* thread_pool_post_job preserves the invariant.
LEMMA PostJobIInv == ASSUME IInv, PostJob PROVE IInv'
<1> USE DEF IInv, PostJob, PushJob
<1>1. posted \in Nat /\ posted + 1 \in JobIds
  BY MaxPostsAssumption DEF TypeOK, JobIds
<1>2. /\ queue' \in Seq(JobIds) /\ queue' # <<>>
      /\ Len(queue) \in Nat /\ Len(queue') = Len(queue) + 1
      /\ \A i \in 1..Len(queue) : queue'[i] = queue[i]
      /\ queue'[Len(queue) + 1] = posted + 1
  BY <1>1, AppendProperties, LenProperties DEF TypeOK
<1>3. Taken \in Int /\ Taken' = Taken
  BY <1>1, <1>2 DEF Taken
<1>4. /\ pc' \in [Workers -> {"lock", "wait", "job", "exit"}]
      /\ \A w \in Workers : pc'[w] # "wait"
      /\ \A w \in Workers : pc'[w] = "job" <=> pc[w] = "job"
  BY Broadcast
<1>5. TypeOK'
  BY <1>1, <1>2, <1>4, MaxPostsAssumption DEF TypeOK, JobIds
<1>6. StageInv'
  BY DEF StageInv
<1>7. NoLostWakeup'
  BY <1>4 DEF NoLostWakeup
<1>8. StopperAwaitsJobs'
  BY <1>2 DEF StopperAwaitsJobs
<1>9. JobsConserved'
  <2>1. \A i \in 1..Len(queue') : queue'[i] = Taken' + i
    <3> SUFFICES ASSUME NEW i \in 1..Len(queue') PROVE queue'[i] = Taken + i
      BY <1>3
    <3>1. CASE i = Len(queue) + 1
      BY <1>1, <1>2, <1>3, <3>1 DEF Taken
    <3>2. CASE i \in 1..Len(queue)
      BY <1>2, <3>2 DEF JobsConserved
    <3> QED  BY <1>2, <3>1, <3>2
  <2> QED  BY <1>3, <1>4, <1>5, <2>1 DEF JobsConserved
<1>10. NoUseAfterFree'
  BY DEF NoUseAfterFree
<1> QED  BY <1>5, <1>6, <1>7, <1>8, <1>9, <1>10

\* A worker that goes to sleep preserves the invariant.
LEMMA WorkerWaitIInv == ASSUME IInv, NEW w \in Workers, WorkerWait(w) PROVE IInv'
<1> USE DEF IInv, WorkerWait
<1>1. TypeOK'
  BY DEF TypeOK
<1>2. StageInv' /\ StopperAwaitsJobs'
  BY DEF StageInv, StopperAwaitsJobs
<1>3. NoLostWakeup'
  BY DEF NoLostWakeup, Idle
<1>4. JobsConserved'
  BY <1>1, JobsUntouched DEF TypeOK
<1>5. NoUseAfterFree'
  BY DEF NoUseAfterFree, TypeOK
<1> QED  BY <1>1, <1>2, <1>3, <1>4, <1>5

\* A worker that leaves preserves the invariant.
LEMMA WorkerExitIInv == ASSUME IInv, NEW w \in Workers, WorkerExit(w) PROVE IInv'
<1> USE DEF IInv, WorkerExit
<1>1. TypeOK'
  BY DEF TypeOK
<1>2. StageInv' /\ StopperAwaitsJobs'
  BY DEF StageInv, StopperAwaitsJobs
<1>3. NoLostWakeup'
  BY DEF NoLostWakeup, Idle, TypeOK
<1>4. JobsConserved'
  BY <1>1, JobsUntouched DEF TypeOK
<1>5. NoUseAfterFree'
  BY DEF NoUseAfterFree, TypeOK
<1> QED  BY <1>1, <1>2, <1>3, <1>4, <1>5

\* What a worker that takes a job does to the queue.
LEMMA TakeFacts ==
  ASSUME IInv, NEW w \in Workers, WorkerTake(w)
  PROVE  /\ queue # <<>> /\ Len(queue) \in Nat \ {0}
         /\ Head(queue) \in JobIds /\ Head(queue) = Taken + 1
         /\ queue' \in Seq(JobIds) /\ Len(queue') = Len(queue) - 1
         /\ \A i \in 1..Len(queue') : queue'[i] = queue[i + 1]
         /\ Taken \in Nat /\ Taken' = Taken + 1
<1> USE DEF IInv, WorkerTake, GetAndPopJob
<1>1. queue # <<>>
  BY DEF Idle, Over, StageInv, TypeOK
<1>2. Len(queue) \in Nat \ {0} /\ Head(queue) = queue[1]
  BY <1>1, EmptySeq DEF TypeOK
<1>3. /\ Head(queue) \in JobIds
      /\ queue' \in Seq(JobIds) /\ Len(queue') = Len(queue) - 1
      /\ \A i \in 1..Len(queue') : queue'[i] = queue[i + 1]
  BY <1>1, HeadTailProperties DEF TypeOK
<1>4. Taken \in Nat /\ Taken' = Taken + 1
  BY <1>2, <1>3, MaxPostsAssumption DEF Taken, JobsConserved, TypeOK
<1>5. Head(queue) = Taken + 1
  BY <1>2, <1>4 DEF JobsConserved
<1> QED  BY <1>1, <1>2, <1>3, <1>4, <1>5

\* A worker that takes a job, waking the stopper when it takes the last one,
\* preserves the invariant.
LEMMA WorkerTakeIInv == ASSUME IInv, NEW w \in Workers, WorkerTake(w) PROVE IInv'
<1> USE DEF IInv, WorkerTake, GetAndPopJob
<1>1. /\ queue # <<>> /\ Len(queue) \in Nat \ {0}
      /\ Head(queue) \in JobIds /\ Head(queue) = Taken + 1
      /\ queue' \in Seq(JobIds) /\ Len(queue') = Len(queue) - 1
      /\ \A i \in 1..Len(queue') : queue'[i] = queue[i + 1]
      /\ Taken \in Nat /\ Taken' = Taken + 1
  BY TakeFacts
<1>2. run
  BY DEF Over, TypeOK
<1>3. TypeOK'
  BY <1>1 DEF TypeOK
<1>4. StageInv'
  BY <1>1, <1>2 DEF StageInv, TypeOK
<1>5. NoLostWakeup'
  BY <1>1 DEF NoLostWakeup, Idle, TypeOK
<1>6. StopperAwaitsJobs'
  BY <1>2 DEF StopperAwaitsJobs, TypeOK
<1>7. JobsConserved'
  <2>1. \A i \in 1..Len(queue') : queue'[i] = Taken' + i
    <3> SUFFICES ASSUME NEW i \in 1..Len(queue') PROVE queue[i + 1] = Taken + 1 + i
      BY <1>1
    <3>1. i + 1 \in 1..Len(queue)
      BY <1>1
    <3> QED  BY <1>1, <3>1 DEF JobsConserved
  <2>2. done' \subseteq 1..Taken'
    BY <1>1 DEF JobsConserved
  <2>3. /\ pc'[w] = "job" /\ cur'[w] = Taken + 1
        /\ \A v \in Workers \ {w} : pc'[v] = pc[v] /\ cur'[v] = cur[v]
    BY <1>1 DEF TypeOK
  <2>4. Taken + 1 \notin done
    BY <1>1 DEF JobsConserved
  <2>5. \A v \in Workers : pc'[v] = "job" => cur'[v] \in (1..Taken') \ done'
    BY <1>1, <2>3, <2>4 DEF JobsConserved
  <2>6. \A v \in Workers : pc[v] = "job" => cur[v] # Taken + 1
    BY <1>1 DEF JobsConserved
  <2>7. ASSUME NEW u \in Workers, NEW v \in Workers,
               pc'[u] = "job", pc'[v] = "job", cur'[u] = cur'[v]
        PROVE  u = v
    <3>1. CASE u = w
      BY <2>3, <2>6, <2>7, <3>1
    <3>2. CASE u # w /\ v = w
      BY <2>3, <2>6, <2>7, <3>2
    <3>3. CASE u # w /\ v # w
      BY <2>3, <2>7, <3>3 DEF JobsConserved
    <3> QED  BY <3>1, <3>2, <3>3
  <2>8. \A j \in 1..Taken' : j \in done' \/ \E v \in Workers : pc'[v] = "job" /\ cur'[v] = j
    <3> SUFFICES ASSUME NEW j \in 1..Taken', j \notin done
                 PROVE  \E v \in Workers : pc'[v] = "job" /\ cur'[v] = j
      OBVIOUS
    <3>1. CASE j = Taken + 1
      BY <2>3, <3>1
    <3>2. CASE j \in 1..Taken
      <4>1. PICK v \in Workers : pc[v] = "job" /\ cur[v] = j
        BY <3>2 DEF JobsConserved
      <4>2. v # w
        BY <4>1
      <4> QED  BY <2>3, <4>1, <4>2
    <3> QED  BY <1>1, <3>1, <3>2
  <2> QED  BY <1>1, <1>3, <2>1, <2>2, <2>5, <2>7, <2>8 DEF JobsConserved
<1>8. NoUseAfterFree'
  BY DEF NoUseAfterFree, TypeOK
<1> QED  BY <1>3, <1>4, <1>5, <1>6, <1>7, <1>8

\* A job that returns preserves the invariant.
LEMMA WorkerFinishIInv == ASSUME IInv, NEW w \in Workers, WorkerFinish(w) PROVE IInv'
<1> USE DEF IInv, WorkerFinish
<1>1. Taken' = Taken
  BY DEF Taken
<1>2. cur[w] \in (1..Taken) \ done /\ cur[w] \in JobIds
  BY DEF JobsConserved, TypeOK, NoJob
<1>3. TypeOK'
  BY <1>2 DEF TypeOK
<1>4. StageInv' /\ StopperAwaitsJobs'
  BY DEF StageInv, StopperAwaitsJobs
<1>5. NoLostWakeup'
  BY DEF NoLostWakeup, Idle, TypeOK
<1>6. JobsConserved'
  <2>1. /\ pc'[w] # "job" /\ done' = done \cup {cur[w]}
        /\ \A v \in Workers \ {w} : pc'[v] = pc[v] /\ cur'[v] = cur[v]
    BY DEF TypeOK
  <2>2. \A v \in Workers : pc'[v] = "job" => cur'[v] \in (1..Taken') \ done'
    <3> SUFFICES ASSUME NEW v \in Workers, pc'[v] = "job"
                 PROVE  cur[v] \in (1..Taken) \ done /\ cur[v] # cur[w]
      BY <1>1, <2>1
    <3> QED  BY <2>1 DEF JobsConserved
  <2>3. \A u, v \in Workers :
          pc'[u] = "job" /\ pc'[v] = "job" /\ cur'[u] = cur'[v] => u = v
    BY <2>1 DEF JobsConserved
  <2>4. \A j \in 1..Taken' : j \in done' \/ \E v \in Workers : pc'[v] = "job" /\ cur'[v] = j
    BY <1>1, <2>1 DEF JobsConserved
  <2> QED  BY <1>1, <1>2, <1>3, <2>1, <2>2, <2>3, <2>4 DEF JobsConserved
<1>7. NoUseAfterFree'
  BY DEF NoUseAfterFree, TypeOK
<1> QED  BY <1>3, <1>4, <1>5, <1>6, <1>7

\* The first critical section of thread_pool_stop preserves the invariant.
LEMMA StopIInv == ASSUME IInv, NEW wait \in BOOLEAN, Stop(wait) PROVE IInv'
<1> USE DEF IInv, Stop, MustWait
<1>1. /\ pc' \in [Workers -> {"lock", "wait", "job", "exit"}]
      /\ \A w \in Workers : pc'[w] # "wait"
      /\ \A w \in Workers : pc'[w] = "job" <=> pc[w] = "job"
  BY Broadcast
<1>2. TypeOK'
  BY <1>1 DEF TypeOK
<1>3. StageInv'
  BY DEF StageInv
<1>4. NoLostWakeup'
  BY <1>1 DEF NoLostWakeup
<1>5. StopperAwaitsJobs'
  BY DEF StopperAwaitsJobs
<1>6. JobsConserved'
  BY <1>1, <1>2, JobsUntouched
<1>7. NoUseAfterFree'
  BY DEF NoUseAfterFree
<1> QED  BY <1>2, <1>3, <1>4, <1>5, <1>6, <1>7

\* The second critical section of thread_pool_stop preserves the invariant.
LEMMA StopResumeIInv == ASSUME IInv, StopResume PROVE IInv'
<1> USE DEF IInv, StopResume
<1>1. /\ pc' \in [Workers -> {"lock", "wait", "job", "exit"}]
      /\ \A w \in Workers : pc'[w] # "wait"
      /\ \A w \in Workers : pc'[w] = "job" <=> pc[w] = "job"
  BY Broadcast
<1>2. TypeOK'
  BY <1>1 DEF TypeOK
<1>3. StageInv'
  BY DEF StageInv
<1>4. NoLostWakeup'
  BY <1>1 DEF NoLostWakeup
<1>5. JobsConserved'
  BY <1>1, <1>2, JobsUntouched
<1>6. StopperAwaitsJobs' /\ NoUseAfterFree'
  BY DEF StopperAwaitsJobs, NoUseAfterFree
<1> QED  BY <1>2, <1>3, <1>4, <1>5, <1>6

\* Joining the threads and freeing the pool, and the spurious wakeups,
\* preserve the invariant.
LEMMA StopReturnIInv == ASSUME IInv, StopReturn \/ SpuriousStopper PROVE IInv'
<1> USE DEF IInv, StopReturn, AllJoined, SpuriousStopper
<1>1. TypeOK'
  BY DEF TypeOK
<1>2. StageInv' /\ StopperAwaitsJobs' /\ NoUseAfterFree'
  BY DEF StageInv, StopperAwaitsJobs, NoUseAfterFree
<1>3. NoLostWakeup'
  BY DEF NoLostWakeup, Idle
<1>4. JobsConserved'
  BY <1>1, JobsUntouched
<1> QED  BY <1>1, <1>2, <1>3, <1>4

\* A spurious wakeup of a worker preserves the invariant.
LEMMA SpuriousWorkerIInv == ASSUME IInv, NEW w \in Workers, SpuriousWorker(w) PROVE IInv'
<1> USE DEF IInv, SpuriousWorker
<1>1. TypeOK'
  BY DEF TypeOK
<1>2. StageInv' /\ StopperAwaitsJobs'
  BY DEF StageInv, StopperAwaitsJobs
<1>3. NoLostWakeup'
  BY DEF NoLostWakeup, Idle, TypeOK
<1>4. JobsConserved'
  BY <1>1, JobsUntouched DEF TypeOK
<1>5. NoUseAfterFree'
  BY DEF NoUseAfterFree, TypeOK
<1> QED  BY <1>1, <1>2, <1>3, <1>4, <1>5

\* A stuttering step preserves the invariant.
LEMMA StutterIInv == ASSUME IInv, UNCHANGED vars PROVE IInv'
  BY DEF IInv, vars, TypeOK, StageInv, NoLostWakeup, Idle, StopperAwaitsJobs, JobsConserved,
         Taken, NoUseAfterFree

\* Every step of every thread preserves the invariant.
LEMMA NextIInv == IInv /\ [Next]_vars => IInv'
<1> SUFFICES ASSUME IInv, [Next]_vars PROVE IInv'
  OBVIOUS
<1>1. CASE PostJob
  BY <1>1, PostJobIInv
<1>2. ASSUME NEW w \in Workers, WorkerStep(w) \/ SpuriousWorker(w) PROVE IInv'
  BY <1>2, WorkerWaitIInv, WorkerExitIInv, WorkerTakeIInv, WorkerFinishIInv,
     SpuriousWorkerIInv DEF WorkerStep
<1>3. ASSUME NEW wait \in BOOLEAN, Stop(wait) PROVE IInv'
  BY <1>3, StopIInv
<1>4. CASE StopResume
  BY <1>4, StopResumeIInv
<1>5. CASE StopReturn \/ SpuriousStopper
  BY <1>5, StopReturnIInv
<1>6. CASE Terminated \/ UNCHANGED vars
  BY <1>6, StutterIInv DEF Terminated
<1> QED  BY <1>1, <1>2, <1>3, <1>4, <1>5, <1>6 DEF Next

\* The invariant holds in every reachable state.
THEOREM Invariance == Spec => []IInv
  BY InitIInv, NextIInv, PTL DEF Spec

(***************************************************************************)
(* The properties.                                                         *)
(***************************************************************************)

\* No worker sleeps through the event it waits for, with or without spurious
\* wakeups.
THEOREM NoSleepForever == Spec => []NoLostWakeup
<1>1. IInv => NoLostWakeup
  BY DEF IInv
<1> QED  BY <1>1, Invariance, PTL

\* thread_pool_stop sleeps only while a worker is left to wake it.
THEOREM StopperNotForgotten == Spec => []StopperAwaitsJobs
<1>1. IInv => StopperAwaitsJobs
  BY DEF IInv
<1> QED  BY <1>1, Invariance, PTL

\* Accepted jobs are neither lost nor run twice and are taken in order.
THEOREM ExactlyOnceInOrder == Spec => []JobsConserved
<1>1. IInv => JobsConserved
  BY DEF IInv
<1> QED  BY <1>1, Invariance, PTL

\* The pool is freed only when no worker can touch it any more.
THEOREM FreedWhenUnused == Spec => []NoUseAfterFree
<1>1. IInv => NoUseAfterFree
  BY DEF IInv
<1> QED  BY <1>1, Invariance, PTL

\* When thread_pool_stop(tp, true) has returned every accepted job has been
\* run to the end, unless its own pthread_cond_wait returned without a
\* broadcast; what wakes the workers without one does no harm.
THEOREM DrainedWhenStopped == Spec => []GracefulDrain
<1>1. IInv => GracefulDrain
  <2> SUFFICES ASSUME IInv, stop = "freed", wait_for_stop, ~spurred PROVE done = 1..posted
    BY DEF GracefulDrain
  <2>1. queue = <<>>
    BY DEF IInv, StageInv
  <2>2. Len(queue) = 0
    BY <2>1, EmptySeq, Zenon
  <2>3. Taken = posted
    BY <2>2 DEF Taken, IInv, TypeOK
  <2>4. \A w \in Workers : pc[w] # "job"
    BY DEF IInv, NoUseAfterFree
  <2>5. done \subseteq 1..posted /\ \A j \in 1..posted : j \in done
    BY <2>3, <2>4 DEF IInv, JobsConserved
  <2> QED  BY <2>5
<1> QED  BY <1>1, Invariance, PTL

(***************************************************************************)
(* ThreadPool implements JobPool.                                          *)
(***************************************************************************)

\* The phase of the abstract pool at each stage of thread_pool_stop.
LEMMA PhaseOfStage ==
  /\ stop = "none" => Phase = "open"
  /\ stop \in {"wait", "woken"} => Phase = IF spurred THEN "hurried" ELSE "draining"
  /\ stop = "join" => Phase = "closing"
  /\ stop = "freed" => Phase = "closed"
  BY DEF Phase

\* The same jobs are in flight when the same workers run the same jobs.
LEMMA InFlightSame ==
  ASSUME cur' = cur, \A w \in Workers : pc'[w] = "job" <=> pc[w] = "job"
  PROVE  InFlight' = InFlight
  BY DEF InFlight

\* Taking a job puts it in flight.
LEMMA InFlightTake ==
  ASSUME TypeOK, NEW w \in Workers, WorkerTake(w)
  PROVE  InFlight' = InFlight \cup {Head(queue)}
<1>1. /\ pc[w] # "job" /\ pc'[w] = "job" /\ cur'[w] = Head(queue)
      /\ \A v \in Workers \ {w} : pc'[v] = pc[v] /\ cur'[v] = cur[v]
  BY DEF WorkerTake, GetAndPopJob, TypeOK
<1> QED  BY <1>1 DEF InFlight

\* Finishing a job, which no other worker runs, takes it out of flight.
LEMMA InFlightFinish ==
  ASSUME TypeOK, JobsConserved, NEW w \in Workers, WorkerFinish(w)
  PROVE  cur[w] \in InFlight /\ InFlight' = InFlight \ {cur[w]}
<1>1. /\ pc[w] = "job" /\ pc'[w] # "job"
      /\ \A v \in Workers \ {w} : pc'[v] = pc[v] /\ cur'[v] = cur[v]
      /\ \A v \in Workers \ {w} : pc[v] = "job" => cur[v] # cur[w]
  BY DEF WorkerFinish, TypeOK, JobsConserved
<1> QED  BY <1>1 DEF InFlight

\* A step of a worker is a step of the abstract pool or a stutter.
LEMMA WorkerStepRefines ==
  ASSUME IInv, NEW w \in Workers, WorkerStep(w) \/ SpuriousWorker(w)
  PROVE  [Pool!Next]_(Pool!vars)
<1>1. TypeOK /\ JobsConserved /\ StageInv
  BY DEF IInv
<1>2. CASE WorkerWait(w) \/ WorkerExit(w) \/ SpuriousWorker(w)
  <2>1. \A v \in Workers : pc'[v] = "job" <=> pc[v] = "job"
    BY <1>1, <1>2 DEF WorkerWait, WorkerExit, SpuriousWorker, TypeOK
  <2>2. InFlight' = InFlight
    BY <1>2, <2>1, InFlightSame DEF WorkerWait, WorkerExit, SpuriousWorker
  <2>3. UNCHANGED <<queue, done, posted, stop, spurred>>
    BY <1>2 DEF WorkerWait, WorkerExit, SpuriousWorker
  <2>4. Phase' = Phase
    BY <2>3 DEF Phase
  <2> QED  BY <2>2, <2>3, <2>4 DEF Pool!vars
<1>3. CASE WorkerTake(w)
  <2>1. queue # <<>>
    BY <1>3, TakeFacts
  <2>2. stop \in {"none", "wait", "woken"}
    BY <1>1, <1>3 DEF WorkerTake, Over, StageInv, TypeOK
  <2>3. Phase \in {"open", "draining", "hurried"} /\ Phase' = Phase
    BY <1>3, <2>2 DEF WorkerTake, GetAndPopJob, Phase
  <2>4. Pool!Start
    BY <1>1, <1>3, <2>1, <2>3, InFlightTake DEF WorkerTake, GetAndPopJob, Pool!Start
  <2> QED  BY <2>4 DEF Pool!Next
<1>4. CASE WorkerFinish(w)
  <2>1. cur[w] \in InFlight /\ InFlight' = InFlight \ {cur[w]}
    BY <1>1, <1>4, InFlightFinish
  <2>2. Phase' = Phase
    BY <1>4 DEF WorkerFinish, Phase
  <2>3. Pool!Finish(cur[w])
    BY <1>4, <2>1, <2>2 DEF WorkerFinish, Pool!Finish
  <2> QED  BY <2>1, <2>3 DEF Pool!Next
<1> QED  BY <1>2, <1>3, <1>4 DEF WorkerStep

\* A step of the caller of thread_pool_stop is a step of the abstract pool or
\* a stutter; the end of its wait is, because the queue is empty then or the
\* abstract pool has been hurried.
LEMMA StopStepRefines ==
  ASSUME IInv,
         (\E wait \in BOOLEAN : Stop(wait)) \/ StopResume \/ StopReturn \/ SpuriousStopper
  PROVE  [Pool!Next]_(Pool!vars)
<1>1. TypeOK /\ StageInv /\ NoUseAfterFree /\ StopperAwaitsJobs
  BY DEF IInv
<1>2. ASSUME NEW wait \in BOOLEAN, Stop(wait) PROVE Pool!Next
  <2>1. InFlight' = InFlight
    BY <1>1, <1>2, Broadcast, InFlightSame DEF Stop
  <2>2. Phase = "open"
    BY <1>2, PhaseOfStage DEF Stop
  <2>3. Phase' = IF wait /\ queue # <<>> THEN "draining" ELSE "closing"
    BY <1>1, <1>2 DEF Stop, MustWait, Phase, StageInv
  <2>4. Pool!Shutdown(wait)
    BY <1>2, <2>1, <2>2, <2>3 DEF Stop, Pool!Shutdown
  <2> QED  BY <2>4 DEF Pool!Next
<1>3. CASE StopResume
  <2>1. InFlight' = InFlight
    BY <1>1, <1>3, Broadcast, InFlightSame DEF StopResume
  <2>2. spurred \/ queue = <<>>
    BY <1>1, <1>3 DEF StopResume, StageInv
  <2>3. Phase = (IF spurred THEN "hurried" ELSE "draining") /\ Phase' = "closing"
    BY <1>3 DEF StopResume, Phase
  <2>4. Pool!Drained
    BY <1>3, <2>1, <2>2, <2>3 DEF StopResume, Pool!Drained
  <2> QED  BY <2>4 DEF Pool!Next
<1>4. CASE StopReturn
  <2>1. InFlight = {} /\ InFlight' = InFlight
    BY <1>4 DEF StopReturn, AllJoined, InFlight
  <2>2. Phase = "closing" /\ Phase' = "closed"
    BY <1>4 DEF StopReturn, Phase
  <2>3. Pool!Close
    BY <1>4, <2>1, <2>2 DEF StopReturn, Pool!Close
  <2> QED  BY <2>3 DEF Pool!Next
<1>5. CASE SpuriousStopper
  <2>1. InFlight' = InFlight
    BY <1>5, InFlightSame DEF SpuriousStopper
  <2>2. queue # <<>> /\ ~spurred
    BY <1>1, <1>5 DEF SpuriousStopper, StageInv, StopperAwaitsJobs
  <2>3. Phase = "draining" /\ Phase' = "hurried"
    BY <1>5, <2>2 DEF SpuriousStopper, Phase
  <2>4. Pool!Hurry
    BY <1>5, <2>1, <2>2, <2>3 DEF SpuriousStopper, Pool!Hurry
  <2> QED  BY <2>4 DEF Pool!Next
<1> QED  BY <1>2, <1>3, <1>4, <1>5

\* Every step of the pool is a step of the abstract pool or a stutter.
LEMMA NextRefines ==
  ASSUME IInv, [Next]_vars PROVE [Pool!Next]_(Pool!vars)
<1>1. CASE PostJob
  <2>1. TypeOK /\ StageInv
    BY DEF IInv
  <2>2. stop = "none"
    BY <1>1, <2>1 DEF PostJob, StageInv
  <2>3. Phase = "open" /\ Phase' = "open"
    BY <1>1, <2>2 DEF PostJob, Phase
  <2>4. InFlight' = InFlight
    BY <1>1, <2>1, Broadcast, InFlightSame DEF PostJob
  <2>5. Pool!Submit
    BY <1>1, <2>3, <2>4 DEF PostJob, PushJob, Pool!Submit
  <2> QED  BY <2>5 DEF Pool!Next
<1>2. ASSUME NEW w \in Workers, WorkerStep(w) \/ SpuriousWorker(w)
      PROVE  [Pool!Next]_(Pool!vars)
  BY <1>2, WorkerStepRefines
<1>3. CASE (\E wait \in BOOLEAN : Stop(wait)) \/ StopResume \/ StopReturn \/ SpuriousStopper
  BY <1>3, StopStepRefines
<1>4. CASE Terminated \/ UNCHANGED vars
  <2>1. UNCHANGED <<queue, pc, cur, stop, spurred, done, posted>>
    BY <1>4 DEF Terminated, vars
  <2>2. InFlight' = InFlight /\ Phase' = Phase
    BY <2>1 DEF InFlight, Phase
  <2> QED  BY <2>1, <2>2 DEF Pool!vars
<1> QED  BY <1>1, <1>2, <1>3, <1>4 DEF Next

\* The thread pool implements the abstract job pool, spurious wakeups of the
\* workers and of the caller of thread_pool_stop included.
THEOREM Refinement == Spec => ImplementsJobPool
<1>1. Init => Pool!Init
  <2> SUFFICES ASSUME Init PROVE Pool!Init
    OBVIOUS
  <2>1. InFlight = {}
    BY DEF Init, InFlight
  <2>2. Phase = "open"
    BY PhaseOfStage DEF Init
  <2> QED  BY <2>1, <2>2 DEF Init, Pool!Init
<1>2. IInv /\ [Next]_vars => [Pool!Next]_(Pool!vars)
  BY NextRefines
<1> QED  BY <1>1, <1>2, Invariance, PTL DEF Spec, ImplementsJobPool, Pool!Spec
=============================================================================
