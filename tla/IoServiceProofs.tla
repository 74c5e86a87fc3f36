--------------------------- MODULE IoServiceProofs ---------------------------
(***************************************************************************)
(* Proofs about IoService for any set of descriptors and of jobs and any   *)
(* bound on the unread notifications.                                      *)
(***************************************************************************)
EXTENDS IoService, TLAPS

\* A slot without a job is as memset left it.
CleanSlots ==
  \A fd \in Fds, op \in Ops : slot[fd][op].job = NULL => slot[fd][op] = Empty

\* As long as jobs are accepted an active loop has its running flag set, so
\* that every accepted post is announced; nothing is registered before the
\* loop starts; a notification the loop is about to read is there; and a job
\* that runs belongs to a descriptor.
LoopInv ==
  /\ Active /\ allow_new => running
  /\ pc = "idle" => registered = {}
  /\ pc = "event" /\ event.fd = EventFd => notified > 0
  /\ pc = "job" => event.fd \in Fds

\* The inductive invariant.
IInv ==
  /\ TypeOK
  /\ CleanSlots
  /\ LoopInv
  /\ MaskMatchesSlots
  /\ WatchedIsListed
  /\ NoLostRegistration
  /\ NoOrphanWatch

(***************************************************************************)
(* The inductive invariant holds initially and is preserved by each step.  *)
(***************************************************************************)

\* A service as io_service_init leaves it satisfies the invariant.
LEMMA InitIInv == Init => IInv
<1> SUFFICES ASSUME Init PROVE IInv
  OBVIOUS
<1> USE DEF Init, NoSlots, Empty, NoEvent, NoCall, Ops, Slot
<1>1. TypeOK
  <2>1. slot \in [Fds -> [Ops -> Slot]] /\ notified \in 0..MaxNotify
    BY MaxNotifyAssumption
  <2>2. event \in [fd : Fds \cup {EventFd, NULL}, ops : SUBSET Ops]
    OBVIOUS
  <2>3. cur \in [op : Ops, job : Jobs \cup {NULL}]
    OBVIOUS
  <2>4. /\ events \in [Fds -> SUBSET Ops] /\ interest \in [Fds -> SUBSET Ops]
        /\ lookup_table \in SUBSET Fds /\ registered \in SUBSET Fds
    OBVIOUS
  <2>5. /\ allow_new \in BOOLEAN /\ running \in BOOLEAN
        /\ stopCall = "no" /\ pc = "idle"
    OBVIOUS
  <2> QED  BY <2>1, <2>2, <2>3, <2>4, <2>5, Zenon DEF TypeOK
<1>2. CleanSlots /\ LoopInv /\ MaskMatchesSlots
  BY FdsAssumption DEF CleanSlots, LoopInv, Active, MaskMatchesSlots
<1>3. WatchedIsListed /\ NoLostRegistration /\ NoOrphanWatch
  BY DEF WatchedIsListed, NoLostRegistration, NoOrphanWatch, Active
<1> QED  BY <1>1, <1>2, <1>3 DEF IInv

\* A notification, sent or not, keeps the counter within its bound.
LEMMA NotifyFacts ==
  ASSUME TypeOK, Notify \/ NotifyIfRunning
  PROVE  /\ notified' \in 0..MaxNotify
         /\ notified > 0 => notified' > 0
         /\ running \/ Notify => notified' > 0
  BY MaxNotifyAssumption DEF TypeOK, Notify, NotifyIfRunning

\* io_service_post_job preserves the invariant.
LEMMA PostJobIInv ==
  ASSUME IInv, NEW fd \in Fds, NEW op \in Ops, NEW oneshot \in BOOLEAN, NEW job \in Jobs,
         PostJob(fd, op, oneshot, job)
  PROVE  IInv'
<1> USE DEF IInv
<1> DEFINE new == [job |-> job, oneshot |-> oneshot]
<1>1. /\ notified' \in 0..MaxNotify
      /\ notified > 0 => notified' > 0
      /\ running => notified' > 0
  BY NotifyFacts DEF PostJob, Vacant
<1>2. UNCHANGED <<registered, interest, allow_new, running, stopCall, pc, event, cur>>
  BY DEF PostJob, kernel, flags, loop
<1>3. /\ slot[fd][op].job = NULL
      /\ slot' = [slot EXCEPT ![fd] = [slot[fd] EXCEPT ![op] = new]]
      /\ events' = [events EXCEPT ![fd] = events[fd] \cup {op}]
      /\ lookup_table' = lookup_table \cup {fd}
      /\ allow_new
  <2>1. CASE fd \in lookup_table
    BY <2>1 DEF PostJob, Vacant
  <2>2. CASE fd \notin lookup_table
    <3>1. events[fd] = {}
      BY <2>2 DEF MaskMatchesSlots, TypeOK
    <3>2. \A o \in Ops : slot[fd][o] = Empty
      BY <2>2 DEF MaskMatchesSlots, CleanSlots
    <3>3. slot[fd] = NoSlots
      BY <3>2 DEF NoSlots, TypeOK
    <3> QED  BY <2>2, <3>1, <3>2, <3>3 DEF PostJob, Empty
  <2> QED  BY <2>1, <2>2
<1> HIDE DEF IInv
<1>4. /\ TypeOK /\ CleanSlots /\ LoopInv /\ MaskMatchesSlots
      /\ WatchedIsListed /\ NoLostRegistration /\ NoOrphanWatch
  BY DEF IInv
<1>5. new \in Slot /\ new.job # NULL
  BY JobsAssumption DEF Slot
<1>6. TypeOK'
  BY <1>1, <1>2, <1>3, <1>4, <1>5 DEF TypeOK
<1>7. /\ slot'[fd][op] = new
      /\ \A f \in Fds, o \in Ops : f # fd \/ o # op => slot'[f][o] = slot[f][o]
      /\ events'[fd] = events[fd] \cup {op}
      /\ \A f \in Fds : f # fd => events'[f] = events[f]
  BY <1>3, <1>4 DEF TypeOK
<1>8. CleanSlots' /\ MaskMatchesSlots'
  BY <1>3, <1>4, <1>5, <1>7 DEF CleanSlots, MaskMatchesSlots
<1>9. LoopInv' /\ WatchedIsListed'
  BY <1>1, <1>2, <1>3, <1>4 DEF LoopInv, Active, WatchedIsListed
<1>10. NoLostRegistration'
  BY <1>1, <1>2, <1>3, <1>4 DEF NoLostRegistration, LoopInv, Active
<1>11. NoOrphanWatch'
  BY <1>1, <1>2, <1>4 DEF NoOrphanWatch, Active
<1> QED  BY <1>6, <1>8, <1>9, <1>10, <1>11 DEF IInv

\* io_service_remove_job preserves the invariant.
LEMMA RemoveJobIInv ==
  ASSUME IInv, NEW fd \in Fds, NEW op \in Ops, NEW job \in Jobs, RemoveJob(fd, op, job)
  PROVE  IInv'
<1>1. /\ TypeOK /\ CleanSlots /\ LoopInv /\ MaskMatchesSlots
      /\ WatchedIsListed /\ NoLostRegistration /\ NoOrphanWatch
  BY DEF IInv
<1>2. /\ notified' \in 0..MaxNotify
      /\ notified > 0 => notified' > 0
      /\ running => notified' > 0
  BY <1>1, NotifyFacts DEF RemoveJob
<1>3. UNCHANGED <<lookup_table, registered, interest, allow_new, running, stopCall, pc, event, cur>>
  BY DEF RemoveJob, kernel, flags, loop
<1>4. /\ slot'[fd][op] = Empty
      /\ \A f \in Fds, o \in Ops : f # fd \/ o # op => slot'[f][o] = slot[f][o]
      /\ events'[fd] = events[fd] \ {op}
      /\ \A f \in Fds : f # fd => events'[f] = events[f]
  BY <1>1 DEF RemoveJob, ClearSlot, TypeOK
<1>5. Empty \in Slot /\ Empty.job = NULL
  BY DEF Empty, Slot
<1>6. TypeOK'
  BY <1>1, <1>2, <1>3, <1>5 DEF RemoveJob, ClearSlot, TypeOK
<1>7. CleanSlots' /\ MaskMatchesSlots'
  BY <1>1, <1>3, <1>4, <1>5 DEF CleanSlots, MaskMatchesSlots
<1>8. LoopInv' /\ WatchedIsListed'
  BY <1>1, <1>2, <1>3 DEF LoopInv, Active, WatchedIsListed
<1>9. NoLostRegistration'
  BY <1>1, <1>2, <1>3, <1>4, <1>5 DEF NoLostRegistration, Active
<1>10. NoOrphanWatch'
  BY <1>2, <1>3 DEF NoOrphanWatch, Active
<1> QED  BY <1>6, <1>7, <1>8, <1>9, <1>10 DEF IInv

\* io_service_stop, also when it is called again, preserves the invariant.
LEMMA StopIInv ==
  ASSUME IInv, NEW wait_pending \in BOOLEAN, Stop(wait_pending)
  PROVE  IInv'
<1>1. /\ TypeOK /\ CleanSlots /\ LoopInv /\ MaskMatchesSlots
      /\ WatchedIsListed /\ NoLostRegistration /\ NoOrphanWatch
  BY DEF IInv
<1>2. notified' \in 0..MaxNotify /\ notified' > 0
  BY <1>1, NotifyFacts DEF Stop
<1>3. /\ UNCHANGED <<lookup_table, slot, events, registered, interest, pc, event, cur>>
      /\ allow_new' = FALSE /\ running' = wait_pending
      /\ stopCall' \in {"now", "drain"}
  BY DEF Stop, table, kernel, loop
<1>4. TypeOK'
  BY <1>1, <1>2, <1>3 DEF TypeOK
<1>5. CleanSlots' /\ MaskMatchesSlots' /\ WatchedIsListed'
  BY <1>1, <1>3 DEF CleanSlots, MaskMatchesSlots, WatchedIsListed
<1>6. LoopInv' /\ NoLostRegistration' /\ NoOrphanWatch'
  BY <1>1, <1>2, <1>3 DEF LoopInv, NoLostRegistration, NoOrphanWatch, Active
<1> QED  BY <1>4, <1>5, <1>6 DEF IInv

\* Starting the loop preserves the invariant.
LEMMA RunIInv == ASSUME IInv, Run PROVE IInv'
<1>1. /\ TypeOK /\ CleanSlots /\ LoopInv /\ MaskMatchesSlots
      /\ WatchedIsListed /\ NoLostRegistration /\ NoOrphanWatch
  BY DEF IInv
<1>2. /\ UNCHANGED <<lookup_table, slot, events, allow_new, stopCall, notified, event, cur>>
      /\ running' = TRUE /\ pc' = "wait" /\ registered' = lookup_table
  BY DEF Run, RegisterAll, table
<1>3. \A fd \in Fds : interest'[fd] = IF fd \in lookup_table THEN events[fd] ELSE {}
  BY DEF Run, RegisterAll
<1>4. \A fd \in Fds : interest'[fd] = events[fd]
  BY <1>1, <1>3 DEF MaskMatchesSlots, TypeOK
<1>5. TypeOK'
  BY <1>1, <1>2 DEF TypeOK, Run, RegisterAll
<1>6. CleanSlots' /\ MaskMatchesSlots' /\ LoopInv'
  BY <1>1, <1>2 DEF CleanSlots, MaskMatchesSlots, LoopInv
<1>7. WatchedIsListed'
  BY <1>2, <1>3 DEF WatchedIsListed
<1>8. NoLostRegistration' /\ NoOrphanWatch'
  BY <1>1, <1>2, <1>4 DEF NoLostRegistration, NoOrphanWatch, MaskMatchesSlots
<1> QED  BY <1>5, <1>6, <1>7, <1>8 DEF IInv

\* What epoll_wait returns, the return of a job, the end of a scan and the
\* end of the service change neither the table nor the kernel's view of it.
LEMMA QuietStepIInv ==
  ASSUME IInv,
         \/ EpollStep \/ FinishJob \/ EndScan \/ Deinit
  PROVE  IInv'
<1>1. /\ TypeOK /\ CleanSlots /\ LoopInv /\ MaskMatchesSlots
      /\ WatchedIsListed /\ NoLostRegistration /\ NoOrphanWatch
  BY DEF IInv
<1> USE DEF EpollStep, EpollNotify, EpollInterrupted, EpollFd, FinishJob, EndScan, Deinit,
            LoopHead
<1>2. UNCHANGED <<lookup_table, slot, events, registered, interest, allow_new, running,
                  stopCall, notified>>
  BY DEF table, kernel, flags
<1>3. TypeOK'
  BY <1>1, <1>2, FdsAssumption DEF TypeOK, NoEvent, NoCall, Ops
<1>4. CleanSlots' /\ MaskMatchesSlots' /\ WatchedIsListed'
  BY <1>1, <1>2 DEF CleanSlots, MaskMatchesSlots, WatchedIsListed
<1>5. Active' => Active
  BY DEF Active
<1>6. NoLostRegistration' /\ NoOrphanWatch'
  BY <1>1, <1>2, <1>5 DEF NoLostRegistration, NoOrphanWatch
<1>7. LoopInv'
  <2>1. (Active /\ allow_new => running)'
    BY <1>1, <1>2, <1>5 DEF LoopInv
  <2>2. pc' # "idle"
    OBVIOUS
  <2>3. (pc = "event" /\ event.fd = EventFd => notified > 0)'
    BY <1>1, <1>2, FdsAssumption DEF LoopInv, NoEvent
  <2>4. pc' # "job"
    OBVIOUS
  <2> QED  BY <2>1, <2>2, <2>3, <2>4 DEF LoopInv
<1> QED  BY <1>3, <1>4, <1>6, <1>7 DEF IInv

\* Handling a notification preserves the invariant: afterwards the kernel
\* watches exactly what the table asks for.
LEMMA HandleNotifyIInv == ASSUME IInv, HandleNotify PROVE IInv'
<1>1. /\ TypeOK /\ CleanSlots /\ LoopInv /\ MaskMatchesSlots
      /\ WatchedIsListed /\ NoLostRegistration /\ NoOrphanWatch
  BY DEF IInv
<1>2. /\ UNCHANGED <<slot, events, allow_new, stopCall, cur>>
      /\ notified' \in 0..MaxNotify
      /\ running' = (running /\ (lookup_table # {} \/ allow_new))
      /\ pc' \in {"wait", "returned"}
      /\ event' = NoEvent
  BY <1>1, MaxNotifyAssumption DEF HandleNotify, StillRunning, LoopHead, TypeOK
<1>3. /\ lookup_table' = {fd \in lookup_table : events[fd] # {}}
      /\ lookup_table' \subseteq Fds /\ registered' = lookup_table'
  BY <1>1 DEF HandleNotify, TypeOK, WatchedIsListed
<1>4. /\ interest' \in [Fds -> SUBSET Ops]
      /\ \A fd \in Fds : fd \in lookup_table' => interest'[fd] = events[fd]
      /\ \A fd \in Fds : fd \notin lookup_table' => interest'[fd] = {}
  BY <1>1, <1>3 DEF HandleNotify, TypeOK, WatchedIsListed
<1>5. \A fd \in Fds : interest'[fd] = events[fd]
  BY <1>1, <1>3, <1>4 DEF MaskMatchesSlots, TypeOK
<1>6. running' \in BOOLEAN /\ event' \in [fd : Fds \cup {EventFd, NULL}, ops : SUBSET Ops]
  BY <1>2 DEF NoEvent
<1>7. TypeOK'
  BY <1>1, <1>2, <1>3, <1>4, <1>6 DEF TypeOK
<1>8. CleanSlots'
  BY <1>1, <1>2 DEF CleanSlots
<1>9. MaskMatchesSlots'
  BY <1>1, <1>2, <1>3 DEF MaskMatchesSlots
<1>10. WatchedIsListed'
  BY <1>3, <1>4 DEF WatchedIsListed
<1>11. NoLostRegistration' /\ NoOrphanWatch'
  BY <1>1, <1>2, <1>5 DEF NoLostRegistration, NoOrphanWatch, MaskMatchesSlots
<1>12. LoopInv'
  <2>1. pc \in {"event"}
    BY DEF HandleNotify
  <2>2. allow_new => running'
    BY <1>1, <1>2, <2>1 DEF LoopInv, Active
  <2> QED  BY <1>2, <2>2 DEF LoopInv
<1> QED  BY <1>7, <1>8, <1>9, <1>10, <1>11, <1>12 DEF IInv

\* What calling the job of an operation does.
LEMMA DispatchFacts ==
  ASSUME TypeOK, NEW op \in Ops, DispatchJob(op)
  PROVE  /\ event.fd \in Fds /\ event.fd \in lookup_table /\ slot[event.fd][op].job # NULL
         /\ pc = "event" /\ pc' = "job" /\ event'.fd = event.fd
         /\ event' \in [fd : Fds \cup {EventFd, NULL}, ops : SUBSET Ops]
         /\ cur' = [op |-> op, job |-> slot[event.fd][op].job]
         /\ UNCHANGED <<allow_new, running, stopCall, notified>>
<1>1. event.fd \in Fds /\ op \in Ready /\ pc = "event" /\ pc' = "job"
  BY DEF DispatchJob
<1>2. event.fd \in lookup_table /\ slot[event.fd][op].job # NULL
  BY <1>1 DEF Ready
<1>3. event'.fd = event.fd /\ event' \in [fd : Fds \cup {EventFd, NULL}, ops : SUBSET Ops]
  BY DEF DispatchJob, OpsAfter, TypeOK, Ops
<1>4. /\ cur' = [op |-> op, job |-> slot[event.fd][op].job]
      /\ UNCHANGED <<allow_new, running, stopCall, notified>>
  BY DEF DispatchJob, flags
<1> QED  BY <1>1, <1>2, <1>3, <1>4

\* Calling a job preserves the invariant.
LEMMA DispatchJobIInv == ASSUME IInv, NEW op \in Ops, DispatchJob(op) PROVE IInv'
<1>1. /\ TypeOK /\ CleanSlots /\ LoopInv /\ MaskMatchesSlots
      /\ WatchedIsListed /\ NoLostRegistration /\ NoOrphanWatch
  BY DEF IInv
<1> DEFINE fd == event.fd
<1>2. /\ fd \in Fds /\ fd \in lookup_table /\ slot[fd][op].job # NULL
      /\ pc = "event" /\ pc' = "job" /\ event'.fd = fd
      /\ event' \in [fd : Fds \cup {EventFd, NULL}, ops : SUBSET Ops]
      /\ cur' = [op |-> op, job |-> slot[fd][op].job]
      /\ UNCHANGED <<allow_new, running, stopCall, notified>>
  BY <1>1, DispatchFacts
<1>3. cur' \in [op : Ops, job : Jobs \cup {NULL}]
  BY <1>1, <1>2 DEF TypeOK, Slot
<1>4. Empty \in Slot /\ Empty.job = NULL
  BY DEF Empty, Slot
<1>5. LoopInv'
  BY <1>1, <1>2 DEF LoopInv, Active
<1>6. CASE ~slot[fd][op].oneshot
  <2>1. UNCHANGED <<lookup_table, slot, events, registered, interest>>
    BY <1>6 DEF DispatchJob, kernel
  <2>2. TypeOK'
    BY <1>1, <1>2, <1>3, <2>1 DEF TypeOK
  <2>3. CleanSlots' /\ MaskMatchesSlots' /\ WatchedIsListed'
    BY <1>1, <2>1 DEF CleanSlots, MaskMatchesSlots, WatchedIsListed
  <2>4. NoLostRegistration' /\ NoOrphanWatch'
    BY <1>1, <1>2, <2>1 DEF NoLostRegistration, NoOrphanWatch, Active
  <2> QED  BY <1>5, <2>2, <2>3, <2>4 DEF IInv
<1>7. CASE slot[fd][op].oneshot
  <2>1. /\ slot' = [slot EXCEPT ![fd][op] = Empty]
        /\ events' = [events EXCEPT ![fd] = @ \ {op}]
    BY <1>7 DEF DispatchJob, ClearSlot
  <2>2. /\ slot'[fd][op] = Empty
        /\ \A f \in Fds, o \in Ops : f # fd \/ o # op => slot'[f][o] = slot[f][o]
        /\ events'[fd] = events[fd] \ {op}
        /\ \A f \in Fds : f # fd => events'[f] = events[f]
        /\ slot' \in [Fds -> [Ops -> Slot]] /\ events' \in [Fds -> SUBSET Ops]
    BY <1>1, <1>2, <1>4, <2>1 DEF TypeOK
  <2>3. CleanSlots'
    BY <1>1, <1>4, <2>2 DEF CleanSlots
  <2>4. CASE events[fd] \ {op} = {}
    <3>1. /\ lookup_table' = lookup_table \ {fd}
          /\ registered' = registered \ {fd}
          /\ interest' = [interest EXCEPT ![fd] = {}]
      BY <1>7, <2>4 DEF DispatchJob, Unlink
    <3>2. /\ interest'[fd] = {} /\ interest' \in [Fds -> SUBSET Ops]
          /\ \A f \in Fds : f # fd => interest'[f] = interest[f]
      BY <1>1, <1>2, <3>1 DEF TypeOK
    <3>3. TypeOK'
      BY <1>1, <1>2, <1>3, <2>2, <3>1, <3>2 DEF TypeOK
    <3>4. MaskMatchesSlots'
      BY <1>1, <1>2, <1>4, <2>2, <2>4, <3>1 DEF MaskMatchesSlots
    <3>5. WatchedIsListed'
      BY <1>1, <1>2, <3>1, <3>2 DEF WatchedIsListed
    <3>6. NoLostRegistration' /\ NoOrphanWatch'
      <4>1. \A o \in Ops : slot'[fd][o].job = NULL
        BY <1>1, <1>2, <1>4, <2>2, <2>4 DEF MaskMatchesSlots
      <4>2. NoLostRegistration'
        BY <1>1, <1>2, <2>2, <3>2, <4>1 DEF NoLostRegistration, Active
      <4>3. NoOrphanWatch'
        BY <1>1, <1>2, <2>2, <3>2 DEF NoOrphanWatch, Active
      <4> QED  BY <4>2, <4>3
    <3> QED  BY <1>5, <2>3, <3>3, <3>4, <3>5, <3>6 DEF IInv
  <2>5. CASE events[fd] \ {op} # {}
    <3>1. UNCHANGED <<lookup_table, registered, interest>>
      BY <2>5 DEF DispatchJob, kernel
    <3>2. TypeOK'
      BY <1>1, <1>2, <1>3, <2>2, <3>1 DEF TypeOK
    <3>3. MaskMatchesSlots' /\ WatchedIsListed'
      BY <1>1, <1>2, <1>4, <2>2, <3>1 DEF MaskMatchesSlots, WatchedIsListed
    <3>4. NoLostRegistration'
      BY <1>1, <1>2, <1>4, <2>2, <3>1 DEF NoLostRegistration, Active
    <3>5. NoOrphanWatch'
      BY <1>1, <1>2, <2>2, <2>5, <3>1 DEF NoOrphanWatch, Active
    <3> QED  BY <1>5, <2>3, <3>2, <3>3, <3>4, <3>5 DEF IInv
  <2> QED  BY <2>4, <2>5
<1> QED  BY <1>6, <1>7

\* A stuttering step preserves the invariant.
LEMMA StutterIInv == ASSUME IInv, UNCHANGED vars PROVE IInv'
<1>1. UNCHANGED <<lookup_table, slot, events, registered, interest, allow_new, running,
                  stopCall, notified, pc, event, cur>>
  BY DEF vars, table, kernel, flags, loop
<1> QED
  BY <1>1 DEF IInv, TypeOK, CleanSlots, LoopInv, Active, MaskMatchesSlots, WatchedIsListed,
              NoLostRegistration, NoOrphanWatch

\* Every step of every thread preserves the invariant.
LEMMA NextIInv == IInv /\ [Next]_vars => IInv'
<1> SUFFICES ASSUME IInv, [Next]_vars PROVE IInv'
  OBVIOUS
<1>1. CASE CallStep
  BY <1>1, PostJobIInv, RemoveJobIInv, StopIInv, QuietStepIInv DEF CallStep
<1>2. CASE Run
  BY <1>2, RunIInv
<1>3. CASE EpollStep
  BY <1>3, QuietStepIInv
<1>4. CASE LoopStep
  BY <1>4, HandleNotifyIInv, DispatchJobIInv, QuietStepIInv DEF LoopStep
<1>5. CASE Terminated \/ UNCHANGED vars
  BY <1>5, StutterIInv DEF Terminated
<1> QED  BY <1>1, <1>2, <1>3, <1>4, <1>5 DEF Next

\* The invariant holds in every reachable state.
THEOREM Invariance == Spec => []IInv
  BY InitIInv, NextIInv, PTL DEF Spec

(***************************************************************************)
(* The properties.                                                         *)
(***************************************************************************)

\* The masks of the table always agree with its jobs, and the kernel watches
\* only descriptors of the table.
THEOREM TableConsistent == Spec => []TableAgrees
<1>1. IInv => TableAgrees
  BY DEF IInv, TableAgrees
<1> QED  BY <1>1, Invariance, PTL

\* No posted job is forgotten by an active loop and no watch outlives its jobs
\* once the notifications are read, for any number of threads that post,
\* remove and stop.
THEOREM KernelInStep == Spec => []KernelAgrees
<1>1. IInv => KernelAgrees
  BY DEF IInv, KernelAgrees
<1> QED  BY <1>1, Invariance, PTL

(***************************************************************************)
(* IoService implements Reactor.                                           *)
(***************************************************************************)

\* Every step of the service is a step of the reactor or a stutter.
LEMMA NextRefines ==
  ASSUME IInv, [Next]_vars PROVE [React!Next]_(React!vars)
<1>1. TypeOK /\ CleanSlots /\ MaskMatchesSlots
  BY DEF IInv
<1>2. ASSUME NEW fd \in Fds, NEW op \in Ops, NEW oneshot \in BOOLEAN, NEW job \in Jobs,
             PostJob(fd, op, oneshot, job)
      PROVE  React!Next
  <2>1. slot[fd][op].job = NULL /\ slot[fd] = IF fd \in lookup_table THEN slot[fd] ELSE NoSlots
    <3>1. CASE fd \in lookup_table
      BY <1>2, <3>1 DEF PostJob, Vacant
    <3>2. CASE fd \notin lookup_table
      <4>1. \A o \in Ops : slot[fd][o] = Empty
        BY <1>1, <3>2 DEF MaskMatchesSlots, CleanSlots
      <4>2. slot[fd] = NoSlots
        BY <1>1, <4>1 DEF NoSlots, TypeOK
      <4> QED  BY <3>2, <4>1, <4>2 DEF Empty
    <3> QED  BY <3>1, <3>2
  <2>2. slot' = [slot EXCEPT ![fd] = [slot[fd] EXCEPT ![op] = [job |-> job, oneshot |-> oneshot]]]
    BY <1>2, <2>1 DEF PostJob, Vacant
  <2>3. allow_new /\ allow_new' = allow_new /\ InFlight' = InFlight
    BY <1>2 DEF PostJob, flags, loop, InFlight
  <2>4. React!Post(fd, op, oneshot, job)
    BY <2>1, <2>2, <2>3 DEF React!Post
  <2> QED  BY <2>4 DEF React!Next, React!Ops, Ops
<1>3. ASSUME NEW fd \in Fds, NEW op \in Ops, NEW job \in Jobs, RemoveJob(fd, op, job)
      PROVE  React!Next
  <2>1. React!Remove(fd, op, job)
    BY <1>3 DEF RemoveJob, ClearSlot, flags, loop, InFlight, React!Remove, React!Empty, Empty
  <2> QED  BY <2>1 DEF React!Next, React!Ops, Ops
<1>4. ASSUME NEW wait_pending \in BOOLEAN, Stop(wait_pending) PROVE React!Next
  <2>1. React!Refuse
    BY <1>4 DEF Stop, table, loop, InFlight, React!Refuse
  <2> QED  BY <2>1 DEF React!Next
<1>5. ASSUME NEW op \in Ops, DispatchJob(op) PROVE React!Next
  <2>1. /\ event.fd \in Fds /\ slot[event.fd][op].job # NULL
        /\ pc = "event" /\ pc' = "job" /\ event'.fd = event.fd
        /\ cur' = [op |-> op, job |-> slot[event.fd][op].job]
        /\ allow_new' = allow_new
    BY <1>1, <1>5, DispatchFacts
  <2>2. InFlight = {} /\ InFlight' = {<<event.fd, op, slot[event.fd][op].job>>}
    BY <2>1 DEF InFlight
  <2>3. slot' = IF slot[event.fd][op].oneshot
                THEN [slot EXCEPT ![event.fd][op] = Empty] ELSE slot
    BY <1>5 DEF DispatchJob, ClearSlot
  <2>4. React!Call(event.fd, op)
    BY <2>1, <2>2, <2>3 DEF React!Call, React!Empty, Empty
  <2> QED  BY <2>1, <2>4 DEF React!Next, React!Ops, Ops
<1>6. CASE FinishJob
  <2>1. React!Return
    BY <1>6 DEF FinishJob, table, flags, InFlight, React!Return
  <2> QED  BY <2>1 DEF React!Next
<1>7. CASE Run \/ EpollStep \/ HandleNotify \/ EndScan \/ Deinit
  <2>1. UNCHANGED <<slot, allow_new>>
    BY <1>7 DEF Run, EpollStep, EpollNotify, EpollInterrupted, EpollFd, HandleNotify, EndScan,
                Deinit, table, flags
  <2>2. pc # "job" /\ pc' # "job"
    BY <1>7 DEF Run, EpollStep, EpollNotify, EpollInterrupted, EpollFd, HandleNotify, EndScan,
                Deinit, LoopHead
  <2>3. InFlight' = InFlight
    BY <2>2 DEF InFlight
  <2> QED  BY <2>1, <2>3 DEF React!vars
<1>8. CASE Terminated \/ UNCHANGED vars
  <2>1. UNCHANGED <<slot, allow_new, pc, event, cur>>
    BY <1>8 DEF Terminated, vars, table, flags, loop
  <2> QED  BY <2>1 DEF InFlight, React!vars
<1>9. CASE CallStep
  BY <1>2, <1>3, <1>4, <1>7, <1>9 DEF CallStep
<1>10. CASE LoopStep
  BY <1>5, <1>6, <1>7, <1>10 DEF LoopStep
<1> QED  BY <1>7, <1>8, <1>9, <1>10 DEF Next

\* The service implements the abstract reactor.
THEOREM Refinement == Spec => ImplementsReactor
<1>1. Init => React!Init
  BY DEF Init, InFlight, NoSlots, Empty, Ops, React!Init, React!Empty, React!Ops
<1>2. IInv /\ [Next]_vars => [React!Next]_(React!vars)
  BY NextRefines
<1> QED  BY <1>1, <1>2, Invariance, PTL DEF Spec, ImplementsReactor, React!Spec
=============================================================================
