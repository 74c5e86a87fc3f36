------------------------------ MODULE IoService ------------------------------
(***************************************************************************)
(* The event loop of io-service/io-service.c.                              *)
(*                                                                         *)
(* Any thread posts and removes jobs for (file descriptor, operation)      *)
(* pairs; one thread runs the loop, which asks epoll for one event at a    *)
(* time and calls the job of the pair that became ready.  The table of     *)
(* jobs and the flags are guarded by object_mutex, which the loop releases *)
(* while it sleeps in epoll_wait and while a job runs; every critical      *)
(* section is one action.  What the kernel watches (registered, interest)  *)
(* lags behind the table (lookup_table, slot, events): a post or a removal *)
(* only writes to the semaphore eventfd, and the loop brings the kernel up *)
(* to date when it reads that notification.                                *)
(*                                                                         *)
(* A job and its context are one value.  The calls that change nothing (a  *)
(* post after io_service_stop or into an occupied slot, a removal that     *)
(* finds no such job) are stuttering steps.                                *)
(***************************************************************************)
EXTENDS Integers, FiniteSets

CONSTANTS
  Fds,           \* the file descriptors jobs are posted for
  Jobs,          \* the jobs, each with its context
  NULL,          \* no job, no descriptor
  EventFd,       \* the descriptor of the notification eventfd
  MaxNotify,     \* bound: unread notifications
  RepeatedStop   \* may io_service_stop be called more than once?

ASSUME JobsAssumption == NULL \notin Jobs
ASSUME FdsAssumption == NULL \notin Fds /\ EventFd \notin Fds /\ NULL # EventFd
ASSUME MaxNotifyAssumption == MaxNotify \in Nat \ {0}
ASSUME RepeatedStopAssumption == RepeatedStop \in BOOLEAN

VARIABLES
  allow_new,      \* iosvc->allow_new
  running,        \* iosvc->running
  notified,       \* the counter of the eventfd
  lookup_table,   \* the descriptors that have an element in the table
  slot,           \* lte->job[op] of each element
  events,         \* lte->event.events of each element
  registered,     \* kernel: the descriptors in the epoll set
  interest,       \* kernel: the operations watched for each of them
  pc,             \* the thread of io_service_run: "idle" (not called), "wait"
                  \* (in epoll_wait), "event" (about to lock the mutex with
                  \* what is left of an event), "job" (running a job),
                  \* "returned", "deinit" (the service is freed)
  event,          \* the event: its descriptor and the operations not yet seen
  cur,            \* the job the loop runs and its operation
  stopCall        \* history: the last io_service_stop, "no", "now" (false)
                  \* or "drain" (true)

table == <<lookup_table, slot, events>>
kernel == <<registered, interest>>
flags == <<allow_new, running, stopCall>>
loop == <<pc, event, cur>>
vars == <<table, kernel, flags, notified, loop>>

Ops == {"read", "write"}
Slot == [job : Jobs \cup {NULL}, oneshot : BOOLEAN]
Empty == [job |-> NULL, oneshot |-> FALSE]
NoSlots == [op \in Ops |-> Empty]
NoEvent == [fd |-> NULL, ops |-> {}]
NoCall == [op |-> "read", job |-> NULL]

\* The loop has been entered and has not been left.
Active == pc \in {"wait", "event", "job"}

(***************************************************************************)
(* The operations any thread calls.                                        *)
(***************************************************************************)
Init ==
  /\ allow_new = TRUE
  /\ running = FALSE
  /\ stopCall = "no"
  /\ notified = 0
  /\ lookup_table = {}
  /\ slot = [fd \in Fds |-> NoSlots]
  /\ events = [fd \in Fds |-> {}]
  /\ registered = {}
  /\ interest = [fd \in Fds |-> {}]
  /\ pc = "idle"
  /\ event = NoEvent
  /\ cur = NoCall

\* Mutant: the eventfd is not written.
NotifyNobody == UNCHANGED notified

\* notify_svc.
Notify == notified < MaxNotify /\ notified' = notified + 1

\* Mutant: the loop is not told of the change.
NotifyNever == UNCHANGED notified

\* if (iosvc->running) notify_svc(...).
NotifyIfRunning == IF running THEN Notify ELSE UNCHANGED notified

\* Mutant: an occupied slot is overwritten.
AlwaysVacant(fd, op) == TRUE

\* The slot a post looks at holds no job: the element is fresh, or the slot of
\* the existing one is empty.
Vacant(fd, op) == fd \in lookup_table => slot[fd][op].job = NULL

\* io_service_post_job: the element of fd, a fresh one if there is none, gets
\* the job unless its slot is occupied.
PostJob(fd, op, oneshot, job) ==
  LET fresh == fd \notin lookup_table
      jobs == IF fresh THEN NoSlots ELSE slot[fd]
      mask == IF fresh THEN {} ELSE events[fd]
  IN  /\ pc # "deinit" /\ allow_new
      /\ Vacant(fd, op)
      /\ lookup_table' = lookup_table \cup {fd}
      /\ slot' = [slot EXCEPT ![fd] = [jobs EXCEPT ![op] = [job |-> job, oneshot |-> oneshot]]]
      /\ events' = [events EXCEPT ![fd] = mask \cup {op}]
      /\ NotifyIfRunning
      /\ UNCHANGED <<kernel, flags, loop>>

\* The job of a slot is cleared and its operation leaves the element's mask.
ClearSlot(fd, op) ==
  /\ slot' = [slot EXCEPT ![fd][op] = Empty]
  /\ events' = [events EXCEPT ![fd] = @ \ {op}]

\* io_service_remove_job: the element stays in the table, even with an empty
\* mask, until the loop reads the notification.
RemoveJob(fd, op, job) ==
  /\ pc # "deinit"
  /\ fd \in lookup_table /\ slot[fd][op].job = job
  /\ ClearSlot(fd, op)
  /\ NotifyIfRunning
  /\ UNCHANGED <<lookup_table, kernel, flags, loop>>

\* io_service_stop.
Stop(wait_pending) ==
  /\ pc # "deinit" /\ (RepeatedStop \/ stopCall = "no")
  /\ allow_new' = FALSE
  /\ running' = wait_pending
  /\ stopCall' = IF wait_pending THEN "drain" ELSE "now"
  /\ Notify
  /\ UNCHANGED <<table, kernel, loop>>

\* io_service_deinit, called when no thread is in the loop.
Deinit ==
  /\ pc \in {"idle", "returned"}
  /\ pc' = "deinit"
  /\ UNCHANGED <<table, kernel, flags, notified, event, cur>>

(***************************************************************************)
(* io_service_run.                                                         *)
(***************************************************************************)

\* Mutant: the jobs posted before the loop starts are not registered.
RegisterNothing == UNCHANGED kernel

\* The loop that adds every element to the (empty) epoll set.
RegisterAll ==
  /\ registered' = lookup_table
  /\ interest' = [fd \in Fds |-> IF fd \in lookup_table THEN events[fd] ELSE {}]

\* The entry: every element is registered and running is set, whatever its
\* value.
Run ==
  /\ pc = "idle"
  /\ RegisterAll
  /\ running' = TRUE
  /\ pc' = "wait"
  /\ UNCHANGED <<table, allow_new, stopCall, notified, event, cur>>

\* epoll_wait returns the notification eventfd.
EpollNotify ==
  /\ pc = "wait" /\ notified > 0
  /\ event' = [fd |-> EventFd, ops |-> {"read"}]
  /\ pc' = "event"
  /\ UNCHANGED <<table, kernel, flags, notified, cur>>

\* epoll_wait returns a descriptor with some of the operations watched for it,
\* or with EPOLLERR or EPOLLHUP alone.
EpollFd(fd, ops) ==
  /\ pc = "wait" /\ fd \in registered /\ ops \subseteq interest[fd]
  /\ event' = [fd |-> fd, ops |-> ops]
  /\ pc' = "event"
  /\ UNCHANGED <<table, kernel, flags, notified, cur>>

\* epoll_wait fails with EINTR.
EpollInterrupted ==
  /\ pc = "wait"
  /\ event' = NoEvent
  /\ pc' = "event"
  /\ UNCHANGED <<table, kernel, flags, notified, cur>>

\* while (*running).
LoopHead(again) == pc' = IF again THEN "wait" ELSE "returned"

\* running after the test for an empty table of a stopped service.
StillRunning == running /\ (lookup_table # {} \/ allow_new)

\* The loop locks the mutex with a notification: one unit of the semaphore is
\* read (the read would block while holding the mutex if there were none), the
\* loop ends if the table is empty, and only then the elements without jobs
\* are unlinked and the others brought up to date in the kernel.
HandleNotify ==
  LET dead == {fd \in lookup_table : events[fd] = {}}
      live == lookup_table \ dead
  IN  /\ pc = "event" /\ event.fd = EventFd
      /\ notified > 0
      /\ notified' = notified - 1
      /\ running' = StillRunning
      /\ lookup_table' = live
      /\ registered' = (registered \ dead) \cup live
      /\ interest' = [fd \in Fds |-> IF fd \in live THEN events[fd]
                                     ELSE IF fd \in dead THEN {} ELSE interest[fd]]
      /\ LoopHead(running')
      /\ event' = NoEvent
      /\ UNCHANGED <<slot, events, allow_new, stopCall, cur>>

\* The operations of the event whose slot holds a job now.
Ready ==
  {op \in event.ops : event.fd \in lookup_table /\ slot[event.fd][op].job # NULL}

\* Mutant: the scan does not advance.
OpsKept(op) == event.ops

\* The operations of the event the scan has still to look at after op.
OpsAfter(op) == IF op = "read" THEN event.ops \ {"read"} ELSE {}

\* Mutant: the element is freed, its descriptor stays in the epoll set.
UnlinkOnly(fd) ==
  /\ lookup_table' = lookup_table \ {fd}
  /\ UNCHANGED kernel

\* The element and the kernel's registration of a descriptor go.
Unlink(fd) ==
  /\ lookup_table' = lookup_table \ {fd}
  /\ registered' = registered \ {fd}
  /\ interest' = [interest EXCEPT ![fd] = {}]

\* The loop holds the mutex with an event of a descriptor and finds a job for
\* one of its operations, reading first.  A oneshot job leaves its slot; with
\* the last one the element goes, otherwise the kernel's interest is not
\* touched.  The mutex is released and the job called.
DispatchJob(op) ==
  LET fd == event.fd
      oneshot == slot[fd][op].oneshot
      last == oneshot /\ events[fd] \ {op} = {}
  IN  /\ pc = "event" /\ fd \in Fds
      /\ op \in Ready /\ (op = "read" \/ "read" \notin Ready)
      /\ cur' = [op |-> op, job |-> slot[fd][op].job]
      /\ IF oneshot THEN ClearSlot(fd, op) ELSE UNCHANGED <<slot, events>>
      /\ IF last THEN Unlink(fd) ELSE UNCHANGED <<lookup_table, kernel>>
      /\ event' = [event EXCEPT !.ops = OpsAfter(op)]
      /\ pc' = "job"
      /\ UNCHANGED <<flags, notified>>

\* The job returns; the loop is about to lock the mutex and to look at the
\* operations that are left.
FinishJob ==
  /\ pc = "job"
  /\ cur' = NoCall
  /\ pc' = "event"
  /\ UNCHANGED <<table, kernel, flags, notified, event>>

\* Nothing (more) to call for the event, or epoll_wait failed.
EndScan ==
  /\ pc = "event" /\ event.fd # EventFd /\ Ready = {}
  /\ LoopHead(running)
  /\ event' = NoEvent
  /\ UNCHANGED <<table, kernel, flags, notified, cur>>

\* After io_service_deinit nothing happens any more.
Terminated == pc = "deinit" /\ UNCHANGED vars

EpollStep ==
  EpollNotify \/ EpollInterrupted \/ \E fd \in Fds : \E ops \in SUBSET Ops : EpollFd(fd, ops)

LoopStep == HandleNotify \/ (\E op \in Ops : DispatchJob(op)) \/ FinishJob \/ EndScan

CallStep ==
  \/ \E fd \in Fds, op \in Ops, job \in Jobs :
       RemoveJob(fd, op, job) \/ \E oneshot \in BOOLEAN : PostJob(fd, op, oneshot, job)
  \/ \E wait_pending \in BOOLEAN : Stop(wait_pending)
  \/ Deinit

Next == CallStep \/ Run \/ EpollStep \/ LoopStep \/ Terminated

Spec == Init /\ [][Next]_vars

\* The loop's thread runs and jobs return (WF).  epoll serves its ready
\* descriptors in turn, so a descriptor that is ready whenever epoll_wait is
\* called is returned in the end (SF), and the peer of each watched descriptor
\* makes it ready again and again.
Fairness ==
  /\ WF_vars(LoopStep)
  /\ SF_vars(EpollNotify)
  /\ \A fd \in Fds, op \in Ops :
       SF_vars(\E ops \in SUBSET Ops : op \in ops /\ EpollFd(fd, ops))

FairSpec == Spec /\ Fairness

(***************************************************************************)
(* Safety.                                                                 *)
(***************************************************************************)

\* The type of every variable.
TypeOK ==
  /\ allow_new \in BOOLEAN
  /\ running \in BOOLEAN
  /\ stopCall \in {"no", "now", "drain"}
  /\ notified \in 0..MaxNotify
  /\ lookup_table \in SUBSET Fds
  /\ slot \in [Fds -> [Ops -> Slot]]
  /\ events \in [Fds -> SUBSET Ops]
  /\ registered \in SUBSET Fds
  /\ interest \in [Fds -> SUBSET Ops]
  /\ pc \in {"idle", "wait", "event", "job", "returned", "deinit"}
  /\ event \in [fd : Fds \cup {EventFd, NULL}, ops : SUBSET Ops]
  /\ cur \in [op : Ops, job : Jobs \cup {NULL}]

\* The mask of an element names exactly the slots that hold a job, and a
\* descriptor without an element has no job: this is what makes "events == 0"
\* a correct test for an element that may be unlinked.
MaskMatchesSlots ==
  \A fd \in Fds, op \in Ops :
    /\ op \in events[fd] <=> slot[fd][op].job # NULL
    /\ op \in events[fd] => fd \in lookup_table

\* The kernel never watches a descriptor that has left the table: its owner
\* may close it and the number may be used again.
WatchedIsListed ==
  /\ registered \subseteq lookup_table
  /\ \A fd \in Fds \ registered : interest[fd] = {}

\* No lost registration: while the loop is active, a posted job is either
\* watched by the kernel or a notification that will make it so is unread.
NoLostRegistration ==
  Active => \A fd \in Fds, op \in Ops :
    slot[fd][op].job # NULL => op \in interest[fd] \/ notified > 0

\* No orphaned watch: once the loop has read every notification the kernel
\* reports nothing for a descriptor that has no job left (a level-triggered
\* epoll_wait would return it for ever).
NoOrphanWatch ==
  Active /\ running /\ notified = 0 =>
    \A fd \in Fds : interest[fd] # {} => events[fd] # {}

\* The variables have their types, and the table agrees with itself and with
\* the kernel: masks name the slots that hold a job, and the kernel watches only
\* what io_service keeps listed.
TableAgrees == TypeOK /\ MaskMatchesSlots /\ WatchedIsListed

\* The table and the kernel's epoll set, which learns of posts and removals only
\* when the loop reads a notification, never drift apart: no posted job is
\* forgotten, and no watch outlives its jobs.
KernelAgrees == NoLostRegistration /\ NoOrphanWatch

(***************************************************************************)
(* The abstract reactor this service implements.                           *)
(***************************************************************************)
InFlight == IF pc = "job" THEN {<<event.fd, cur.op, cur.job>>} ELSE {}

React == INSTANCE Reactor WITH accepting <- allow_new, inflight <- InFlight

\* The service keeps the promises of Reactor: every step is a step of the
\* reactor or invisible to those who post jobs.
ImplementsReactor == React!Spec

(***************************************************************************)
(* Liveness.                                                               *)
(***************************************************************************)

\* Every job that is posted while the loop is active is called, unless it is
\* removed or the loop is left.
JobServed ==
  \A fd \in Fds, op \in Ops :
    Active /\ slot[fd][op].job # NULL ~>
      \/ slot[fd][op].job = NULL
      \/ pc = "job" /\ event.fd = fd /\ cur.op = op
      \/ ~Active

\* io_service_stop(iosvc, false), called while the loop is active, ends the loop
\* whatever jobs are posted, unless another io_service_stop(iosvc, true) comes
\* before the loop looks at the flag.
StopNowReturns == Active /\ ~running ~> pc \in {"returned", "deinit"} \/ running

\* io_service_stop(iosvc, true) ends the loop when the table is already empty.
EmptyStopReturns ==
  Active /\ ~allow_new /\ lookup_table = {} /\ notified > 0 ~> pc \in {"returned", "deinit"}

\* io_service_run returns from an active loop after io_service_stop(iosvc, false)
\* and, if the table is empty when the stop is announced, after
\* io_service_stop(iosvc, true).
StopReturns == StopNowReturns /\ EmptyStopReturns

\* io_service_stop(iosvc, true) ends the loop once the pending jobs are gone.
DrainedStopReturns ==
  Active /\ stopCall = "drain" /\ lookup_table = {} ~> pc \in {"returned", "deinit"}
=============================================================================
