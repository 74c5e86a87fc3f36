-------------------------------- MODULE Timer --------------------------------
(***************************************************************************)
(* The timers of timer/timer.c on top of the I/O service.                  *)
(*                                                                         *)
(* A timer is a timerfd and a read job, tmr_job_tpl, posted for it; it is  *)
(* identified with its descriptor.  Setting a timer arms the timerfd and   *)
(* then posts the job, in two steps that no lock joins; the service drops  *)
(* the post when the slot of the descriptor is still occupied.             *)
(* tmr_job_tpl reads the timerfd, which blocks the loop if the timer has   *)
(* not expired, then calls the user's callback, then looks at the timer    *)
(* again.  The flag armed is written and never read, and is left out.      *)
(*                                                                         *)
(* Two threads call: "loop", from inside a callback, and "user", which     *)
(* sets up the timers before the loop runs, takes them down after it and,  *)
(* if Foreign is TRUE, also calls while the loop runs.                     *)
(***************************************************************************)
EXTENDS IoService

CONSTANT Foreign   \* does "user" also call while the loop is active?

ASSUME ForeignAssumption == Foreign \in BOOLEAN

VARIABLES
  status,      \* of each tmr_t: "unborn", "alive", "freed"
  tmr_class,   \* tmr->tmr_class: "none", "periodic" or "deadline", which stands
               \* for relative and absolute deadlines
  tfd,         \* kernel: each timerfd
  call,        \* what each thread is in the middle of
  stage,       \* of tmr_job_tpl in the loop: "none", "read", "cb"
  wanted,      \* history: set with a time, neither cancelled nor done
  own_freed    \* history: has the callback under way freed its own timer?

tvars == <<status, tmr_class, tfd, call, stage, wanted, own_freed>>
iovars == <<table, kernel, flags, notified, loop>>
allvars == <<iovars, tvars>>

Threads == {"loop", "user"}
NoTimer == [armed |-> FALSE, interval |-> FALSE, expired |-> FALSE]
NoneCall == [kind |-> "none", fd |-> NULL, oneshot |-> FALSE]

TimerServiceInit ==
  /\ Init
  /\ status = [fd \in Fds |-> "unborn"]
  /\ tmr_class = [fd \in Fds |-> "none"]
  /\ tfd = [fd \in Fds |-> NoTimer]
  /\ call = [t \in Threads |-> NoneCall]
  /\ stage = "none"
  /\ wanted = [fd \in Fds |-> FALSE]
  /\ own_freed = FALSE

(***************************************************************************)
(* The operations.                                                         *)
(***************************************************************************)

\* Bound: the notifications, unread and still to be sent, stay below MaxNotify.
Room == ~running \/ notified + Cardinality({t \in Threads : call[t].kind = "post"}) < MaxNotify

\* A thread may begin a call on a timer.
MayCall(t) ==
  /\ call[t].kind = "none" /\ pc # "deinit" /\ Room
  /\ t = "loop" => stage = "cb"
  /\ t = "user" => ~Active \/ Foreign

\* timer_init.
TimerInit(t, fd) ==
  /\ MayCall(t) /\ status[fd] = "unborn"
  /\ status' = [status EXCEPT ![fd] = "alive"]
  /\ UNCHANGED <<iovars, tmr_class, tfd, call, stage, wanted, own_freed>>

\* Mutant: timerfd_settime is given no interval.
ArmedOnce(class, nonzero) == [armed |-> nonzero, interval |-> FALSE, expired |-> FALSE]

\* Mutant: only the interval is filled in, not the first expiration.
ArmedByInterval(class, nonzero) ==
  [armed |-> class = "periodic" /\ nonzero, interval |-> class = "periodic" /\ nonzero,
   expired |-> FALSE]

\* What timerfd_settime makes of the timerfd: a time of zero disarms it, and
\* an expiration that was not read yet is forgotten.
Armed(class, nonzero) ==
  [armed |-> nonzero, interval |-> class = "periodic" /\ nonzero, expired |-> FALSE]

\* timer_set_deadline, timer_set_absolute and timer_set_periodic up to their
\* call of io_service_post_job.
TimerSet(t, fd, class, nonzero) ==
  /\ MayCall(t) /\ status[fd] = "alive"
  /\ tmr_class' = [tmr_class EXCEPT ![fd] = class]
  /\ tfd' = [tfd EXCEPT ![fd] = Armed(class, nonzero)]
  /\ wanted' = [wanted EXCEPT ![fd] = nonzero]
  /\ call' = [call EXCEPT ![t] = [kind |-> "post", fd |-> fd, oneshot |-> class # "periodic"]]
  /\ UNCHANGED <<iovars, status, stage, own_freed>>

\* Their call of io_service_post_job, which may drop the job.
TimerPost(t) ==
  LET fd == call[t].fd
  IN  /\ call[t].kind = "post"
      /\ \/ \E job \in Jobs : PostJob(fd, "read", call[t].oneshot, job)
         \/ ~(allow_new /\ Vacant(fd, "read")) /\ UNCHANGED iovars
      /\ call' = [call EXCEPT ![t] = NoneCall]
      /\ UNCHANGED <<status, tmr_class, tfd, stage, wanted, own_freed>>

\* io_service_remove_job as timer_cancel calls it: nothing happens if the job
\* is not posted.
RemoveTimerJob(fd) ==
  \/ \E job \in Jobs : RemoveJob(fd, "read", job)
  \/ Vacant(fd, "read") /\ UNCHANGED iovars

\* timer_cancel: the timerfd stays armed.
TimerCancel(t, fd) ==
  /\ MayCall(t) /\ status[fd] = "alive"
  /\ RemoveTimerJob(fd)
  /\ wanted' = [wanted EXCEPT ![fd] = FALSE]
  /\ UNCHANGED <<status, tmr_class, tfd, call, stage, own_freed>>

\* Mutant: the job is left in the table.
LeaveTimerJob(fd) == UNCHANGED iovars

\* The call of timer_cancel in timer_deinit.
WithdrawTimerJob(fd) == RemoveTimerJob(fd)

\* timer_deinit up to the end of its timer_cancel.
TimerDeinit(t, fd) ==
  /\ MayCall(t) /\ status[fd] = "alive"
  /\ WithdrawTimerJob(fd)
  /\ wanted' = [wanted EXCEPT ![fd] = FALSE]
  /\ call' = [call EXCEPT ![t] = [kind |-> "close", fd |-> fd, oneshot |-> FALSE]]
  /\ own_freed' = (own_freed \/ (t = "loop" /\ fd = event.fd))
  /\ UNCHANGED <<status, tmr_class, tfd, stage>>

\* The rest of timer_deinit: closing the descriptor takes it out of the epoll
\* set; the timer is freed.
TimerClose(t) ==
  LET fd == call[t].fd
  IN  /\ call[t].kind = "close"
      /\ registered' = registered \ {fd}
      /\ interest' = [interest EXCEPT ![fd] = {}]
      /\ tfd' = [tfd EXCEPT ![fd] = NoTimer]
      /\ status' = [status EXCEPT ![fd] = "freed"]
      /\ call' = [call EXCEPT ![t] = NoneCall]
      /\ UNCHANGED <<table, flags, notified, loop, tmr_class, stage, wanted, own_freed>>

(***************************************************************************)
(* The kernel and the loop.                                                *)
(***************************************************************************)

\* The time of an armed timerfd comes.
Expire(fd) ==
  /\ tfd[fd].armed
  /\ tfd' = [tfd EXCEPT ![fd].expired = TRUE, ![fd].armed = tfd[fd].interval]
  /\ UNCHANGED <<iovars, status, tmr_class, call, stage, wanted, own_freed>>

\* epoll_wait returns the timerfd while there is an expiration to read.
EpollTimer(fd) ==
  /\ tfd[fd].expired
  /\ EpollFd(fd, {"read"})
  /\ UNCHANGED tvars

\* The service calls tmr_job_tpl.
TmrJobTpl ==
  /\ DispatchJob("read")
  /\ stage' = "read"
  /\ UNCHANGED <<status, tmr_class, tfd, call, wanted, own_freed>>

\* tmr_job_tpl: read() returns once there is an expiration, or because the
\* descriptor is closed.  A deadline is done with it.
TmrRead ==
  LET fd == event.fd
  IN  /\ stage = "read"
      /\ tfd[fd].expired \/ status[fd] = "freed"
      /\ tfd' = [tfd EXCEPT ![fd].expired = FALSE]
      /\ wanted' = [wanted EXCEPT ![fd] = @ /\ tmr_class[fd] = "periodic"]
      /\ stage' = "cb"
      /\ UNCHANGED <<iovars, status, tmr_class, call, own_freed>>

\* tmr_job_tpl: the callback returns, tmr_class is looked at, the job is over.
\* If the callback freed its own timer both are done to freed memory; what a
\* write there may spoil is not followed.
TmrReturn ==
  /\ stage = "cb" /\ call["loop"].kind = "none"
  /\ FinishJob
  /\ stage' = "none"
  /\ own_freed' = FALSE
  /\ UNCHANGED <<status, tmr_class, tfd, call, wanted>>

\* The steps of the service that do not concern timers.  "user" calls
\* io_service_run itself unless it also calls while the loop is active.
ServiceStep ==
  /\ \/ Run /\ (Foreign \/ call["user"].kind = "none")
     \/ EpollNotify \/ EpollInterrupted \/ HandleNotify \/ EndScan
     \/ Room /\ \E wait_pending \in BOOLEAN : Stop(wait_pending)
     \/ Deinit /\ \A fd \in Fds : status[fd] # "alive"
  /\ UNCHANGED tvars

TimersGone == pc = "deinit" /\ UNCHANGED allvars

TimerCall(t) ==
  \/ \E fd \in Fds :
       \/ TimerInit(t, fd) \/ TimerCancel(t, fd) \/ TimerDeinit(t, fd)
       \/ \E class \in {"deadline", "periodic"}, nonzero \in BOOLEAN :
            TimerSet(t, fd, class, nonzero)
  \/ TimerPost(t)
  \/ TimerClose(t)

TimerNext ==
  \/ \E t \in Threads : TimerCall(t)
  \/ \E fd \in Fds : Expire(fd) \/ EpollTimer(fd)
  \/ TmrJobTpl \/ TmrRead \/ TmrReturn
  \/ ServiceStep
  \/ TimersGone

TimerSpec == TimerServiceInit /\ [][TimerNext]_allvars

\* As for the service; a call that was begun is ended, callbacks return and
\* time passes.
TimerFairness ==
  /\ WF_allvars(ServiceStep /\ (HandleNotify \/ EndScan))
  /\ WF_allvars(TmrJobTpl) /\ WF_allvars(TmrRead) /\ SF_allvars(TmrReturn)
  /\ SF_allvars(ServiceStep /\ EpollNotify)
  /\ \A fd \in Fds : WF_allvars(Expire(fd)) /\ SF_allvars(EpollTimer(fd))
  /\ \A t \in Threads : WF_allvars(TimerPost(t) \/ TimerClose(t))

FairTimerSpec == TimerSpec /\ TimerFairness

(***************************************************************************)
(* Properties.                                                             *)
(***************************************************************************)

\* The type of every variable of the timers.
TimerTypeOK ==
  /\ TypeOK
  /\ status \in [Fds -> {"unborn", "alive", "freed"}]
  /\ tmr_class \in [Fds -> {"none", "deadline", "periodic"}]
  /\ tfd \in [Fds -> [armed : BOOLEAN, interval : BOOLEAN, expired : BOOLEAN]]
  /\ call \in [Threads -> [kind : {"none", "post", "close"},
                            fd : Fds \cup {NULL}, oneshot : BOOLEAN]]
  /\ stage \in {"none", "read", "cb"}
  /\ wanted \in [Fds -> BOOLEAN]
  /\ own_freed \in BOOLEAN

\* tmr_job_tpl never waits in read(), holding up every other job of the
\* service, if the timers are called from the loop's thread only.
ReadNeverBlocks == stage = "read" => tfd[event.fd].expired

\* No job for a freed timer stays in the table, and tmr_job_tpl does not touch a
\* timer that timer_deinit has freed, if the timers are called from the loop's
\* thread only.  The one exception is the last look of tmr_job_tpl at a timer
\* that its own callback has freed, for which timer_deinit has no provision.
NoUseAfterDeinit ==
  /\ stage # "none" =>
       status[event.fd] = "alive" \/ (stage = "cb" /\ own_freed)
  /\ \A fd \in Fds : status[fd] = "freed" => slot[fd]["read"].job = NULL

\* Timers keep their types, and no part of tmr_job_tpl or of the table outlives
\* the timer it is for, but for a callback that frees its own timer.
TimersIntact == TimerTypeOK /\ NoUseAfterDeinit

\* A callback is being called for the timer.
Firing(fd) == stage = "cb" /\ event.fd = fd

\* A thread is setting the timer.
BeingSet(fd) == \E t \in Threads : call[t].kind = "post" /\ call[t].fd = fd

\* Once timer_set_deadline or timer_set_absolute has returned, the callback is
\* called, unless the timer is cancelled, set again or the loop is left.
DeadlineFires ==
  \A fd \in Fds :
    Active /\ allow_new /\ wanted[fd] /\ tmr_class[fd] # "periodic" ~>
      \/ Firing(fd) \/ BeingSet(fd)
      \/ ~wanted[fd] \/ tmr_class[fd] = "periodic" \/ ~Active \/ ~allow_new

\* A periodic timer whose job was posted as such is called again and again,
\* until it is cancelled, set otherwise or the loop is left.
PostedPeriodicFires ==
  \A fd \in Fds :
    /\ Active /\ running /\ wanted[fd] /\ tmr_class[fd] = "periodic" /\ stage = "none"
    /\ slot[fd]["read"].job # NULL /\ ~slot[fd]["read"].oneshot
    ~>
      \/ Firing(fd) \/ BeingSet(fd)
      \/ ~wanted[fd] \/ tmr_class[fd] # "periodic" \/ ~Active \/ ~running
=============================================================================
