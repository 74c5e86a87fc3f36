----------------------------- MODULE TimerProofs -----------------------------
(***************************************************************************)
(* Proofs about Timer for any number of timers, if they are called from    *)
(* the loop's thread only while the loop runs.                             *)
(***************************************************************************)
EXTENDS Timer, IoServiceProofs

(***************************************************************************)
(* The inductive invariant.                                                *)
(***************************************************************************)

\* Timers are waited for by reading only, and a job belongs to a living timer.
JobsOfTimers ==
  \A fd \in Fds : /\ slot[fd]["write"].job = NULL
                  /\ slot[fd]["read"].job # NULL => status[fd] = "alive"

\* A call that was begun is on a living timer; the job is withdrawn before the
\* descriptor is closed.
CallsOnTimers ==
  \A t \in Threads : call[t].kind # "none" =>
    /\ call[t].fd \in Fds /\ status[call[t].fd] = "alive"
    /\ call[t].kind = "close" => slot[call[t].fd]["read"].job = NULL

\* One thread at a time calls: "user" while the loop is not active, "loop"
\* from a callback, where it may free the timer of the callback.
OneCaller ==
  /\ call["user"].kind # "none" => ~Active
  /\ call["loop"].kind # "none" => stage = "cb"
  /\ call["loop"].kind = "close" /\ call["loop"].fd = event.fd => own_freed

\* tmr_job_tpl is under way exactly when the loop runs a job, on a living timer
\* or in the callback that frees it, and the loop is done with the event for
\* reading.
TemplateRuns ==
  /\ stage # "none" <=> pc = "job"
  /\ stage # "none" =>
       /\ status[event.fd] = "alive" \/ (stage = "cb" /\ own_freed)
       /\ "read" \notin event.ops

\* An event for reading that the loop still has to look at comes from a
\* timerfd that has expired.
EventIsExpired ==
  pc = "event" /\ event.fd \in Fds /\ "read" \in event.ops => tfd[event.fd].expired

TimerInv ==
  /\ IInv /\ TimerTypeOK
  /\ JobsOfTimers /\ CallsOnTimers /\ OneCaller /\ TemplateRuns /\ EventIsExpired
  /\ ReadNeverBlocks

\* Before the first timer is made the invariant holds.
LEMMA TimerInvInit == TimerServiceInit => TimerInv
<1> SUFFICES ASSUME TimerServiceInit PROVE TimerInv
  OBVIOUS
<1>1. IInv /\ TypeOK
  BY InitIInv DEF TimerServiceInit, IInv
<1> USE DEF TimerServiceInit
<1>2. TimerTypeOK
  <2>1. /\ status \in [Fds -> {"unborn", "alive", "freed"}]
        /\ tmr_class \in [Fds -> {"none", "deadline", "periodic"}]
        /\ wanted \in [Fds -> BOOLEAN] /\ stage \in {"none", "read", "cb"}
        /\ own_freed \in BOOLEAN
    OBVIOUS
  <2>2. tfd \in [Fds -> [armed : BOOLEAN, interval : BOOLEAN, expired : BOOLEAN]]
    BY DEF NoTimer
  <2>3. call \in [Threads -> [kind : {"none", "post", "close"},
                              fd : Fds \cup {NULL}, oneshot : BOOLEAN]]
    BY DEF NoneCall
  <2> QED  BY <1>1, <2>1, <2>2, <2>3 DEF TimerTypeOK
<1>3. JobsOfTimers
  BY DEF JobsOfTimers, Init, NoSlots, Empty, Ops
<1>4. CallsOnTimers /\ OneCaller
  BY DEF CallsOnTimers, OneCaller, NoneCall, Threads
<1>5. TemplateRuns /\ EventIsExpired /\ ReadNeverBlocks
  BY DEF TemplateRuns, EventIsExpired, ReadNeverBlocks, Init
<1> QED  BY <1>1, <1>2, <1>3, <1>4, <1>5 DEF TimerInv

\* What a thread that may call knows: no other call is under way, and the loop
\* is not about to look at an event.
LEMMA CallerAlone ==
  ASSUME ~Foreign, TimerInv, NEW t \in Threads, MayCall(t)
  PROVE  /\ \A u \in Threads : call[u].kind = "none"
         /\ t = "loop" => stage = "cb" /\ pc = "job" /\ event.fd \in Fds
         /\ t = "user" => ~Active
         /\ pc # "event" /\ stage # "read"
<1>1. CASE t = "loop"
  <2>1. stage = "cb" /\ pc = "job" /\ call[t].kind = "none"
    BY <1>1 DEF MayCall, TimerInv, TemplateRuns
  <2>2. event.fd \in Fds /\ Active
    BY <2>1 DEF TimerInv, IInv, LoopInv, Active
  <2> QED  BY <1>1, <2>1, <2>2 DEF TimerInv, OneCaller, Threads
<1>2. CASE t = "user"
  <2>1. ~Active /\ call[t].kind = "none"
    BY <1>2 DEF MayCall
  <2>2. stage = "none" /\ pc # "event"
    BY <2>1 DEF TimerInv, TemplateRuns, Active
  <2> QED  BY <1>2, <2>1, <2>2 DEF TimerInv, OneCaller, Threads
<1> QED  BY <1>1, <1>2 DEF Threads

\* timer_init preserves the invariant.
LEMMA TimerInitInv ==
  ASSUME ~Foreign, TimerInv, NEW t \in Threads, NEW fd \in Fds, TimerInit(t, fd)
  PROVE  TimerInv'
<1>1. /\ UNCHANGED <<vars, tmr_class, tfd, call, stage, wanted, own_freed>>
      /\ status[fd] = "unborn" /\ status' = [status EXCEPT ![fd] = "alive"]
  BY DEF TimerInit, iovars, vars
<1>2. IInv' /\ UNCHANGED <<slot, pc, event>>
  BY <1>1, StutterIInv DEF TimerInv, vars, table, loop
<1>3. /\ status' \in [Fds -> {"unborn", "alive", "freed"}]
      /\ status'[fd] = "alive" /\ \A f \in Fds : f # fd => status'[f] = status[f]
  BY <1>1 DEF TimerInv, TimerTypeOK
<1>4. \A f : status[f] = "alive" /\ f \in Fds => status'[f] = "alive"
  BY <1>3
<1>5. TimerTypeOK'
  BY <1>1, <1>2, <1>3 DEF TimerInv, TimerTypeOK, IInv
<1>6. JobsOfTimers' /\ CallsOnTimers'
  BY <1>1, <1>2, <1>3, <1>4 DEF TimerInv, JobsOfTimers, CallsOnTimers
<1>7. OneCaller' /\ EventIsExpired' /\ ReadNeverBlocks'
  BY <1>1, <1>2 DEF TimerInv, OneCaller, EventIsExpired, ReadNeverBlocks, Active
<1>8. stage # "none" => event.fd \in Fds
  BY DEF TimerInv, TemplateRuns, IInv, LoopInv
<1>9. TemplateRuns'
  BY <1>1, <1>2, <1>4, <1>8 DEF TimerInv, TemplateRuns
<1> QED  BY <1>2, <1>5, <1>6, <1>7, <1>9 DEF TimerInv

\* timer_set_deadline, timer_set_absolute and timer_set_periodic, up to their
\* post, preserve the invariant.
LEMMA TimerSetInv ==
  ASSUME ~Foreign, TimerInv, NEW t \in Threads, NEW fd \in Fds,
         NEW class \in {"deadline", "periodic"}, NEW nonzero \in BOOLEAN,
         TimerSet(t, fd, class, nonzero)
  PROVE  TimerInv'
<1> DEFINE new == [kind |-> "post", fd |-> fd, oneshot |-> class # "periodic"]
<1>1. /\ UNCHANGED <<vars, status, stage, own_freed>> /\ status[fd] = "alive" /\ MayCall(t)
      /\ tmr_class' = [tmr_class EXCEPT ![fd] = class]
      /\ tfd' = [tfd EXCEPT ![fd] = Armed(class, nonzero)]
      /\ wanted' = [wanted EXCEPT ![fd] = nonzero]
      /\ call' = [call EXCEPT ![t] = new]
  BY DEF TimerSet, iovars, vars
<1>2. IInv' /\ UNCHANGED <<slot, pc, event>>
  BY <1>1, StutterIInv DEF TimerInv, vars, table, loop
<1>3. /\ \A u \in Threads : call[u].kind = "none"
      /\ t = "loop" => stage = "cb" /\ pc = "job" /\ event.fd \in Fds
      /\ t = "user" => ~Active
      /\ pc # "event" /\ stage # "read"
  BY <1>1, CallerAlone
<1>4. /\ call' \in [Threads -> [kind : {"none", "post", "close"},
                                fd : Fds \cup {NULL}, oneshot : BOOLEAN]]
      /\ call'[t] = new /\ \A u \in Threads : u # t => call'[u] = call[u]
  BY <1>1 DEF TimerInv, TimerTypeOK
<1>5. TimerTypeOK'
  <2>1. tmr_class' \in [Fds -> {"none", "deadline", "periodic"}] /\ wanted' \in [Fds -> BOOLEAN]
    BY <1>1 DEF TimerInv, TimerTypeOK
  <2>2. Armed(class, nonzero) \in [armed : BOOLEAN, interval : BOOLEAN, expired : BOOLEAN]
    BY DEF Armed
  <2>3. tfd' \in [Fds -> [armed : BOOLEAN, interval : BOOLEAN, expired : BOOLEAN]]
    BY <1>1, <2>2 DEF TimerInv, TimerTypeOK
  <2> QED  BY <1>1, <1>2, <1>4, <2>1, <2>3 DEF TimerInv, TimerTypeOK, IInv
<1>6. JobsOfTimers' /\ TemplateRuns'
  BY <1>1, <1>2 DEF TimerInv, JobsOfTimers, TemplateRuns
<1>7. CallsOnTimers'
  BY <1>1, <1>2, <1>3, <1>4 DEF CallsOnTimers
<1>8. OneCaller'
  BY <1>1, <1>2, <1>3, <1>4 DEF OneCaller, Active, Threads
<1>9. EventIsExpired' /\ ReadNeverBlocks'
  BY <1>1, <1>2, <1>3 DEF EventIsExpired, ReadNeverBlocks
<1> QED  BY <1>2, <1>5, <1>6, <1>7, <1>8, <1>9 DEF TimerInv

\* What a post for reading does to the slots.
LEMMA TimerPostFacts ==
  ASSUME IInv, NEW fd \in Fds, NEW oneshot \in BOOLEAN, NEW job \in Jobs,
         PostJob(fd, "read", oneshot, job)
  PROVE  /\ IInv' /\ UNCHANGED <<pc, event>>
         /\ \A f \in Fds : slot'[f]["write"].job = slot[f]["write"].job
         /\ \A f \in Fds : f # fd => slot'[f] = slot[f]
<1>1. IInv' /\ UNCHANGED <<pc, event>>
  BY PostJobIInv DEF PostJob, loop, Ops
<1>2. TypeOK /\ CleanSlots /\ MaskMatchesSlots
  BY DEF IInv
<1>3. fd \notin lookup_table => slot[fd]["write"] = Empty
  BY <1>2 DEF CleanSlots, MaskMatchesSlots, Ops
<1>4. \A f \in Fds : f # fd => slot'[f] = slot[f]
  BY <1>2 DEF PostJob, TypeOK
<1>5. slot'[fd]["write"].job = slot[fd]["write"].job
  BY <1>2, <1>3 DEF PostJob, TypeOK, NoSlots, Ops, Empty
<1> QED  BY <1>1, <1>4, <1>5

\* What a thread in the middle of a call knows.
LEMMA InCallAlone ==
  ASSUME TimerInv, NEW t \in Threads, call[t].kind # "none"
  PROVE  /\ \A u \in Threads : u # t => call[u].kind = "none"
         /\ t = "loop" => stage = "cb" /\ pc = "job" /\ event.fd \in Fds
         /\ t = "user" => ~Active /\ stage = "none"
         /\ pc # "event" /\ stage # "read"
<1>1. CASE t = "loop"
  <2>1. stage = "cb" /\ pc = "job"
    BY <1>1 DEF TimerInv, OneCaller, TemplateRuns
  <2>2. event.fd \in Fds /\ Active
    BY <2>1 DEF TimerInv, IInv, LoopInv, Active
  <2> QED  BY <1>1, <2>1, <2>2 DEF TimerInv, OneCaller, Threads
<1>2. CASE t = "user"
  <2>1. ~Active
    BY <1>2 DEF TimerInv, OneCaller
  <2>2. stage = "none" /\ pc # "event"
    BY <2>1 DEF TimerInv, TemplateRuns, Active
  <2> QED  BY <1>2, <2>1, <2>2 DEF TimerInv, OneCaller, Threads
<1> QED  BY <1>1, <1>2 DEF Threads

\* Types of calls that begin or end.
LEMMA CallUpdate ==
  ASSUME TimerTypeOK, NEW t \in Threads,
         NEW c \in [kind : {"none", "post", "close"}, fd : Fds \cup {NULL}, oneshot : BOOLEAN],
         call' = [call EXCEPT ![t] = c]
  PROVE  /\ call' \in [Threads -> [kind : {"none", "post", "close"},
                                   fd : Fds \cup {NULL}, oneshot : BOOLEAN]]
         /\ call'[t] = c /\ \A u \in Threads : u # t => call'[u] = call[u]
  BY DEF TimerTypeOK

\* The post of a timer's job, dropped or not, preserves the invariant.
LEMMA TimerPostInv ==
  ASSUME ~Foreign, TimerInv, NEW t \in Threads, TimerPost(t)
  PROVE  TimerInv'
<1> DEFINE fd == call[t].fd
           Posted == /\ IInv' /\ UNCHANGED <<pc, event>>
                     /\ \A f \in Fds : slot'[f]["write"].job = slot[f]["write"].job
                     /\ \A f \in Fds : f # fd => slot'[f] = slot[f]
<1>1. /\ call[t].kind = "post" /\ call' = [call EXCEPT ![t] = NoneCall]
      /\ UNCHANGED <<status, tmr_class, tfd, stage, wanted, own_freed>>
      /\ \/ \E job \in Jobs : PostJob(fd, "read", call[t].oneshot, job)
         \/ UNCHANGED iovars
  BY DEF TimerPost
<1>2. fd \in Fds /\ status[fd] = "alive" /\ call[t].oneshot \in BOOLEAN
  BY <1>1 DEF TimerInv, CallsOnTimers, TimerTypeOK
<1>3. Posted
  <2>1. CASE UNCHANGED iovars
    BY <2>1, StutterIInv DEF TimerInv, iovars, vars, table, loop
  <2>2. ASSUME NEW job \in Jobs, PostJob(fd, "read", call[t].oneshot, job)
        PROVE  Posted
    BY <1>2, <2>2, TimerPostFacts DEF TimerInv
  <2> QED  BY <1>1, <2>1, <2>2
<1>4. \A u \in Threads : u # t => call[u].kind = "none"
  BY <1>1, InCallAlone
<1>5. /\ call' \in [Threads -> [kind : {"none", "post", "close"},
                                fd : Fds \cup {NULL}, oneshot : BOOLEAN]]
      /\ \A u \in Threads : call'[u].kind = "none"
  BY <1>1, <1>4, CallUpdate DEF TimerInv, NoneCall
<1>6. TimerTypeOK'
  BY <1>1, <1>3, <1>5 DEF TimerInv, TimerTypeOK, IInv
<1>7. JobsOfTimers'
  BY <1>1, <1>2, <1>3 DEF TimerInv, JobsOfTimers
<1>8. CallsOnTimers' /\ OneCaller'
  BY <1>5 DEF CallsOnTimers, OneCaller, Threads
<1>9. TemplateRuns' /\ EventIsExpired' /\ ReadNeverBlocks'
  BY <1>1, <1>3 DEF TimerInv, TemplateRuns, EventIsExpired, ReadNeverBlocks
<1> QED  BY <1>3, <1>6, <1>7, <1>8, <1>9 DEF TimerInv

\* Withdrawing the job of a timer, posted or not, leaves its slot empty.
LEMMA WithdrawFacts ==
  ASSUME IInv, NEW fd \in Fds, RemoveTimerJob(fd)
  PROVE  /\ IInv' /\ UNCHANGED <<pc, event>>
         /\ slot'[fd]["read"].job = NULL
         /\ slot'[fd]["write"].job = slot[fd]["write"].job
         /\ \A f \in Fds : f # fd => slot'[f] = slot[f]
<1>1. TypeOK /\ MaskMatchesSlots
  BY DEF IInv
<1>2. CASE Vacant(fd, "read") /\ UNCHANGED iovars
  <2>1. slot[fd]["read"].job = NULL
    BY <1>1, <1>2 DEF Vacant, MaskMatchesSlots, Ops
  <2> QED  BY <1>2, <2>1, StutterIInv DEF iovars, vars, table, loop
<1>3. CASE \E job \in Jobs : RemoveJob(fd, "read", job)
  <2>1. IInv'
    BY <1>3, RemoveJobIInv DEF Ops
  <2>2. slot' = [slot EXCEPT ![fd]["read"] = Empty] /\ UNCHANGED <<pc, event>>
    BY <1>3 DEF RemoveJob, ClearSlot, loop
  <2>3. /\ slot'[fd]["read"] = Empty /\ slot'[fd]["write"] = slot[fd]["write"]
        /\ \A f \in Fds : f # fd => slot'[f] = slot[f]
    BY <1>1, <2>2 DEF TypeOK, Ops
  <2> QED  BY <2>1, <2>2, <2>3 DEF Empty
<1> QED  BY <1>2, <1>3 DEF RemoveTimerJob

\* timer_cancel preserves the invariant.
LEMMA TimerCancelInv ==
  ASSUME ~Foreign, TimerInv, NEW t \in Threads, NEW fd \in Fds, TimerCancel(t, fd)
  PROVE  TimerInv'
<1>1. /\ MayCall(t) /\ RemoveTimerJob(fd) /\ wanted' = [wanted EXCEPT ![fd] = FALSE]
      /\ UNCHANGED <<status, tmr_class, tfd, call, stage, own_freed>>
  BY DEF TimerCancel
<1>2. /\ IInv' /\ UNCHANGED <<pc, event>>
      /\ slot'[fd]["read"].job = NULL
      /\ slot'[fd]["write"].job = slot[fd]["write"].job
      /\ \A f \in Fds : f # fd => slot'[f] = slot[f]
  BY <1>1, WithdrawFacts DEF TimerInv
<1>3. \A u \in Threads : call[u].kind = "none"
  BY <1>1, CallerAlone
<1>4. TimerTypeOK'
  BY <1>1, <1>2 DEF TimerInv, TimerTypeOK, IInv
<1>5. JobsOfTimers'
  BY <1>1, <1>2 DEF TimerInv, JobsOfTimers
<1>6. CallsOnTimers' /\ OneCaller'
  BY <1>1, <1>3 DEF CallsOnTimers, OneCaller, Threads
<1>7. TemplateRuns' /\ EventIsExpired' /\ ReadNeverBlocks'
  BY <1>1, <1>2 DEF TimerInv, TemplateRuns, EventIsExpired, ReadNeverBlocks
<1> QED  BY <1>2, <1>4, <1>5, <1>6, <1>7 DEF TimerInv

\* timer_deinit up to the end of its timer_cancel preserves the invariant.
LEMMA TimerDeinitInv ==
  ASSUME ~Foreign, TimerInv, NEW t \in Threads, NEW fd \in Fds, TimerDeinit(t, fd)
  PROVE  TimerInv'
<1> DEFINE new == [kind |-> "close", fd |-> fd, oneshot |-> FALSE]
<1>1. /\ MayCall(t) /\ status[fd] = "alive" /\ RemoveTimerJob(fd)
      /\ own_freed' = (own_freed \/ (t = "loop" /\ fd = event.fd))
      /\ wanted' = [wanted EXCEPT ![fd] = FALSE] /\ call' = [call EXCEPT ![t] = new]
      /\ UNCHANGED <<status, tmr_class, tfd, stage>>
  BY DEF TimerDeinit, WithdrawTimerJob
<1>2. /\ IInv' /\ UNCHANGED <<pc, event>>
      /\ slot'[fd]["read"].job = NULL
      /\ slot'[fd]["write"].job = slot[fd]["write"].job
      /\ \A f \in Fds : f # fd => slot'[f] = slot[f]
  BY <1>1, WithdrawFacts DEF TimerInv
<1>3. /\ \A u \in Threads : call[u].kind = "none"
      /\ t = "loop" => stage = "cb"
      /\ t = "user" => ~Active
  BY <1>1, CallerAlone
<1>4. /\ call' \in [Threads -> [kind : {"none", "post", "close"},
                                fd : Fds \cup {NULL}, oneshot : BOOLEAN]]
      /\ call'[t] = new /\ \A u \in Threads : u # t => call'[u] = call[u]
  BY <1>1, CallUpdate DEF TimerInv
<1>5. TimerTypeOK'
  BY <1>1, <1>2, <1>4 DEF TimerInv, TimerTypeOK, IInv
<1>6. JobsOfTimers'
  BY <1>1, <1>2 DEF TimerInv, JobsOfTimers
<1>7. CallsOnTimers'
  BY <1>1, <1>2, <1>3, <1>4 DEF CallsOnTimers
<1>8. OneCaller'
  BY <1>1, <1>2, <1>3, <1>4 DEF OneCaller, Active, Threads
<1>9. TemplateRuns' /\ EventIsExpired' /\ ReadNeverBlocks'
  BY <1>1, <1>2 DEF TimerInv, TemplateRuns, EventIsExpired, ReadNeverBlocks
<1> QED  BY <1>2, <1>5, <1>6, <1>7, <1>8, <1>9 DEF TimerInv

\* Closing the descriptor of a timer without jobs keeps the table and the
\* kernel in step; the timer is freed.
LEMMA TimerCloseInv ==
  ASSUME ~Foreign, TimerInv, NEW t \in Threads, TimerClose(t)
  PROVE  TimerInv'
<1> DEFINE fd == call[t].fd
<1>1. /\ call[t].kind = "close" /\ call' = [call EXCEPT ![t] = NoneCall]
      /\ registered' = registered \ {fd} /\ interest' = [interest EXCEPT ![fd] = {}]
      /\ tfd' = [tfd EXCEPT ![fd] = NoTimer]
      /\ status' = [status EXCEPT ![fd] = "freed"]
      /\ UNCHANGED <<lookup_table, slot, events, allow_new, running, stopCall, notified,
                     pc, event, cur, tmr_class, stage, wanted, own_freed>>
  BY DEF TimerClose, table, flags, loop
<1>2. fd \in Fds /\ slot[fd]["read"].job = NULL /\ slot[fd]["write"].job = NULL
  BY <1>1 DEF TimerInv, CallsOnTimers, JobsOfTimers
<1>3. /\ \A u \in Threads : u # t => call[u].kind = "none"
      /\ t = "user" => stage = "none"
      /\ pc # "event" /\ stage # "read"
  BY <1>1, InCallAlone
<1>4. /\ call' \in [Threads -> [kind : {"none", "post", "close"},
                                fd : Fds \cup {NULL}, oneshot : BOOLEAN]]
      /\ \A u \in Threads : call'[u].kind = "none"
  BY <1>1, <1>3, CallUpdate DEF TimerInv, NoneCall
<1>5. stage # "none" => stage = "cb" /\ event.fd \in Fds /\ (event.fd = fd => own_freed)
  BY <1>1, <1>3, InCallAlone DEF TimerInv, OneCaller, Threads
<1>6. /\ TypeOK /\ CleanSlots /\ LoopInv /\ MaskMatchesSlots
      /\ WatchedIsListed /\ NoLostRegistration /\ NoOrphanWatch
  BY DEF TimerInv, IInv
<1>7. /\ interest'[fd] = {} /\ interest' \in [Fds -> SUBSET Ops]
      /\ \A f \in Fds : f # fd => interest'[f] = interest[f]
  BY <1>1, <1>2, <1>6 DEF TypeOK
<1>8. /\ status' \in [Fds -> {"unborn", "alive", "freed"}]
      /\ status'[fd] = "freed" /\ \A f \in Fds : f # fd => status'[f] = status[f]
      /\ tfd' \in [Fds -> [armed : BOOLEAN, interval : BOOLEAN, expired : BOOLEAN]]
  BY <1>1, <1>2 DEF TimerInv, TimerTypeOK, NoTimer
<1> HIDE DEF fd
<1>9. IInv'
  <2>1. TypeOK'
    BY <1>1, <1>6, <1>7 DEF TypeOK
  <2>2. CleanSlots' /\ MaskMatchesSlots'
    BY <1>1, <1>6 DEF CleanSlots, MaskMatchesSlots
  <2>3. WatchedIsListed' /\ LoopInv'
    BY <1>1, <1>6, <1>7 DEF WatchedIsListed, LoopInv, Active
  <2>4. NoLostRegistration'
    BY <1>1, <1>2, <1>6, <1>7 DEF NoLostRegistration, Active, Ops
  <2>5. NoOrphanWatch'
    BY <1>1, <1>6, <1>7 DEF NoOrphanWatch, Active
  <2> QED  BY <2>1, <2>2, <2>3, <2>4, <2>5 DEF IInv
<1>10. TimerTypeOK'
  BY <1>1, <1>4, <1>8, <1>9 DEF TimerInv, TimerTypeOK, IInv
<1>11. JobsOfTimers'
  BY <1>1, <1>2, <1>8 DEF TimerInv, JobsOfTimers
<1>12. CallsOnTimers' /\ OneCaller'
  BY <1>4 DEF CallsOnTimers, OneCaller, Threads
<1>13. TemplateRuns'
  BY <1>1, <1>5, <1>8 DEF TimerInv, TemplateRuns
<1>14. EventIsExpired' /\ ReadNeverBlocks'
  BY <1>1, <1>3 DEF EventIsExpired, ReadNeverBlocks
<1> QED  BY <1>9, <1>10, <1>11, <1>12, <1>13, <1>14 DEF TimerInv

\* The passing of time preserves the invariant.
LEMMA ExpireInv == ASSUME TimerInv, NEW fd \in Fds, Expire(fd) PROVE TimerInv'
<1>1. /\ UNCHANGED <<vars, status, tmr_class, call, stage, wanted, own_freed>>
      /\ tfd' = [tfd EXCEPT ![fd].expired = TRUE, ![fd].armed = tfd[fd].interval]
  BY DEF Expire, iovars, vars
<1>2. IInv' /\ UNCHANGED <<slot, pc, event>>
  BY <1>1, StutterIInv DEF TimerInv, vars, table, loop
<1>3. tfd \in [Fds -> [armed : BOOLEAN, interval : BOOLEAN, expired : BOOLEAN]]
  BY DEF TimerInv, TimerTypeOK
<1>4. /\ tfd' \in [Fds -> [armed : BOOLEAN, interval : BOOLEAN, expired : BOOLEAN]]
      /\ tfd'[fd].expired /\ \A f \in Fds : f # fd => tfd'[f] = tfd[f]
  BY <1>1, <1>3
<1>5. TimerTypeOK'
  BY <1>1, <1>2, <1>4 DEF TimerInv, TimerTypeOK, IInv
<1>6. JobsOfTimers' /\ CallsOnTimers' /\ OneCaller' /\ TemplateRuns'
  BY <1>1, <1>2 DEF TimerInv, JobsOfTimers, CallsOnTimers, OneCaller, TemplateRuns, Active
<1>7. stage = "read" => event.fd \in Fds
  BY DEF TimerInv, TemplateRuns, IInv, LoopInv
<1>8. EventIsExpired' /\ ReadNeverBlocks'
  BY <1>1, <1>2, <1>4, <1>7 DEF TimerInv, EventIsExpired, ReadNeverBlocks
<1> QED  BY <1>2, <1>5, <1>6, <1>8 DEF TimerInv

\* epoll_wait returning an expired timerfd preserves the invariant.
LEMMA EpollTimerInv == ASSUME TimerInv, NEW fd \in Fds, EpollTimer(fd) PROVE TimerInv'
<1>1. /\ EpollFd(fd, {"read"}) /\ tfd[fd].expired
      /\ UNCHANGED <<status, tmr_class, tfd, call, stage, wanted, own_freed>>
  BY DEF EpollTimer, tvars
<1>2. IInv'
  BY <1>1, QuietStepIInv DEF TimerInv, EpollStep, Ops
<1>3. /\ UNCHANGED slot /\ pc = "wait" /\ pc' = "event" /\ event'.fd = fd
  BY <1>1 DEF EpollFd, table
<1>4. stage = "none" /\ Active /\ call["loop"].kind = "none"
  BY <1>3 DEF TimerInv, TemplateRuns, Active, OneCaller
<1>5. TimerTypeOK'
  BY <1>1, <1>2 DEF TimerInv, TimerTypeOK, IInv
<1>6. JobsOfTimers' /\ CallsOnTimers'
  BY <1>1, <1>3 DEF TimerInv, JobsOfTimers, CallsOnTimers
<1>7. OneCaller' /\ TemplateRuns' /\ EventIsExpired' /\ ReadNeverBlocks'
  BY <1>1, <1>3, <1>4 DEF TimerInv, OneCaller, TemplateRuns, EventIsExpired, ReadNeverBlocks, Active
<1> QED  BY <1>2, <1>5, <1>6, <1>7 DEF TimerInv

\* Calling tmr_job_tpl preserves the invariant: the timer is alive and has
\* expired.
LEMMA TmrJobTplInv == ASSUME TimerInv, TmrJobTpl PROVE TimerInv'
<1> DEFINE fd == event.fd
<1>1. /\ DispatchJob("read") /\ stage' = "read" /\ "read" \in Ops
      /\ UNCHANGED <<status, tmr_class, tfd, call, wanted, own_freed>>
  BY DEF TmrJobTpl, Ops
<1>2. TypeOK /\ MaskMatchesSlots
  BY DEF TimerInv, IInv
<1>3. IInv'
  BY <1>1, DispatchJobIInv DEF TimerInv
<1>4. /\ fd \in Fds /\ slot[fd]["read"].job # NULL
      /\ pc = "event" /\ pc' = "job" /\ event'.fd = fd
  BY <1>1, <1>2, DispatchFacts
<1>5. "read" \in event.ops /\ "read" \notin event'.ops
  <2>1. "read" \in event.ops /\ event' = [event EXCEPT !.ops = event.ops \ {"read"}]
    BY <1>1 DEF DispatchJob, Ready, OpsAfter
  <2>2. event \in [fd : Fds \cup {EventFd, NULL}, ops : SUBSET Ops]
    BY <1>2 DEF TypeOK
  <2> QED  BY <2>1, <2>2
<1>6. tfd[fd].expired /\ status[fd] = "alive"
  BY <1>4, <1>5 DEF TimerInv, EventIsExpired, JobsOfTimers
<1>7. slot' \in {slot, [slot EXCEPT ![fd]["read"] = Empty]}
  BY <1>1 DEF DispatchJob, ClearSlot
<1>8. \A f \in Fds, o \in Ops : slot'[f][o].job \in {slot[f][o].job, NULL}
  BY <1>2, <1>4, <1>7 DEF TypeOK, Empty
<1>9. stage = "none" /\ Active /\ call["loop"].kind = "none" /\ call["user"].kind = "none"
  BY <1>4 DEF TimerInv, TemplateRuns, Active, OneCaller
<1>10. TimerTypeOK'
  BY <1>1, <1>3 DEF TimerInv, TimerTypeOK, IInv
<1>11. JobsOfTimers'
  BY <1>1, <1>8 DEF TimerInv, JobsOfTimers, Ops
<1>12. CallsOnTimers' /\ OneCaller'
  BY <1>1, <1>9 DEF CallsOnTimers, OneCaller, Threads
<1>13. TemplateRuns' /\ EventIsExpired' /\ ReadNeverBlocks'
  BY <1>1, <1>4, <1>5, <1>6 DEF TemplateRuns, EventIsExpired, ReadNeverBlocks
<1> QED  BY <1>3, <1>10, <1>11, <1>12, <1>13 DEF TimerInv

\* The read in tmr_job_tpl preserves the invariant.
LEMMA TmrReadInv == ASSUME TimerInv, TmrRead PROVE TimerInv'
<1> DEFINE fd == event.fd
<1>1. /\ UNCHANGED <<vars, status, tmr_class, call, own_freed>> /\ stage = "read" /\ stage' = "cb"
      /\ tfd' = [tfd EXCEPT ![fd].expired = FALSE]
      /\ wanted' = [wanted EXCEPT ![fd] = @ /\ tmr_class[fd] = "periodic"]
  BY DEF TmrRead, iovars, vars
<1>2. IInv' /\ UNCHANGED <<slot, pc, event>>
  BY <1>1, StutterIInv DEF TimerInv, vars, table, loop
<1>3. pc = "job" /\ fd \in Fds /\ call["loop"].kind = "none"
  BY <1>1 DEF TimerInv, TemplateRuns, IInv, LoopInv, OneCaller
<1>4. wanted' \in [Fds -> BOOLEAN]
  BY <1>1, <1>3 DEF TimerInv, TimerTypeOK
<1>5. tfd' \in [Fds -> [armed : BOOLEAN, interval : BOOLEAN, expired : BOOLEAN]]
  <2>1. tfd \in [Fds -> [armed : BOOLEAN, interval : BOOLEAN, expired : BOOLEAN]]
    BY DEF TimerInv, TimerTypeOK
  <2> QED  BY <1>1, <2>1
<1>6. TimerTypeOK'
  BY <1>1, <1>2, <1>4, <1>5 DEF TimerInv, TimerTypeOK, IInv
<1>7. JobsOfTimers' /\ CallsOnTimers'
  BY <1>1, <1>2 DEF TimerInv, JobsOfTimers, CallsOnTimers
<1>8. OneCaller' /\ TemplateRuns' /\ EventIsExpired' /\ ReadNeverBlocks'
  BY <1>1, <1>2, <1>3 DEF TimerInv, OneCaller, TemplateRuns, EventIsExpired, ReadNeverBlocks, Active
<1> QED  BY <1>2, <1>6, <1>7, <1>8 DEF TimerInv

\* The return of tmr_job_tpl preserves the invariant.
LEMMA TmrReturnInv == ASSUME TimerInv, TmrReturn PROVE TimerInv'
<1>1. /\ FinishJob /\ stage = "cb" /\ stage' = "none" /\ call["loop"].kind = "none"
      /\ UNCHANGED <<status, tmr_class, tfd, call, wanted>> /\ own_freed' = FALSE
  BY DEF TmrReturn
<1>2. IInv'
  BY <1>1, QuietStepIInv DEF TimerInv
<1>3. UNCHANGED <<slot, event>> /\ pc = "job" /\ pc' = "event"
  BY <1>1 DEF FinishJob, table
<1>4. TimerTypeOK'
  BY <1>1, <1>2 DEF TimerInv, TimerTypeOK, IInv
<1>5. JobsOfTimers' /\ CallsOnTimers'
  BY <1>1, <1>3 DEF TimerInv, JobsOfTimers, CallsOnTimers
<1>6. OneCaller'
  BY <1>1, <1>3 DEF TimerInv, OneCaller, Active
<1>7. TemplateRuns' /\ EventIsExpired' /\ ReadNeverBlocks'
  BY <1>1, <1>3 DEF TimerInv, TemplateRuns, EventIsExpired, ReadNeverBlocks
<1> QED  BY <1>2, <1>4, <1>5, <1>6, <1>7 DEF TimerInv

\* The service's other steps preserve the invariant.
LEMMA ServiceStepInv == ASSUME ~Foreign, TimerInv, ServiceStep PROVE TimerInv'
<1>1. UNCHANGED <<status, tmr_class, tfd, call, stage, wanted, own_freed>>
  BY DEF ServiceStep, tvars
<1>2. CASE \E wait_pending \in BOOLEAN : Stop(wait_pending)
  <2>1. IInv' /\ UNCHANGED <<slot, pc, event>>
    BY <1>2, StopIInv DEF TimerInv, Stop, table, loop
  <2>2. TimerTypeOK'
    BY <1>1, <2>1 DEF TimerInv, TimerTypeOK, IInv
  <2> QED  BY <1>1, <2>1, <2>2
           DEF TimerInv, JobsOfTimers, CallsOnTimers, OneCaller, TemplateRuns, EventIsExpired,
               ReadNeverBlocks, Active
<1>3. CASE \/ Run /\ call["user"].kind = "none"
           \/ EpollNotify \/ EpollInterrupted \/ HandleNotify \/ EndScan \/ Deinit
  <2>1. IInv'
    BY <1>3, RunIInv, QuietStepIInv, HandleNotifyIInv DEF TimerInv, EpollStep
  <2>2. UNCHANGED slot /\ pc # "job" /\ pc' # "job"
    BY <1>3 DEF Run, EpollNotify, EpollInterrupted, HandleNotify, EndScan, Deinit, table, LoopHead
  <2>3. pc' = "event" => event'.fd \notin Fds
    BY <1>3, FdsAssumption
       DEF Run, EpollNotify, EpollInterrupted, HandleNotify, EndScan, Deinit, LoopHead, NoEvent
  <2>4. Active' => Active \/ call["user"].kind = "none"
    BY <1>3 DEF Run, EpollNotify, EpollInterrupted, HandleNotify, EndScan, Deinit, Active
  <2>5. stage = "none" /\ call["loop"].kind = "none"
    BY <2>2 DEF TimerInv, TemplateRuns, OneCaller
  <2>6. TimerTypeOK'
    BY <1>1, <2>1 DEF TimerInv, TimerTypeOK, IInv
  <2>7. JobsOfTimers' /\ CallsOnTimers'
    BY <1>1, <2>2 DEF TimerInv, JobsOfTimers, CallsOnTimers
  <2>8. OneCaller' /\ TemplateRuns' /\ EventIsExpired' /\ ReadNeverBlocks'
    BY <1>1, <2>2, <2>3, <2>4, <2>5
       DEF TimerInv, OneCaller, TemplateRuns, EventIsExpired, ReadNeverBlocks
  <2> QED  BY <2>1, <2>6, <2>7, <2>8 DEF TimerInv
<1> QED  BY <1>2, <1>3 DEF ServiceStep

\* Every step preserves the invariant.
LEMMA TimerInvStep == ASSUME ~Foreign, TimerInv, [TimerNext]_allvars PROVE TimerInv'
<1>1. ASSUME NEW t \in Threads, TimerCall(t) PROVE TimerInv'
  BY <1>1, TimerInitInv, TimerCancelInv, TimerDeinitInv, TimerSetInv, TimerPostInv, TimerCloseInv
     DEF TimerCall
<1>2. ASSUME NEW fd \in Fds, Expire(fd) \/ EpollTimer(fd) PROVE TimerInv'
  BY <1>2, ExpireInv, EpollTimerInv
<1>3. CASE TmrJobTpl \/ TmrRead \/ TmrReturn \/ ServiceStep
  BY <1>3, TmrJobTplInv, TmrReadInv, TmrReturnInv, ServiceStepInv
<1>4. CASE UNCHANGED allvars
  <2>1. UNCHANGED <<vars, status, tmr_class, tfd, call, stage, wanted, own_freed>>
    BY <1>4 DEF allvars, iovars, vars, tvars
  <2>2. IInv' /\ UNCHANGED <<slot, pc, event>>
    BY <2>1, StutterIInv DEF TimerInv, vars, table, loop
  <2>3. TimerTypeOK'
    BY <2>1, <2>2 DEF TimerInv, TimerTypeOK, IInv
  <2> QED  BY <2>1, <2>2, <2>3
           DEF TimerInv, JobsOfTimers, CallsOnTimers, OneCaller, TemplateRuns, EventIsExpired,
               ReadNeverBlocks, Active
<1> QED  BY <1>1, <1>2, <1>3, <1>4 DEF TimerNext, TimersGone

\* The invariant holds in every reachable state.
LEMMA TimerInvariance == ASSUME ~Foreign PROVE TimerSpec => []TimerInv
<1>1. TimerInv /\ [TimerNext]_allvars => TimerInv'
  BY TimerInvStep
<1> QED  BY <1>1, TimerInvInit, PTL DEF TimerSpec

(***************************************************************************)
(* The properties.                                                         *)
(***************************************************************************)

\* If timers are called from the loop's thread only while the loop runs, for
\* any number of them: neither tmr_job_tpl nor the table outlives the timer.
THEOREM TimersAlwaysIntact == ASSUME ~Foreign PROVE TimerSpec => []TimersIntact
<1>1. TimerInv => TimersIntact
  BY DEF TimerInv, TimersIntact, NoUseAfterDeinit, TemplateRuns, JobsOfTimers
<1> QED  BY <1>1, TimerInvariance, PTL

\* Under the same condition the read of tmr_job_tpl never waits.
THEOREM ReadsNeverBlock == ASSUME ~Foreign PROVE TimerSpec => []ReadNeverBlocks
<1>1. TimerInv => ReadNeverBlocks
  BY DEF TimerInv
<1> QED  BY <1>1, TimerInvariance, PTL

\* Timers that close their descriptors behind the service's back leave the
\* table and the kernel's epoll set in step under the same condition.
THEOREM ServiceStaysInStep ==
  ASSUME ~Foreign PROVE TimerSpec => [](TableAgrees /\ KernelAgrees)
<1>1. TimerInv => TableAgrees /\ KernelAgrees
  BY DEF TimerInv, IInv, TableAgrees, KernelAgrees
<1> QED  BY <1>1, TimerInvariance, PTL
=============================================================================
