# Verification of the chats library

TLA+ models of the library in this repository (thread pool, I/O service,
timers, TCP and UDP transfers, the two servers, the client, the containers), the
TLC configurations that check them on small instances, and TLAPS proofs of their
safety properties for every instance. `PROJECT.json` maps every definition to the
lines it models.

## 1. The system

A small C library for networked programs. Everything asynchronous runs on one
event loop; everything else is called from any thread.

| Component | State | Operations | Interacts with |
|---|---|---|---|
| thread pool (`thread-pool/`) | queue of jobs, flags `run` and `allow_new_jobs`, a mutex, two condition variables, the worker threads | `thread_pool_init`, `_post_job`, `_stop`; the worker `worker_tpl` | callers post from any thread, also from jobs and timer callbacks |
| I/O service (`io-service/`) | `lookup_table`: one element per descriptor with a job slot and a mask bit per operation; flags `running`, `allow_new`; an epoll set and a semaphore eventfd in the kernel | `io_service_init`, `_post_job`, `_remove_job`, `_run`, `_stop`, `_deinit` | calls jobs with its mutex released; every other component posts to it |
| timers (`timer/`) | a timerfd, its class, the callback | `timer_init`, `_set_deadline`, `_set_absolute`, `_set_periodic`, `_cancel`, `_deinit`; the job `tmr_job_tpl` | posts a read job for the timerfd |
| transfers (`network/network.c`) | one `srb_t` per transfer: operation, endpoints, buffer, `bytes_operated`, callback | `srb_operate` and the eight operators behind it | posts a oneshot job per step of a transfer |
| one-to-many server | listening socket, list of connections, a recursive mutex | init, deinit, listen, disconnect, send, recv | hands `srb_t`s to `srb_operate`; its acceptor is a job |
| one-to-one server | listening socket, one connection, `connected` | the same | the same |
| client (`network/client/`) | socket, `connected`, a recursive mutex | connect, disconnect, send, recv, for TCP and UDP | the same; its connector is a job |
| containers (`common/`) | list, AVL tree, hash map, queue, stack, buffer | the usual ones | used by all of the above |
| DAO and cache (`chats/p2p/server/dao/`) | an SQLite handle; three hash maps over one list | get, next, add, remove | containers |
| protocol and CRC (`chats/p2p/`) | none | validate, utilize and skip a packet | - |
| watcher, receiver, coroutine, main | - | declarations or empty files | - |

What is hard here:

* **Interleavings.** Every operation of the pool and the service is a critical
  section; what lies between two of them (a sleep, a running job, a blocked
  system call) is where others get in. The service looks a job up *after* the
  event was taken and calls it with the mutex released.
* **State in two places.** The service's table and the kernel's epoll set agree
  only after a notification was read.
* **Silent refusal.** A post into an occupied slot, or after a stop, is dropped
  without a sign; timers and transfers both post again while they run.
* **Shutdown.** Two kinds of stop, each of which must end the threads, and one
  of which must lose nothing.
* **Short counts, EAGAIN, end of stream, datagrams that do not fit.**

For each component the properties that make it correct: the pool runs each
accepted job once, in order, wakes who sleeps, and stops; the service never
loses a posted job nor calls one that was removed; timers fire and never block
or outlive the loop's view of them; a transfer keeps the order of the stream
and ends with one callback; servers and client keep their mutex discipline and
never let a job of a closed descriptor reach a new one; containers implement
sequences and maps.

## 2. Plan

1. `ThreadPool` with its abstraction `JobPool` and proofs - done.
2. `IoService` with its abstraction `Reactor` and proofs - done.
3. `Timer` on top of `IoService` - done.
4. `Transfer` (TCP) and `Datagram` (UDP) on top of `Reactor` - done.
5. `OtmServer`, `OtoServer`: acceptor, connections, disconnect, with the reuse
   of descriptor numbers by the kernel, on top of `Reactor` - done, over a
   common `Sockets`.
6. `Client`: connection states, the mutex left locked on error paths - done;
   `Endpoints` puts the three hosts into one specification.
7. `List`, `AvlTree`, `Buffer` against sequences, bags and sizes - done;
   `Containers` puts them into one specification. The DAO cache and the
   protocol are left out (section 6).
8. Theorems: the safety properties of every component - done (section 5). The
   recursion of `avl-tree.c` is written with recursive functions, not RECURSIVE
   operators, so that the tree can be reasoned about. The theorems about the
   containers are about their own specifications, `ListSpec`, `TreeSpec` and
   `BufferSpec`; `EachIsItself` shows that `Containers`, a behaviour of which
   exercises one of the three, implements each of them, and
   `ContainersStaySound` carries the theorems over to it.

## 3. The models

### ThreadPool, JobPool

An action is a critical section of `job_mutex`: `PostJob`
(`thread_pool_post_job`), `WorkerWait`, `WorkerTake`, `WorkerExit`,
`WorkerFinish` (`worker_tpl`), `Stop`, `StopResume`, `StopReturn`
(`thread_pool_stop`, cut where it waits on the condition variable and where it
joins the workers). Jobs are numbered in the order they are accepted.
`SpuriousWorker` and `SpuriousStopper` are the wakeups POSIX allows. The wait of
`thread_pool_stop` is not in a loop, so after a `SpuriousStopper`, which `spurred`
records, the stop goes on with jobs in the queue. `JobPool` has no threads: a
queue, the running jobs, and a stop that may discard the queue or has to wait for
it, until `Hurry` takes that obligation away, which is the spurious return.
The early return of `get_and_pop_job` on an empty queue cannot be taken: a worker
that is neither idle nor over has a job to take.

### IoService, Reactor

`PostJob`, `RemoveJob`, `Stop`, `Deinit` are the calls of any thread;
`io_service_run` is `Run`, then per round one of `EpollNotify`, `EpollFd`,
`EpollInterrupted` (`epoll_wait`, mutex released), then `HandleNotify`, or
`DispatchJob`/`FinishJob` for each job of the event, and `EndScan`. The table
is `lookup_table`, `slot`, `events`; the kernel is `registered`, `interest`.
The list of elements is a set, because its order is never observable. A job and
its context are one value. `Reactor` promises: one job per (descriptor,
operation), called at most once if it is oneshot, one at a time, never after
its removal.

### Timer

Extends `IoService`; a timer is its timerfd, with `armed`, `interval` and
`expired`. Setting a timer is two steps, `TimerSet` (`timerfd_settime`) and
`TimerPost` (`io_service_post_job`). `tmr_job_tpl` is `TmrJobTpl` (called),
`TmrRead` (a blocking read) and `TmrReturn` (after the callback). Time is the
action `Expire`. `Foreign` says whether a thread other than the loop's calls
while the loop runs. Relative and absolute deadlines are one class here: they
differ only in the flag given to the kernel. A callback may free its own timer,
at which `tmr_job_tpl` looks again after the callback: `own_freed` records it, and
what the write to freed memory may spoil is not followed.

### Transfer

The TCP half of `network.c` over `Reactor`: the service is used only by its
promise, which `IoService` is proved to keep. `StartAsync` and `StartSync` are
the wrappers with `srb_operate`; `CallJob`, `JobMoves`, `JobAgain`, `JobFails`,
`Repost`, `JobReturns` the steps of `tcp_send_recv_async_tpl`, with the new post
a step of its own because the slot is open to others until then; `SyncMoves`
and `SyncFails` the loop of `tcp_send_recv_sync`. Bytes are numbered, so a byte
that is lost, repeated or misplaced is seen. A blocking `sendmsg` may be short, when
a signal interrupts it, or fail; the vector is not advanced, so the next round sends
the start of the message again, and `torn` records the srb. The variable that selects the
endpoint in `tcp_send_recv_sync` before it is assigned is a choice (`garbage`).

### Datagram

The UDP half, on one socket. A datagram is a number and whether it fits the
buffers. `RecvLooks` is the `ioctl`, `RecvPeeks` the branch for a datagram that
does not fit, which frees the srb and falls through to `RecvDatagram` or
`RecvFails`; the peek may itself fail, and then the callback is given `errno`.
Sends go out whole. The event that the socket is readable is kept
apart from the call of the job, since it may be stale by then.

### Sockets, OtmServer, OtoServer, Client, Endpoints

`Sockets` is what the TCP hosts share: `Reactor` for the service, the kernel's
table of descriptors (`holder`: who was given which number, the rest of the
process among them), the recursive mutex with its owner and depth, and the
position of each of two threads, the loop and a user (`doing`). `OtherOpens` is
the rest of the process, which is given a number the host has closed. A call that does not wait with the mutex held is one action; the
ones that do wait (`accept`, `connect`, a synchronous transfer) are cut there,
and a callback, which runs with the mutex held, is a step in which the loop may
call the host again.

`OtmServer` is `one-to-many/server.c`: initialisation with its failures,
`OtmListenAsync`, `OtmListenSync`, the acceptor (`OtmAcceptor`, `OtmAccept`,
`OtmAcceptorReturns`; `OtmRefusesFreed` is a callback that disconnects the
connection and then refuses it, whereupon the acceptor closes a number found in
freed memory and unlinks a freed element), `OtmLooks` (the read of `connection->host` before the
mutex is locked) with what follows it: `OtmDisconnect`, the transfers, or the use
of freed memory. An `accept` that fails ends the process in an assertion
(`AcceptFails`). `OtoServer` and `Client` have the same shape; in `Client`
`ClientConnects` and `ClientRefused` are the outcomes of `connect` for the
addresses tried, `errno` keeping what the last refused one left, and
`ClientConnector` is the job that waits for an asynchronous connection.
Transfers appear by what they do to the service, one post per callback owed;
their bytes are `Transfer`'s matter. Misuse by callers and defects that would
make a property fail at once are recorded in `past`; a property names the ones it
excepts, so the model keeps the whole behaviour and the property says precisely
what is left of the promise.

### List, AvlTree, Buffer, Containers

`List` keeps the code's representation, a count, two ends and a pair of links
per element, and beside it the sequence a caller expects; every operation of
`list.c` is an action, and the queue and the stack are calls of the same
operations. `AvlTree` keeps the heap of nodes. A recursive function of
`avl-tree.c` is an operator on the heap that returns a recursive function of the
node: each calls itself before it writes anything, so one heap serves the whole
descent, and the writes follow on the way back, line by line where the order of
the assignments matters, with the variable that is read before it is assigned in
`tree_rotate_left` as the value `Wild`; a climb that reads through it gives
`Undefined`. The hash map is this tree with hashes
for keys, colliding ones among them. `Buffer` is `buffer_resize` with its two
policies. Where the code follows a freed or null pointer the behaviour ends as
"undefined".

## 4. The runs

| Run | Instance | Shows |
|---|---|---|
| `tp_threads` | 3 workers, 6 jobs, spurious wakeups | nobody sleeps through the event awaited (`NoLostWakeup`, `StopperAwaitsJobs`); jobs exactly once and in order; no use after free; `JobPool` is implemented; the stop returns; unless the stopper's wait returned without a broadcast, a graceful stop loses nothing and jobs are served |
| `io_service` | 2 descriptors, both operations, repeated stops | mask and slots agree, the kernel watches only what is listed, no posted job is lost, no watch is left over; `Reactor` is implemented; jobs are served; `io_service_stop` ends an active loop |
| `io_drained` | 1 descriptor, 1 job | *violated*: a graceful stop that finds an element in the table, with a job pending or already without one, never ends the loop |
| `tm_timers` | 2 timers | the loop never blocks in `read()`; no use after `timer_deinit`, but for a callback that frees its own timer; deadlines fire, periodic timers keep firing |
| `nt_async` | 2 sockets, 3 srbs of 3 bytes, overlapping | srbs are owned by one place and freed once; streams keep their order; success means the whole buffer |
| `nt_serial` | 1 socket, 2 srbs of 3 bytes, synchronous too | messages are sent whole, but for interrupted synchronous sends; transfers end |
| `nt_eof` | 1 socket, 2 srbs | *violated*: a receive never ends when the peer closes |
| `dg_transfer` | 3 srbs, 3 datagrams, a queue of 2 | datagrams once and in order; the loop does not block; no silent truncation |
| `dg_free` | the same | *violated*: an srb is used after it was freed, and freed twice |
| `ep_hosts` | each host with 3 descriptors, 2 connections, 2 threads | the mutex is given back as often as it was taken (`LockGivenBack`); a host closes only its own descriptors (`ClosesOwn`); no job reaches a descriptor that was given to somebody else (`NoStaleJob`); the loop does not wait in `accept`; nothing is left open; list, connection and socket agree with the kernel (`HostIntact`: `OtmListed`, `OtoOneConnection`, `ClientOneSocket`) |
| `ct_containers` | a list of 4 elements, a tree of 5 nodes and 3 keys, a buffer | the pointers are those of the expected sequence, and no operation follows a stale one, until `list_add_after` or `list_add_before` adds beyond an end; the tree keeps its nodes, order and balance, finds what is stored, and `avl_tree_next` is right for a node with a right subtree; a resize that returns true has made the room |
| `ct_neighbours` | the same | *violated*: `avl_tree_next` and `avl_tree_prev` do not fetch the neighbours `avl-tree.h` promises |

A run checks the conjunctions of named parts that belong together, the type of
the variables among them: `JobsConserved`, `TableAgrees`, `TimersIntact`,
`SrbsIntact`, `DatagramsIntact`, `HostIntact`, `ListIsSequence`, `TreeIsAvl`, `TreeHoldsEntries`, `BufferHasRoom`.

Bounds. Three workers are the least with a sleeper, a runner and one that
leaves; more jobs than workers make the queue fill and drain. Two descriptors
with two operations give every combination of an element emptied by one
operation or two; two or three unread notifications let a notification be sent
while another is read. Three bytes make a first, a middle and a last part; three
srbs make one that runs, one that takes its slot and one that is refused. A
queue of two datagrams holds one that fits behind one that does not, and three
arrivals overflow it. A host has one number for the listening socket and two that
connections and the rest of the process compete for, so a number is given to
another while a connection or a job still carries it; one connection in the
backlog (`MaxBacklog`) can be taken by one thread before the other, two locks
(`MaxDepth`) are the deepest nesting of the code, and two transfers (`MaxOwed`)
leave one under way when another ends. An action stops at `MaxDepth` and at a
host that has closed somebody else's descriptor, since what follows is no longer
the host's doing. Four elements give a list with two inner ones; five nodes are a
tree of height three in which a removal rotates, and three keys for them make
collisions in every full tree. The sizes of `Buffer` go to `MaxSize` = 3.
`MaxPosts`, `MaxNotify`, `QueueLen` and `MaxDatagrams` are the other bounds that
are not in the code (the counter of an eventfd is bounded too, far away). In `ep_hosts` a user makes the calls that wait outside callbacks,
as the test programs do. Deadlock is not checked in `ep_hosts`, where threads may
wait for a peer or for a mutex that was kept and a host ends, nor in
`ct_containers`, where a freed container has no operations.
Symmetry is used in runs without liveness only.

Fairness. Threads that can run do (weak fairness of the workers, of the loop's
steps and of the stopper): the scheduler guarantees it, and jobs are assumed to
return. `epoll_wait` returns ready descriptors in turn, so a descriptor that is
ready again and again is returned (strong fairness of `EpollNotify`, `EpollFd`,
`EpollTimer`). An armed timerfd expires. A socket that is reported ready is not
found blocked for ever (strong fairness of `JobMoves`), and a blocking call on
an open connection returns (weak fairness of `SyncMoves` or `SyncFails`). The last
ones and the strong fairness of `EpollFd` and of `CallJob` are also an assumption on
peers: while they keep a connection open they send and they read, so that a
descriptor with a job becomes ready again and again. Nothing else is assumed of
them; they may close at any time, and no fairness is assumed of users and stops.

What the four violated runs show is reported under `findings`. Other
disagreements met while modelling are under `hazards`. Where one breaks a property,
the model still takes the step: a history variable (`spurred`, `own_freed`, `torn`,
`past`) records it and the property names it as its exception, or a switch
(`Foreign`, `Overlap`, `Sync`) says which callers the run has. A hazard that every
property excepts is listed without a property, and its note says so.

## 5. The proofs

Every safety property that holds in a run is also a theorem, for every value of the
constants. Each theorem has the same shape: an inductive invariant, checked with TLC
on the run's instance first (that of the tree on three nodes and two keys), one lemma per action or kind of action, and a last step of temporal logic.

| Module | Theorems | for any |
|---|---|---|
| `ThreadPoolProofs` | `NoSleepForever` (`NoLostWakeup`), `StopperNotForgotten` (`StopperAwaitsJobs`), `ExactlyOnceInOrder` (`JobsConserved`), `FreedWhenUnused` (`NoUseAfterFree`), `DrainedWhenStopped` (`GracefulDrain`), `Refinement` (`ImplementsJobPool`) | workers, jobs, spurious wakeups |
| `IoServiceProofs` | `TableConsistent` (`TableAgrees`), `KernelInStep` (`KernelAgrees`), `Refinement` (`ImplementsReactor`) | descriptors, jobs, unread notifications |
| `TimerProofs` | `TimersAlwaysIntact` (`TimersIntact`), `ReadsNeverBlock` (`ReadNeverBlocks`), `ServiceStaysInStep` (`TableAgrees`, `KernelAgrees` with timers) | timers; `~Foreign` |
| `TransferProofs` | `SrbsAlwaysIntact` (`SrbsIntact`); `SuccessAlwaysWhole` (`SuccessIsWhole`) and `RecvAlwaysIntact` (`RecvIntact`) with `~Sync`; `SendsContiguous` (`SendContiguous`) with `~Overlap \/ ~Sync`; `MessagesSentWhole` (`MessagesWhole`) with `~Overlap` | sockets, srbs, sizes of messages and buffers |
| `DatagramProofs` | `DatagramsAlwaysIntact` (`DatagramsIntact`), `LoopGoesOn` (`LoopNeverBlocks`), `NeverTruncatesSilently` (`NoSilentTruncation`) | srbs, arrivals, length of the queue |
| `EndpointsProofs` | `HostsAlwaysIntact` (`HostIntact`), `LockAlwaysGivenBack` (`LockGivenBack`), `OnlyOwnClosed` (`ClosesOwn`), `JobsNeverStale` (`NoStaleJob`), `AcceptGoesOn` (`AcceptNeverBlocks`), `NothingEverLeft` (`NothingLeft`) | descriptors, connections, backlog, transfers, nesting of the mutex |
| `AvlTreeProofs` | `TreeStaysAvl` (`TreeIsAvl`), `TreeKeepsEntries` (`TreeHoldsEntries`), `TreeNextBelow` (`NextBelowIsRight`) | finite set of nodes, hashes, collisions |
| `ContainersProofs` | `ListStaysSequence` (`ListIsSequence`), `RemovalLoopGoesOn` (`RemoveNextGoesOn`), `RoomKept` (`BufferHasRoom`); `EachIsItself`, `ContainersStaySound` (the containers' invariants, of the specification the run checks) | finite set of elements; bound on the sizes |

**Thread pool.** `IInv` joins type correctness, the properties themselves and
`StageInv`, which ties the flags to the stage of the stop: `run` falls only when
the stopper has left its wait, and a graceful stopper that was not `spurred` has
left its wait only with an empty queue. Nothing is assumed of wakeups: the spurious
ones of workers are invisible to `JobPool`, that of the stopper is its `Hurry`. Without `StageInv` neither `GracefulDrain` nor the refinement is
inductive, since nothing would connect an exiting worker with the queue it leaves
behind.

**I/O service.** The strengthening is `CleanSlots` (a slot without a job is exactly
the empty slot, and a descriptor that is not listed has nothing), which makes a
fresh element indistinguishable from a reused one, and `LoopInv`, which ties the
loop's position to the event and the job it holds and says what the kernel's
interest may still contain before the next notification is read.

**Timers.** `TimerInv` contains the service's `IInv`, whose lemmas are used for
every step of the service. New are: a job in the table belongs to a living timer
(`JobsOfTimers`), a call that was begun is on a living timer and a close comes
after the withdrawal of the job (`CallsOnTimers`), one thread calls at a time
(`OneCaller`), the position in `tmr_job_tpl` fits the loop's (`TemplateRuns`), and
an event the loop still has to look at comes from a timerfd that has expired
(`EventIsExpired`). A callback may free its own timer; what is proved then is that
only the end of that same call meets the freed timer. `EventIsExpired` makes
`ReadNeverBlocks` inductive: between the return of `epoll_wait` and the `read` nobody sets the timer anew. That is what
`~Foreign` says, and it is needed: `timer_set_deadline` from another thread clears
the expiration, and the loop blocks in `read`.

**Transfers.** `OwnInv` adds to `SrbsIntact` that an srb under way has a socket and
something left to move. `ExclusiveInv` says that of two srbs for one socket and
operation only one has moved anything: a refused post after a short count can only
lose an srb, never let two take turns. On it rest `RecvInv` (the last byte of an
unfinished receive is the last one read of its socket, and every byte read is in
one buffer) and `SendInv` (the last byte of an unfinished send is the last one of
the stream, and every byte in it was counted). `WholeInv` gives a reason for every
message sent in part. `RecvIntact` and `SuccessIsWhole` are false of synchronous
transfers: `tcp_send_recv_sync` (network.c:276) does not advance its vector after a
short count, so a later part lands on an earlier one and the count passes the size
of the buffer; hence `~Sync`. With both synchronous and
overlapping transfers a synchronous send gets between the parts of an asynchronous
one; hence `~Overlap \/ ~Sync`. Synchronous sends may be short: a message of which
a part was sent, `torn`, is not followed further, and the theorems are about the
others. Overlapping sends can be cut short by a refused
post, so `MessagesWhole` needs `~Overlap`. Each hypothesis is the setting of the run
that checks the property.

**Datagrams.** `DatagramInv` orders the queue by arrival, puts every reported
datagram before the queue (`QueueInOrder`) and lets no two reports be the same
(`ReportsDiffer`); `CallbacksCounted` bounds the callbacks of an srb whose receive
goes on after it was freed. For the other two theorems `OneJob` says that the
service runs one job at a time and that no event is held while it does, so the
datagram that was announced is still there.

**Hosts.** `EndpointsInv` says what each host knows of the kernel and what the
threads are in the middle of: `LockInv` (a thread holds the mutex as deep as its
calls, and one that keeps it holds more), `KernelInv` (an open number is remembered
by its connection, and the listening socket keeps its own), `AcceptInv` (the
acceptor is only in the slot of the listening socket, is oneshot, and runs only
while something waits), `ListenInv`, `OtmInv`, `OtoInv`, `ClientInv` (a connector is
in one place, for the current socket), `JobInv` (a transfer's job, in the service
or being called, is for the number its connection holds and is still owed its
callback) and `OverInv`. `NoStaleJob` alone is not inductive: the loop has taken a
job out of the slot before it runs and posts again, and the connection could be
closed in between, but for `owed`. The many actions are first sorted by what they do
to the mutex (`ThreadStep`), the service (`ServiceStep`), the descriptors
(`KernelStep`) and the acceptor (`AcceptStep`); each part of the invariant is then
proved once per kind of step.

**List.** `ListInv` adds to `ListIsSequence` that no element is twice in the
sequence and that the count is the number of allocated elements even after the ends
have gone wrong (without it the type of the count is not inductive). Two lemmas say
what `InsertAt` and `RemoveAt` return, two more that relinking an element
(`ElementPutIn`, `ElementTakenOut`) gives the links of the longer or shorter sequence;
every operation is an instance of one of them. `list_deinit` walks along `next` with
the recursive function `Walked`: the sequence itself is the witness that it is well
defined, and a least index at which the walk left the sequence is impossible
(`LeastNatural`), so it meets every element and stops at NULL.

**AVL tree.** `Avl(h, p, S)` says that in the heap `h` the subtree of `p` is an AVL
tree of exactly the nodes `S`; its witness is the set of nodes below each node. Its
lemmas are the only ones that look at the witness: a tree splits into its root and two
smaller ones (`AvlSplit`), two trees and a node that fits between them join
(`AvlJoin`), and writes outside `S` do not matter (`AvlFrame`). On these rest the two
rotations (`TurnLeft`, `TurnRight`) and `BalanceKeeps`: from two subtrees whose heights
differ by at most two, `tree_balance` makes an AVL tree of the same nodes, as high as
the higher subtree or one more. `ReplaceLeft` and `ReplaceRight`
are the step every insertion and removal repeats on its way up.

Induction is by the least counterexample, of a height (`HeapInduction`) or of a number
(`LeastNatural`), and that a recursive function of the model satisfies its equation is
proved by building one that does, rank by rank (`RecursionOnRank`, `HeapRecursion`);
the heights go down along the links, so they are the ranks. Thus `InsertKeeps`,
`RemoveMinimumKeeps`, `UnhookKeeps` and `RemoveKeeps` hold of trees of any height: the
result is an AVL tree of the nodes with the new one, or without the found one, its
height differs from the old by at most one, and no key has changed.
`InOrderReads` turns the set of nodes into the sequence the properties read, and
`FindUnfolds` gives the look-up.

`TreeInv` is: the types, `Stands` (while the map is up, the nodes held are an AVL tree
below the root, and every other node is as the allocator leaves it) and `Counted` (as many nodes have a key as entries are stored under
it). The properties alone are not inductive: they read the tree through `InOrder`,
which says nothing of a subtree that is about to be rotated.
For `NextBelowIsRight` the nodes of a subtree lie together in the order of the whole
(`SubtreesLie`), so the minimum of a right subtree follows its parent. Of the climbs
along `parent` nothing is proved: `ct_neighbours` shows them wrong.

**Buffer.** `BufferHasRoom` is inductive as it stands.

`Transfer`, `Datagram` and the hosts use the service only through `Reactor`, and
`IoServiceProofs` proves that `IoService` implements it, so what is proved of them is
proved of any service that keeps that promise.

Assumptions: those named in the modules (`NULL` is no job, no descriptor and no
element, the names of the parts of the process are no jobs, bounds are natural
numbers, the elements of a list and the nodes of a tree are finitely many, keys are integers and
there is one), which TLC evaluates in the runs.

Only model-checked:

* Liveness (`StopTerminates`, `JobsServed`, `JobServed`, `StopReturns`, `DeadlineFires`,
  `PostedPeriodicFires`, `TransferEnds`): the prover does not handle fairness.
* The four violated properties, which are false.

## 6. What is not modelled

* Failure of `malloc`, `pthread_*`, `epoll_create`, `timerfd_create`: the code
  asserts or returns NULL before any state exists. A pool without workers.
* Addresses (`endpoint.c`, `getaddrinfo`): only whether an address is found.
* `client_udp_init` and `client_udp_deinit`, which open and close one socket.
* The DAO and its cache. `dao_init` never stores the handle it opens in
  `dao->db`, so every operation works on an uninitialised pointer, and
  `dao_list_clients` takes a row (`SQLITE_ROW`) for an error. There is no defined
  behaviour to state properties of, and nothing calls it.
* The protocol's packets and their CRC: checks of one packet without any state
  and without a caller. The hash functions: table look-ups; `AvlTree` allows any
  function with collisions.
* The composition of `src/tests/io.c`, a pool, a service and a timer in one
  program: the test holds `ctx.mtx` while `thread_pool_stop(tp, true)` waits for
  jobs that lock it, a fault of the test and of no component.
* The width of a tree's heights (`unsigned char`): no tree that fits into memory
  has a height of 256, which an AVL tree reaches with more than 2^170 nodes.
* The watcher, the receiver and the coroutines have no code.
* The contents of freed memory: a freed srb is taken to keep its contents, the
  most favourable outcome; that it is used at all is the violation.

Disagreements between code and intent that are modelled, or left out, without a
run of their own: `avl_tree_remove` returns data it never assigned
(`avl-tree.c:143`); `buffer_size` reports the old size after a resize (`memory.c:64`); the assertion
on `fcntl` at `client.c:355` fails when the call succeeds, so an asynchronous
connection is only made in builds without assertions, where the call is left out,
or when it fails (`ClientAborts` is the other case).
