# Synchronisation primitives of One-Core-API: a TLA+ development

One-Core-API gives Windows XP and Server 2003 the programming interface of later
Windows versions. It is a ReactOS tree with an `oca/` directory that holds the
project's own work: extension libraries that add the missing exports to the
system DLLs, new DLLs, API sets, wrappers, drivers. Nearly all of that is
argument translation, forwarding or code imported from Wine and ReactOS. The
part that has an algorithmic core of its own, and that every program running on
top of it depends on, is the set of **user-mode synchronisation primitives** NT5
does not have: slim reader/writer locks, condition variables, one-time
initialisation, wait-on-address, synchronization barriers and, built from them,
the thread pool. This directory models those.

All line numbers refer to `src/oca/extensions/ntext/rtl/synch.c` unless another
file is named; `kernelex/synch.c` is `src/oca/extensions/kernelex/synch.c` and
`threadpool.c` is `src/oca/extensions/ntext/rtl/threadpool.c`.

## 1. Inventory

| component | state | operations | interaction | hard behaviour | what makes it correct |
|---|---|---|---|---|---|
| slim reader/writer lock (1694-2087) | one word: flags Hold, Wait, Link, Many and a shared count or the newest wait node; wait nodes on the waiters' stacks | acquire, try, release, shared and exclusive; compress queue; wake | keyed event; used by wait-on-address and by condition-variable callers | barging, a hand-over of the list's ownership (Link), a shared count that moves from the word to a node, nodes that disappear with their frame | owners exclude, one list owner, no dangling node, no lost wake-up, shared owners are counted, every acquire returns |
| one-time initialisation (577-713; `kernelex/synch.c` 119-140, 288-327) | one word: fresh, busy + list of waiters, async, done + context | begin (check-only, sync, async), complete, execute once | keyed event; user callback | failure and take-over, several async initialisers, list on the waiters' stacks | one synchronous initialiser, all get the published context, published is final, every begin returns |
| wait on address (1355-1674) | 128 buckets: lock and a ring of stack-allocated blocks; an event per waiter | wait, wake single, wake all | SRW lock (exclusive) per bucket, NT events | time-out against wake, several addresses in a bucket, head of the ring moving under the walk | the ring is exactly the waiters, per-address FIFO, a waiter whose value changed returns |
| synchronization barrier (`kernelex/synch.c` 378-543) | two event handles that swap roles, a countdown | initialise, enter (spin, block or both), delete | NT events | a fast thread re-entering while slow ones leave, deletion while others are inside | nobody passes early, one serial thread a phase, all phases pass, safe to delete |
| condition variable (39-54, 731-1330) | one word: newest block, Link, three bits of wake requests; blocks on stacks | sleep (CS, SRW), wake, wake all, optimise list, wake single (after a time-out) | keyed event, the caller's lock | requests counted while another works on the list, time-out against wake, second wait | one list owner, the list is exactly the sleepers nobody chose, releases meet their sleeper, requests are served |
| keyed event handle, second-wait workaround (143-213) | a global handle | lazy open; poll until the waker announces itself, then wait 5 ms | NT kernel | open race; the 5 ms | see section 7 |
| thread pool: workers, objects, groups (`threadpool.c` 109-246, 970-985, 1528-2266, 2271-2846, 3026-3123) | pool (workers, busy count, objects bound), objects (references; pending, running, associated callbacks), a list per priority, cleanup groups | allocate, post, cancel, wait, release, limits; worker loop; what a callback may call | pool critical section, three condition variables; fed by the queues below | an idle worker's time-out against a submission, callbacks that outlive a release, shutdown signalled outside of the lock, references dropped by five kinds of owners | a callback runs once for each submission that is not cancelled, waits return, an object is freed once and unused, the pool goes away |
| thread pool: timer queue (696-831, 993-1082, 2851-2947) | two sorted lists, two kernel timers, an object count, a thread | lock, unlock, set; thread loop | submits to pools | a timer set or released while the thread waits, merging by windows, the end of the thread against a new timer | lists sorted and complete, no timer overslept, a thread as long as there are timers |
| thread pool: wait queue (1087-1368, 2952-3021) | buckets of at most 63 waits, each with a thread and an update event | lock, unlock, set; thread loop, merge | NT events; submits to pools | handles gathered before and used after a wait, buckets that merge | each wait in one list of its bucket, no thread blocked on stale handles |
| thread pool: I/O queue (1370-1520, 1947-1959, 2281-2320, 2458-2473, 2729-2747, 3056-3067) | a completion port, an object count, a thread; pending and skipped operations of each object | lock, unlock, start, cancel, release; thread loop | kernel; submits to pools | packets of operations that were cancelled or whose object is shutting down | a completion for each callback, no callback for a cancelled operation |
| critical section helpers (`ntext/rtl/critical.c`) | pool of debug info blocks | initialise | — | — | sequential |
| kernel32 wrappers (`kernelex/synch.c`, rest) | none | convert time-outs and statuses | forward to ntext | — | sequential |
| everything else in `oca/` | mostly none | stubs, forwards, conversions, user interface, drivers | NT kernel | — | data and I/O |
| ReactOS tree | — | — | — | — | third party |

Interaction: all primitives but the barrier sleep on one keyed event, a
rendezvous in which `NtReleaseKeyedEvent(key)` waits for a waiter with that key.
The key is the address of a node in the waiter's stack frame, so all of them
have to be right about who may still hold a pointer to a frame. The hazards that
follow, with the lines where they bite, are in `PROJECT.json` under `hazards`.

## 2. Modules

| module | models | composed of |
|---|---|---|
| `RwLock` | abstract reader/writer lock | |
| `SrwLock` | the slim reader/writer lock | instantiates `RwLock` (refinement) |
| `SrwLockProofs` | type correctness of the lock, its safety and refinement | extends `SrwLock` |
| `MCSrwLock` | programs for model checking | extends `SrwLock` |
| `RunOnce`, `RunOnceProofs`, `MCRunOnce` | one-time initialisation, its theorems, its runs | |
| `AddressQueues` | abstract queue of waiters for each address | |
| `WaitOnAddress`, `WaitOnAddressProofs`, `MCWaitOnAddress` | wait on address | instantiates `AddressQueues` (refinement) |
| `SyncBarrier`, `SyncBarrierProofs`, `MCSyncBarrier` | synchronization barrier | |
| `ConditionVariable`, `ConditionVariableProofs`, `MCConditionVariable` | condition variables | |
| `WorkItems` | what a pool promises of its objects | |
| `ThreadPool` | pool, workers, objects, cleanup group | instantiates `WorkItems` (refinement) |
| `Lists` | list removal and insertion on sequences, for pool and queues | |
| `Clock` | time, for the queues | extends `Lists` |
| `TimerQueue`, `WaitQueue` | the timer and the wait queue with their threads | extend `Clock` |
| `IoQueue` | completion port and its thread | |
| `PoolService` | pool and queues together | extends `ThreadPool`, `TimerQueue`, `WaitQueue`, `IoQueue` |
| `MCThreadPool` | programs for model checking | extends `PoolService` |
| `PoolQueueProofs` | theorems about the timer and the wait queue; what is known of one object | extends `PoolService` |
| `PoolObjectProofs` | each step keeps the invariants of objects; workers and the calls on an object keep the counts | extends `PoolQueueProofs` |
| `PoolProofs` | theorems about the pool, with its refinement of `WorkItems` | extends `PoolObjectProofs` |

### How state and actions correspond to the code

**One step is one access to shared memory that others can observe**: an
interlocked operation, a plain read or write of the word, or a step of a walk
that others can race. A compare-and-exchange loop that only recomputes its new
value from the value read is one step. Each thread has a place (`pc`) and the
local variables that survive from one step to the next, under the names they
have in the code where that is possible. A return resets the locals and the wait
node or block of the call: a pointer that is kept to it leads to `Nil`, which is
how a dangling pointer shows.

*SrwLock.* `word` is `SRWLock->Ptr` split into its flags, the count (while Wait is
clear) and the newest node (while Wait is set). `prev`, `head`, `next`, `snap`,
`excl`, `spin` are the fields of `SRW_WAIT_NODE`. `Enqueue`, `Park`, `Reload`,
`TakeLock` are the loop of the two acquires; `RtlReleaseSRWLockExclusive` +
`ClaimWake` and `ReleaseCount`, `ReleaseWalk`, `ReleaseSnapshot`, `ReleaseLast` the
releases; `WalkBack`, `Compress*`, `Wake*` are `RtlpSrwCompressQueue` and
`RtlpSrwWake`. Back-off delays and `RtlpWaitCouldDeadlock` (process shut-down) are
left out.

*RunOnce.* `once` is the word; a waiter's list slot is named after its thread.
`ReadOnce`, `FirstTime`, `Join`, `BeginReturns` are the loop of
`RtlRunOnceBeginInitialize`, `CheckOnly` its first branch; `Complete`,
`CompleteRejected`, `ReadToComplete`, `FinishBusy`, `ReleaseWaiter`, `FinishAsync`,
`FinishTooLate` are `RtlRunOnceComplete`. `RtlRunOnceExecuteOnce` is the call
`"execute"`: a begin whose caller completes with the arguments of lines 695-700.
`Unaligned` contexts have a low bit set and are refused (line 645).

*WaitOnAddress.* `waitBlocks`, `next`, `previous` are the ring, `event` a waiter's
event (none, clear, set), `lock` the lock of a bucket, an atomic lock here: that
exclusive callers of the real one exclude each other is `SrwLockProofs!LockExcludes`.
`StoreAndWake` is the caller that writes a location and then wakes.

*SyncBarrier.* `reserved1` is the countdown, `reserved3` the two handles, `signalled`
and `open` the events that are set and not closed. `entered`, `passed`, `wins` are
history. A thread of the barrier comes back until `MaxPhases`; the last one in
resets, refills, swaps twice and signals, each a step of its own. `CountDown` decrements
whatever the count is, as the code does; that the result is not negative, which the code
asserts (461), is the invariant `AssertedCount`. The check of the count, the two
`CloseHandle` and the `ZeroMemory` of a deletion are one step: nobody counts himself between
them, since the last phase is over.

*ConditionVariable.* `cv` is the word (newest block, Link, requests); `back`, `notify`,
`next`, `spin` are fields of `YY_CV_WAIT_BLOCK`. `TakeAll`, `TakeOldest`, `WakeStop`,
`WakeEmpty`, `Release`, `ReleaseKeyedEvent`, `EndWake` are
`RtlpWakeConditionVariable`; `Sleep`, `Unlock`, `Park`, `TimeOut`, `Relock` the two
sleeps; `Optimize*` is `RtlpOptimizeConditionVariableWaitList`; `RtlpWakeSingle`,
`UnlinkNewest`, `UnlinkOlder` what a timed-out sleeper does. Only the owner of Link
touches the links of blocks on the list (`LinkHasOneOwner` checks the ownership), so
a walk is one step. The caller's lock is atomic and in one mode. A sleep with unknown flags
(1240) returns at once and changes nothing: it is a stuttering step.

*ThreadPool.* A region under `pool->cs` or `group->cs` is one step. `pool.cs` is set while
a worker (or the I/O thread) keeps the lock from one step to the next: from the return
of a callback, over the release of the object, to the next callback or the sleep.
`WorkerTake` is the top of the loop and the first half of `tp_object_execute`,
`WorkerReturn` the second half; `WorkerDestroy` what `tp_object_release` does after
the last reference, which others can observe separately; `WorkerCheck`, `WorkerSleep`,
`WorkerTimeout`, `WorkerTimedOut`, `WorkerLeave` the end of the loop. `TpReleasePool`
takes no lock, so it may come between check and sleep. A condition variable is the set of
threads whose place says that they sleep on it: waking chooses any of them. `life` and
`owner` of an object are history: whether the memory exists, and who still owes a
release. `TpReleaseCleanupGroupMembers`, `GroupCancel`, `GroupWait`, `GroupDrop` are the
loops of the group release; `TpSimpleTryPost`, `CallerSubmit`, `SimpleJoin`,
`SimpleRelease` the steps of `tp_object_initialize` for a simple callback.

*TimerQueue, WaitQueue, IoQueue* hold the state of the queues (`timerq`, `timer`;
`buckets`, `bucket`, `wait`, `event`; `ioq`, `port`, `io`) and the steps of their threads.
A thread owns its queue's lock in the places `TimerCsFree`, `WaitCsFree` and `IoCsFree`
exclude. *PoolService* joins them to the pool: a service thread that submits,
references or releases an object does so in one step with its own queue, whose lock it
holds in the code. The I/O thread takes a packet and `ioqueue.cs` in one step (1386-1388): what
it does with the packet it decides under the lock. `SetEvent` and `Completes` are the program
and the kernel. A worker thread that cannot be created is a branch of its own where the code
goes on without it (1862, 2519). A call is made with objects the program has not released (`Usable`), as the interface
asks; which calls race is the choice of the programs in `MCThreadPool`.

*The unit of time.* The model has one clock. The code has two and mixes their units: it adds
delays in units of 100 ns to values of the performance counter (`threadpool.c` 2880-2881,
2892-2893) and hands differences of such values to `NtSetTimer`, which takes units of 100 ns
(780-781). What is checked and proved of timers (`NoTimerMissed`,
`ServicesDeliver`) is therefore about a counter that runs at 10 MHz beside a system time that
nobody sets; at another frequency every delay is off by the ratio.

## 3. Runs

| run | bounds | what it shows |
|---|---|---|
| `srw_lock` | 3 threads, unbounded calls | exclusion, one list owner, no dangling node, no lost wake-up, shared owners counted, refinement of `RwLock`, every acquire returns unless new calls come without end |
| `srw_try_race` | 2 threads | **violation**, finding 1 |
| `run_once` | 3 callers, an aligned and an unaligned context, 2 failures | one initialiser, same context for all, waiters on one list, done is final, the one way to leave the word busy, every begin returns otherwise |
| `wait_on_address` | 3 waiters and a waker, or one waiter for each of 2 addresses and 2 wakers; 2 addresses in a bucket, 2 values | the ring, the walk, refinement of `AddressQueues`, a waiter with a replaced value returns |
| `wake_all` | 2 waiters of one address | **violation**, finding 2 |
| `barrier` | 3 threads, 3 phases, 2 processors | the asserted count, no early return, one serial thread, safe to delete after blocking, all phases pass |
| `barrier_delete` | 3 threads, 1 phase | **violation**, finding 3 |
| `condition_variable` | 4 threads, unbounded calls | one list owner, the list is the sleepers, releases meet sleepers, requests are kept |
| `timed_sleepers` | 3 threads | **violation**, finding 4 |
| `thread_pool` | 13 programs, see below | objects freed unused and counted right, counts agree, items have workers, nobody sleeps for a finished object, sound queues, refinement of `WorkItems`, work is done, timers that are due and signals that are waited for are taken, a signal is answered unless the wait was changed, and never for a handle that was replaced |
| `pool_wait_cancel` | 2 callers, a work object | **violation**, finding 5 |
| `pool_io_cancel` | 1 caller, an I/O object | **violation**, finding 6 |

**Programs.** Most of the findings are reachable from ordinary calls, so a run
that lets every thread make every call ends in them. Most passing runs
therefore start from a *program*: which calls each
thread makes. For the lock: two threads wait for either mode while a third waits or
tries for the exclusive one; all share; one reader, waiting or trying, among threads
that try to write. What is left out is a shared try beside both another shared owner
and a writer, the case of finding 1. For one-time initialisation: every pair of modes, and
four mixes of three threads. For the condition variable: any number of sleepers with at most one
time-out; finding 4 needs two. For wait on address, the values change only in
the program with one waiter for each address, since two are finding 2; three waiters of
one value are woken in the other one.

The programs of the pool (`MCThreadPool`) each have a few objects and the calls that make
them interesting, and are checked in one run:

| program | objects | what races |
|---|---|---|
| `Shared` | a work item, 2 callers, 2 workers | posts, waits, release from outside and from the callback, repost, disassociation, long callbacks, release of the pool, idle workers |
| `Limited` | a work item | cancellation, changing limits (0 to 2 threads), threads and queues that cannot be had, idle workers |
| `Cancelled` | items of two priorities | cancellation against running and reposting callbacks |
| `Grouped` | a simple callback and a work item in a group, 2 callers | release of group, members and pool |
| `TwoTimers`, `TimerInGroup` | timers | absolute, relative, periodic and immediate times, windows, re-arming from the callback, group release |
| `TwoWaits`, `WaitInGroup`, `TimedWait`, `FullBuckets` | waits | signals, time-outs, release from the callback, two buckets and their merging |
| `Io`, `IoNoMemory`, `IoCancelled` | an I/O object | packets against waits, cancellation, release and lack of memory |

None has one caller that waits while another cancels, which is finding 5.

What becomes of a signal is asked in two steps. `ServicesDeliver` says that a wait thread takes it:
it does not stay on a handle that a wait is armed for. `SignalsAnswered` says what the thread then
does: it submits the callback, or drops the signal because the bucket has changed since it blocked,
and it never submits one for a handle that was replaced by another. It leaves open what the code
gets wrong, the last item of section 4.

**Are the bounds enough?** Three threads on the lock give an owner, an oldest
waiter and a newer one, which is the shortest queue on which compressing, waking one
of several and enqueueing behind a moving list differ; with shared owners, the count
passes from the word to a snapshot and to Hold alone. For the condition variable
three sleepers give a block that is neither newest nor oldest, and the fourth thread
wakes. The request count (7 is "wake all") cannot be filled by three requests; its
upper end is reached through wake-all and the time-out, which set it to 7. Three
phases of the barrier use each event, reset it and use it again. Two addresses in one
bucket give rings in which the walk skips blocks. Failures of the run-once callback
are counted (`MaxFailures`): a callback that fails for ever makes every caller try
for ever. Symmetry of threads is used only in `condition_variable`, which has no liveness
property.

Of the pool: two workers (`MaxWorkers`) are enough for one to sleep, or to leave, while the
other runs, and for `num_busy_workers` to reach the limit; two posts (`MaxPosts`) put an object
back on its list; `MaxLate` bounds time-outs that change nothing; `MaxTime` 2 with
`Linger` 1 lets a queue's thread outlive its last object and end; buckets hold three waits
(`MaxInBucket`, 63 in the code), the least that has a third, so that four waits fill one and
start another that can merge; two operations (`MaxOps`) let one be late, and two handles, each
signalled once (`MaxSignals`), let a wait be moved from one to the other with a signal on its way. How often timers and waits are set is part of each program.

**Deadlock** is checked except where the system may stop: `barrier` (all phases
done), `run_once` (a context with a low bit set leaves the word busy), `thread_pool` (the
program may be over; that nothing is left undone is `WorkIsDone`) and some of the violation
runs.

**Fairness.** Weak fairness of every thread's own steps inside a call: the
scheduler keeps running a thread that can run. Nothing is assumed of callers
except, where a property is about waiting, that an owner releases
(`End` is in the `Fairness` of `SrwLock`), that a thread of the barrier comes back, and that a
thread that was told to initialise completes (`Initialises`). Two strong
assumptions: `LockStep` in `WaitOnAddress`, because the atomic lock of a bucket stands
for an SRW lock, on which every acquire returns (`EveryAcquireReturns`) as long as
others do not overtake for ever; and `Initialises`, because a thread whose
`RtlRunOnceComplete` was refused is still the initialiser and may be refused again and
again: it is assumed to pass acceptable arguments in the end, as the interface asks. The lock
itself lets newcomers overtake woken waiters, so a waiter can starve:
`EveryAcquireReturns` says that all acquires return, or new calls come without end.
Time-outs are not assumed to fire, except those of the pool's own threads. The condition
variable is checked for safety only.

For the pool, fairness is assumed of two groups: the pool's threads with the clock and the
kernel (workers and service threads run, callbacks return, operations complete, time passes),
and the threads inside of a call. Each group goes on as long as one of its members can; the
assumption of each single thread is stronger, and is not needed since the programs are
bounded. Nobody has to make a call or to set an event.

**Type invariants.** `TypeOK` of `SrwLock` is an invariant of its own; in the
other modules it is the first conjunct of another one (`AssertedCount`, `WaitersOnOneList`,
`RingOfWaiters`, `ListOfSleepers`, `ReferencesCounted`). Invariants of the pool are conjunctions of
named parts: `CountsAgree`, `ItemsHaveWorkers`, `NoTimerMissed`, `WaitQueueSound`.

## 4. Findings

1. `RtlTryAcquireSRWLockShared` can take the lock without Hold (line 2081): its
   retry adds a shared owner to a word that meanwhile is free. A writer then owns the
   lock beside the reader.
2. `RtlWakeAddressAll` wakes one waiter (line 1654): the loop's end test is also true
   right after the head of the ring has been removed.
3. `DeleteSynchronizationBarrier` returns before it is safe (`kernelex/synch.c` 531):
   the countdown is full before the events are swapped and signalled. A blocked thread
   then waits on a closed event.
4. Two condition-variable sleepers that time out together: the one that unlinks
   itself writes flags of an earlier attempt (line 1097) and wipes out the request of
   the other, whose second wait has no time-out.
5. `tp_object_cancel` (`threadpool.c` 1887-1911) finishes an object and wakes nobody: a
   thread in `tp_object_wait` for the callbacks that are taken away sleeps on for ever.
6. A packet of a cancelled I/O operation is answered with a callback (`threadpool.c`
   1444-1448): `skipped_count` is looked at only while the object shuts down. A packet of
   an operation that is pending is answered twice, with two callbacks: lines 1444-1448 run
   after lines 1437-1441 as well.

Each of these has a run of its own. One more happens in `thread_pool`, where `SignalsAnswered` is
stated so as to leave it open: `u.wait.handle` is compared (`threadpool.c`
2965) and never assigned, so every arming counts as a change of the handle and disarming as none
(3005). A wait that is armed for its handle once more can therefore lose a signal that the thread took
for the earlier setting: the thread sees another serial (1175) and drops it. And a wait that was
cancelled can still fire, if its thread has not yet looked at the update event.

## 5. Proofs

TLAPS proves the following for every value of the constants: any finite set of threads, any
calls, contexts, addresses, hash function, number of phases, pool objects and programs. Each
invariant was checked by TLC on the instance of the run before it was proved. Three hypotheses name
the cases in which the code really goes wrong; each is shown to be needed by a violation run. The
fourth, `NoIoAfterRelease`, leaves out programs that have I/O objects and release the pool:
`TpReleaseIoCompletion` leaves an object with operations under way to the I/O thread
(2729-2747), which may submit to the pool after it has been shut down. No run has such a program.

| theorem | states | hypothesis |
|---|---|---|
| `SrwLockProofs!TypeCorrect` | `TypeOK` | |
| `SrwLockProofs!LockExcludes`, `OneThreadOwnsLink`, `NoNodeDangles`, `NoWakeupLost`, `OwnersCounted` | `MutualExclusion`, `LinkHasOneOwner`, `NoDanglingNode`, `NoLostWakeup`, `SharedOwnersCounted` | `NoSharedTry` (finding 1) |
| `SrwLockProofs!LockImplementsRwLock` | `ImplementsRwLock`, the refinement | `NoSharedTry` |
| `RunOnceProofs!OnceIsSafe`, `DoneStaysDone`, `NoWaiterForgotten`, `OnlyUnalignedLeavesBusy` | `OneInitialiser`, `SameContextForAll`, `DoneIsFinal`, `WaitersOnOneList`, `LeftBusyOnlyUnaligned` | |
| `WaitOnAddressProofs!ListIsOneRing`, `WalkNeverLeavesList` | `RingOfWaiters`, `WalkStaysOnList` | |
| `SyncBarrierProofs!CountNeverNegative`, `NobodyReturnsEarly`, `OneReturnsTrue` | `AssertedCount`, `NoEarlyReturn`, `OneSerialThread` | |
| `SyncBarrierProofs!DeletedAfterBlockingIsSafe` | `SafeToDelete` | `DeleteAfter \subseteq {"blockOnly"}` (finding 3) |
| `ConditionVariableProofs!OneThreadOwnsLink`, `ListIsTheSleepers`, `EveryReleaseMeetsItsSleeper`, `NoRequestIsWipedOut` | `LinkHasOneOwner`, `ListOfSleepers`, `ReleaseMeetsSleeper`, `RequestsKept` | |
| `ConditionVariableProofs!SecondWaitIsSafe` | `SecondWaitIsAnswered` | `OneTimed`: one thread sleeps with a time-out (finding 4) |
| `PoolQueueProofs!TimersAreNotMissed`, `WaitQueueIsSound` | `NoTimerMissed`, `WaitQueueSound` | |
| `PoolProofs!FreedOnlyUnused`, `CountsDoAgree`, `ReferencesAreCounted` | `NothingFreedInUse`, `CountsAgree`, `ReferencesCounted` | |
| `PoolProofs!PoolImplementsWorkItems` | `ImplementsWorkItems`, the refinement | |
| `PoolProofs!ItemsDoHaveWorkers`, `SubmitsAreLive` | `ItemsHaveWorkers`, `SubmitsOnlyLive` | `NoIoAfterRelease` |

**The arguments.** None of the properties is inductive as it stands.

*Lock.* `SrwInv` has two halves. `WordInv` says what the word knows: which calls can be where
(`Flow`); Link is set exactly while one thread works on the list, and only with a list
(`LinkIsOwned`: otherwise an enqueue, which sets Link if Wait was set, could make a second
owner); Hold is set while somebody owns the lock, the shared owners are the count until a
thread waits, and after that Many or its absence tells whether there are several (`Owners`); and
what a thread's stale copy of the word still guarantees when it acts on it (`Copies`).
`ListInv` says what the nodes know. Its witnesses are ghosts: the list each node belongs to (that
of the word or that of a waker, who has cut it off), its position there, and the oldest node and
the node up to which forward links are known. Backward links lead down the positions, a walk stands on a
node of its list, a waker's list is of threads that wait, and the snapshot of the shared count is in the
node that the releases look for. The refinement maps each thread to the mode it owns the lock
in; an acquire or a release of the abstract lock happens at the interlocked operation that
changes Hold, the count or the snapshot, and all other steps stutter.

*One-time initialisation.* `OnceInv` adds that a completing thread's value is a result, or fresh for
a failed synchronous one (`StoreIsResult`); that an asynchronous initialiser never meets a free or
busy word (`AsyncInitialiser`); that what a thread saw done stays done (`DoneIsKnown`). `ListInv`
adds the lists of waiters: `WaitersOnOneList` says it of each slot that leads to a thread, and,
instead of following the slots, that no set of blocked threads is cut off from them.

*Wait on address.* `RingOfWaiters` says of a bucket that the links of its waiters are inverse to each other,
stay among them, and that no proper part of them is closed under `next`: one ring. It is inductive
with the state of each call (`InCall`) and the marks of the woken (`WokenIsMarked`).

*Barrier.* `BarrierInv` names the round `n` the barrier is in: each thread has not come to it yet, is
counted in it, or still lags in the one before; the countdown is the number of the missing, so the
thread that decrements it is one of them and the result is not negative (`AssertedCount`); the two handles, the signalled events and the places of the thread that ends the round fit `n`.

*Condition variable.* `IInv` has a local half (words, places, who is taken by whom) and a
ghost list `s` of threads (`Shape`): the links `back` lead along `s` from the word, its members are
exactly the sleepers nobody has taken, and the owner of Link walks from some block `s[j]` in front of
which only blocks were pushed that it does not know (`Snapshots`). From the newest block a known
pointer to the oldest is found before the end (`Known`), except while a timed-out thread relinks. That
a walk meets exactly the blocks of `s` is the lemma `FollowIs`, and what each walk
writes is `RelinkedIs`, `LineIs`, `WithoutAt` and `Renewed`. `SecondWaitIsSafe` adds
that a thread in its second wait has been taken, or that the owner of Link has been asked to wake everybody (`Answered`).

*Thread pool.* Four layers, each assuming those below. `BaseInv` has the types (`Shape`), the sorted timer
lists with the kernel timers they imply (`TimerInv`), the buckets of the wait queue with what their
threads hold from before a wait (`WaitInv`), and that only allocated objects are in a queue
(`QueueLinks`). `CoreInv` says of each object that its record agrees with the numbers of workers,
callers, held references and packets that are busy with it (`ObjOK`). A step changes one object and
one of these numbers, so it is enough to show each operation on a record right against the numbers
(the last part of `PoolQueueProofs`) and to say which operation a step performs
(`PoolObjectProofs`). `CountInv` adds up over all objects and workers: the references of the pool
and of the group, the busy workers and the objects of the I/O queue are the sums their assertions
take for granted. The refinement follows: each step leaves every item as it is or makes one move of
`WorkItems` (`ItemsStep`). Last, `WorkInv` has what the two remaining theorems need: nothing but a simple
callback is open once the pool is shut down (`LateInv`), what a worker saw on its last look at the lists holds until it
sleeps (`HoldInv`), and a worker that sleeps over work that is due implies a worker that is up for each
callback due (`StaffInv`); the property asks for one of them, which a worker that takes a callback would not preserve.

**Induction over data.** `Follow` and `Reached` are recursive functions; what they compute is
proved by `SetInduction`: a set of numbers that holds 0 and with each number the next is all of
`Nat`, since the complement would have a least member (`WellFoundedInduction`). Where a list can be
described without following it (rings, chains of slots), the property does so; the forms are
equivalent on finite sets of threads.

**Assumptions.** `Nil` is no thread and no context; `Threads` is finite for the lock, the barrier (not empty) and the
condition variable, whose counts need it; `Calls`, `HashBucket`, `Modes`, `DeleteAfter` have their types;
`MaxFailures`, `MaxPhases`, `Processors` are natural numbers. The sets of the pool are finite and its kinds of
objects distinct (`PoolConstants`, `KindsOfObjects`, `WaitConstants`, `IoConstants`), programs name calls and objects
that exist (`CallsOfPrograms`), times are natural numbers (`LingerNat`, `TimeIsBounded`). TLC evaluates each of them in the runs.

**Only model-checked.** Progress (`EveryAcquireReturns`, `EveryBeginReturns`, `StaleWaiterReturns`,
`AllPhasesPass`, `WorkIsDone`, `ServicesDeliver`): liveness under fairness is beyond TLAPS. The
refinement of `AddressQueues`, which maps a ring to a sequence. `NoSleepOnFinished`, which is true of programs
in which nobody cancels beside a waiter (finding 5) and memory does not run out, and `SignalsAnswered`.

## 6. Plan

Modelled in this order: lock, one-time initialisation, wait on address, barrier, condition
variable, thread pool with its queues; proved in the same order. Left:

1. Proofs of `SignalsAnswered` and, for the programs it is true of, `NoSleepOnFinished`; the refinement of `AddressQueues`.
2. A model of the pool's locks alone, for their order: a worker takes `group->cs` under
   `pool->cs` (2240, 2007), a group release takes `timerqueue.cs` or `waitqueue.cs` under
   `group->cs` (2683), and the timer and wait threads take `pool->cs` under theirs (712, 1132).
3. Waits that run in the wait thread and fire again (`RtlRegisterWait`), I/O objects in groups,
   a second I/O object that is allocated while the I/O thread ends.
4. Progress of the condition variable (a chosen sleeper returns), and the lock in both
   modes handed to the sleep.

## 7. Not modelled

* The five milliseconds of the second wait (163-165). The comment calls them an
  empirical assumption; a waker that is later stays in `NtReleaseKeyedEvent`. The model
  takes the release to arrive.
* Progress past a word left busy: a run-once context with a low bit set, given by the callback
  of `RtlRunOnceExecuteOnce`, leaves it so for ever (line 700). It happens in `run_once`, where
  `LeftBusyOnlyUnaligned` shows that nothing else does; the interface forbids such contexts.
* A single wake that chooses a waiter whose time-out has just fired is used up
  (1617-1633). The contract of the call does not promise more.
* The opening of the keyed event (209), `RtlpQueueWaitBlockToSRWLock` (748-802,
  unreachable since no block's `SRWLock` field is ever set), and the commented-out code
  at 216-575 and 2089-2439.
* Of `threadpool.c`: the default pool and its compare-and-exchange (1637-1653); the clean-up a
  callback asks for at its return, finalisation and group cancel callbacks (2100-2182);
  `RtlDllShutdownInProgress`; waits with `WT_EXECUTEINWAITTHREAD` or without
  `WT_EXECUTEONLYONCE`; I/O objects in a group; handles that cannot be duplicated (2967). The
  file is in the middle of a merge: it has a second, older `timerqueue_thread_proc` (875-963) and
  a misspelt field (`u_timer`, 2865); the models follow the newer text. The helpers of the old
  timer queues and wait handles (423-690, 833-875) are not used by the pool.
* Known of the pool from reading, and outside of what the runs cover: with windows in use a
  timer put behind the head of its list does not set the kernel timer again (2923), so that it may
  fire as late as the time merged before; an I/O object that is released
  with an operation under way goes only with a further packet (2738); without memory for a
  completion the operation is forgotten and its waiters are not woken (1429); the second
  completion of a packet is stored without room being reserved for it (1444);
  `TpCancelAsyncIoOperation` after a cancellation takes the count below zero (2466); releasing a
  pool with armed timers, or setting a timer from its callback while its group is released,
  runs into assertions (1854, 2864).
* The other components, for the reasons given in `PROJECT.json`.
