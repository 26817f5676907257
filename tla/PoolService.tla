---------------------------- MODULE PoolService ----------------------------
(* The thread pool with the three queues that feed it.  A service thread    *)
(* that submits, references or releases an object of the pool does so in    *)
(* one step with its own queue, whose lock it holds.                        *)
EXTENDS ThreadPool, TimerQueue, WaitQueue, IoQueue

CONSTANTS
    Programs,     \* what a process may do with the pool: records of calls,
                  \* callers, workers, objects, those that join the group,
                  \* and how often timers and waits are set
    Timeouts,     \* the times a timer is set to, see TpSetTimerEx
    Periods, Windows,
    Delays,       \* the time-outs of waits
    Limits        \* the numbers of threads that are asked for

ASSUME KindsOfObjects ==
    /\ Timers = {o \in Objects : Type[o] = "timer"}
    /\ Waits = {o \in Objects : Type[o] = "wait"}
    /\ Ios = {o \in Objects : Type[o] = "io"}

ASSUME CallsOfPrograms ==
    /\ Timeouts \subseteq (Kinds \X Nat) \cup {<<"zero", 0>>, <<"null", 0>>}
    /\ Periods \cup Windows \cup Delays \cup Limits \subseteq Nat
    /\ \A p \in Programs : p.callers \subseteq Callers /\ p.objects \subseteq Objects

VARIABLES
    program,      \* the program of this behaviour
    sets          \* how often a timer or a wait was set

queueVars == <<timerVars, waitVars, ioVars>>
vars == <<poolVars, queueVars, now, program, sets>>

Can(call) == call \in program.calls

(* Steps of the pool alone. *)
InPool(A) == A /\ UNCHANGED <<queueVars, now, sets>>

-----------------------------------------------------------------------------
(* Allocation and release: the pool's part and the queue's. *)

TpAllocWork(t, o, grp) ==
    /\ Type[o] = "work" /\ TpAlloc(t, o, grp)
    /\ UNCHANGED queueVars

TpAllocTimer(t, o, grp) ==
    /\ Type[o] = "timer" /\ TpAlloc(t, o, grp) /\ tp_timerqueue_lock(o)
    /\ UNCHANGED <<waitVars, ioVars>>

TpAllocWait(t, o, grp) ==
    /\ Type[o] = "wait" /\ TpAlloc(t, o, grp) /\ tp_waitqueue_lock(o)
    /\ UNCHANGED <<timerVars, ioVars>>

TpAllocIoCompletion(t, o) ==
    /\ Type[o] = "io" /\ TpAlloc(t, o, FALSE) /\ tp_ioqueue_lock(o)
    /\ UNCHANGED <<timerVars, waitVars>>

(* For the objects of S. *)
tp_object_prepare_shutdown(S) ==
    /\ tp_timerqueue_unlock(S \cap Timers)
    /\ tp_waitqueue_unlock(S \cap Waits)
    /\ UNCHANGED ioVars

(* Once the object has left its queue no service thread looks at it, so     *)
(* that the rest of the call is one step with that.                         *)
TpReleaseObject(t, o) ==
    /\ Type[o] # "io" /\ TpRelease(t, o)
    /\ tp_object_prepare_shutdown({o})

CallbackReleasesObject(w) ==
    /\ CallbackReleases(w)
    /\ tp_object_prepare_shutdown({worker[w].obj})

ReleaseGroupMembers(t, cancel_pending) ==
    /\ TpReleaseCleanupGroupMembers(t, cancel_pending)
    /\ tp_object_prepare_shutdown(MarkedSet)

-----------------------------------------------------------------------------
(* Timers and waits. *)

Sets == sets < program.sets /\ sets' = sets + 1

TpSetTimer(t, o, at, period, window) ==
    /\ IsIdle(t) /\ Usable(o) /\ Sets /\ NotInCall(o)
    /\ TpSetTimerEx(o, at, period, window)
    /\ caller' = IF at[1] # "zero" THEN caller
                 ELSE [caller EXCEPT ![t] = [Idle EXCEPT !.pc = "submit", !.obj = o]]
    /\ UNCHANGED <<pool, pools, obj, group, worker, waitVars, ioVars, now>>

(* A callback sets its own timer again. *)
CallbackSetsTimer(w, at) ==
    /\ InCallback(w)
    /\ LET o == worker[w].obj IN
       /\ Type[o] = "timer" /\ Usable(o) /\ Sets /\ at[1] \in Kinds
       /\ TpSetTimerEx(o, at, 0, 0)
    /\ UNCHANGED <<poolVars, waitVars, ioVars, now>>

(* The timer thread submits under timerqueue.cs. *)
TimerExpires ==
    /\ CsFree
    /\ submit_expired_timers(obj[ExpiredTimer].shutdown)
    /\ tp_object_submit(ExpiredTimer, obj[ExpiredTimer], pool)
    /\ UNCHANGED <<group, caller, waitVars, ioVars, now, sets>>

TimerThread ==
    \/ TimerExpires
    \/ /\ TimerThreadWaits \/ TimerThreadWakes \/ TimerThreadEnters
       /\ UNCHANGED <<poolVars, waitVars, ioVars, now, sets>>

TpSetWait(t, o, h, delay) ==
    /\ IsIdle(t) /\ Usable(o) /\ Sets
    /\ TpSetWaitEx(o, h, delay)
    /\ UNCHANGED <<poolVars, timerVars, ioVars, now>>

(* A wait object timed out, or its handle was signalled. *)
SubmitElapsed(b) ==
    /\ CsFree /\ WaitElapses(b)
    /\ tp_object_submit(ElapsedWait(b), obj[ElapsedWait(b)], pool)
    /\ UNCHANGED <<group, caller>>

SubmitSignaled(b) ==
    /\ CsFree /\ WaitFires(b)
    /\ LET o == HitObject(b) IN
       tp_object_submit(o, [obj[o] EXCEPT !.signaled = @ + 1], pool)
    /\ UNCHANGED <<group, caller>>

(* The thread keeps a reference to every object it waits for. *)
HoldObjects(b) ==
    /\ WaitThreadBlocks(b)
    /\ obj' = [o \in Objects |->
                 IF \E i \in DOMAIN bucket[b].waiting : bucket[b].waiting[i] = o
                   THEN [obj[o] EXCEPT !.refcount = @ + 1] ELSE obj[o]]
    /\ UNCHANGED <<pool, pools, group, worker, caller>>

(* It releases them in turn; the last reference destroys the object. *)
ReleaseHeld(b) ==
    /\ bucket[b].pc = "drop" /\ bucket[b].held # <<>>
    /\ LET o == LastHeld(b) IN
       IF obj[o].life = "dying"
         THEN CsFree /\ tp_object_destroy(o) /\ WaitThreadDrops(b)
       ELSE /\ obj' = [obj EXCEPT ![o] = Dropped(@, 1)]
            /\ IF obj[o].refcount = 1 THEN UNCHANGED waitVars ELSE WaitThreadDrops(b)
            /\ UNCHANGED <<pool, pools, group>>
    /\ UNCHANGED <<worker, caller>>

WaitThread(b) ==
    /\ \/ SubmitElapsed(b) \/ SubmitSignaled(b) \/ HoldObjects(b) \/ ReleaseHeld(b)
       \/ WaitThreadStep(b) /\ UNCHANGED poolVars
    /\ UNCHANGED <<timerVars, ioVars, now, sets>>

-----------------------------------------------------------------------------
(* I/O. *)

InIo(A) == A /\ UNCHANGED <<timerVars, waitVars, now, sets>>

TpStartAsyncIoOperation(t, o) ==
    /\ IsIdle(t) /\ Type[o] = "io" /\ Usable(o) /\ ~io[o].shutting_down /\ CsFree
    /\ Starts(o)
    /\ obj' = [obj EXCEPT ![o].ops = @ + 1]
    /\ UNCHANGED <<pool, pools, group, worker, caller>>

(* The operation could not be started after all. *)
TpCancelAsyncIoOperation(t, o) ==
    /\ IsIdle(t) /\ Type[o] = "io" /\ Usable(o) /\ obj[o].ops > 0 /\ CsFree
    /\ TakesBack(o)
    /\ LET ob == [obj[o] EXCEPT !.ops = @ - 1] IN
       /\ obj' = [obj EXCEPT ![o] = ob]
       /\ WakeWaiters(o, ob, {"sleep", "gsleep"})
    /\ UNCHANGED <<pool, pools, group, worker>>

(* With an operation under way the object is left to the I/O thread. *)
TpReleaseIoCompletion(t, o) ==
    /\ IsIdle(t) /\ Type[o] = "io" /\ Usable(o) /\ NotInCall(o) /\ CsFree
    /\ ShutsDown(o)
    /\ IF obj[o].ops = 0 /\ obj[o].skipped = 0
         THEN TpRelease(t, o) /\ tp_ioqueue_unlock
         ELSE /\ obj' = [obj EXCEPT ![o].owner = "none"]
              /\ UNCHANGED <<pool, pools, group, worker, caller, ioq, port>>

(* The I/O thread has a packet of o, and ioqueue.cs. *)
HasPacket(o) == ioq.pc = "packet" /\ ioq.key = o /\ CsFree
Closing(o) == (obj[o].shutdown \/ io[o].shutting_down) /\ obj[o].ops = 0

(* A packet of an operation that was cancelled, not the last one. *)
IoSkips(o) ==
    /\ HasPacket(o) /\ Closing(o) /\ obj[o].skipped > 1
    /\ obj' = [obj EXCEPT ![o].skipped = @ - 1]
    /\ IoGoto("get")
    /\ UNCHANGED <<pool, pools, group, worker, caller>>

(* The last one: the object goes. *)
IoReleases(o) ==
    /\ HasPacket(o) /\ Closing(o) /\ obj[o].skipped <= 1
    /\ obj' = [obj EXCEPT ![o] = [Closed(@, 1, @.owner) EXCEPT !.skipped = 0]]
    /\ ioq' = [ioq EXCEPT !.objcount = @ - 1, !.pc = IF obj[o].refcount = 1 THEN "destroy" ELSE "tail"]
    /\ UNCHANGED <<pool, pools, group, worker, caller, port, io>>

IoDestroys(o) ==
    /\ ioq.pc = "destroy" /\ ioq.key = o /\ CsFree
    /\ tp_object_destroy(o) /\ IoGoto("tail")
    /\ UNCHANGED <<worker, caller>>

(* The completion is stored and a callback submitted for it. *)
Stores(o, ob) == [ob EXCEPT !.completions = @ + 1]

(* An operation is under way: its completion is submitted, and pool->cs     *)
(* kept until it has been submitted a second time.                          *)
IoSubmits(o) ==
    /\ HasPacket(o) /\ obj[o].ops > 0
    /\ tp_object_submit(o, Stores(o, [obj[o] EXCEPT !.ops = @ - 1]), [pool EXCEPT !.cs = "io"])
    /\ IoGoto("again")
    /\ UNCHANGED <<group, caller>>

(* None is, or it was submitted once. *)
IoSubmitsAgain(o) ==
    /\ \/ ioq.pc = "again" /\ ioq.key = o
       \/ HasPacket(o) /\ obj[o].ops = 0 /\ ~Closing(o)
    /\ tp_object_submit(o, Stores(o, obj[o]), [pool EXCEPT !.cs = Nil])
    /\ IoGoto("tail")
    /\ UNCHANGED <<group, caller>>

(* No memory for the completion: the operation is forgotten. *)
IoLacksMemory(o) ==
    /\ Can("nomem") /\ HasPacket(o) /\ obj[o].ops > 0
    /\ obj' = [obj EXCEPT ![o].ops = @ - 1]
    /\ IoGoto("get")
    /\ UNCHANGED <<pool, pools, group, worker, caller>>

IoThread ==
    InIo(\/ IoThreadStep /\ UNCHANGED poolVars
         \/ \E o \in Ios : \/ IoSkips(o) \/ IoReleases(o) \/ IoDestroys(o) \/ IoSubmits(o)
                           \/ IoSubmitsAgain(o) \/ IoLacksMemory(o))

IoCompletes(o) == InIo(Completes(o) /\ UNCHANGED poolVars)

-----------------------------------------------------------------------------
(* A pass over a queue is made with the time at its start. *)
Tick ==
    /\ now < MaxTime /\ Can("tick")
    /\ TimerCsFree /\ \A b \in Buckets : bucket[b].pc # "scan"
    /\ now' = now + 1
    /\ UNCHANGED <<poolVars, queueVars, sets>>

WorkerMoves(w) == InPool(WorkerStep(w))
CallerMoves(t) == InPool(CallerStep(t))

CallbackCalls(w) ==
    \/ Can("disassociate") /\ InPool(TpDisassociateCallback(w))
    \/ Can("long") /\ InPool(TpCallbackMayRunLong(w))
    \/ Can("repost") /\ InPool(CallbackPosts(w))
    \/ Can("selfrelease") /\ CallbackReleasesObject(w) /\ UNCHANGED <<now, sets>>
    \/ Can("rearm") /\ \E at \in Timeouts : CallbackSetsTimer(w, at)

(* Objects of a type are alike before they are allocated. *)
Fresh(type) == CHOOSE o \in program.objects : obj[o].life = "none" /\ Type[o] = type

(* The windows the program gives to timers; TpSetTimer gives none. *)
UsedWindows == {0} \cup (IF Can("window") THEN Windows ELSE {})

ObjectCalls(t, o) ==
    \/ /\ obj[o].life = "none" /\ o = Fresh(Type[o])
       /\ LET grp == o \in program.grouped IN
          TpAllocWork(t, o, grp) \/ TpAllocTimer(t, o, grp) \/ TpAllocWait(t, o, grp)
            \/ TpAllocIoCompletion(t, o)
       /\ UNCHANGED <<now, sets>>
    \/ InPool(TpSimpleTryPost(t, o, o \in program.grouped))
    \/ Can("post") /\ InPool(TpPostWork(t, o))
    \/ Can("wait") /\ InPool(TpWaitFor(t, o, FALSE))
    \/ Can("cancel") /\ InPool(TpWaitFor(t, o, TRUE))
    \/ Can("release") /\ TpReleaseObject(t, o) /\ UNCHANGED <<now, sets>>
    \/ /\ o \in Timers
       /\ \E at \in Timeouts, p \in Periods, n \in UsedWindows :
            TpSetTimer(t, o, at, p, n)
    \/ /\ o \in Waits
       /\ \/ TpSetWait(t, o, NoBucket, Never)
          \/ \E h \in Handles, d \in (IF Can("tick") THEN Delays ELSE {Never}) : TpSetWait(t, o, h, d)
    \/ InIo(\/ TpStartAsyncIoOperation(t, o)
            \/ Can("cancelio") /\ TpCancelAsyncIoOperation(t, o)
            \/ Can("release") /\ TpReleaseIoCompletion(t, o))

PoolCalls(t) ==
    \/ Can("allocfails") /\ InPool(TpAllocFails(t))
    \/ Can("releasepool") /\ InPool(TpReleasePool(t))
    \/ Can("limits") /\ \E n \in Limits : InPool(TpSetPoolMaxThreads(t, n) \/ TpSetPoolMinThreads(t, n))
    \/ Can("group") /\ \/ InPool(TpReleaseCleanupGroup(t))
                       \/ /\ \E c \in BOOLEAN : ReleaseGroupMembers(t, c)
                          /\ UNCHANGED <<now, sets>>

Signal(h) == Can("signal") /\ SetEvent(h) /\ UNCHANGED <<poolVars, timerVars, ioVars, now, sets>>

ServiceMoves ==
    \/ TimerThread \/ IoThread \/ Tick
    \/ \E b \in Buckets : WaitThread(b)
    \/ \E o \in Ios : IoCompletes(o)

Init == /\ PoolInit /\ TimerInit /\ WaitInit /\ IoInit /\ now = 0
        /\ program \in Programs /\ sets = 0
        /\ pool.late = IF Can("idle") THEN 0 ELSE MaxLate
        /\ pool.max_workers = program.workers

Next ==
    /\ UNCHANGED program
    /\ \/ \E w \in Workers : WorkerMoves(w) \/ CallbackCalls(w)
       \/ \E t \in program.callers :
            \/ CallerMoves(t) \/ PoolCalls(t)
            \/ \E o \in program.objects : ObjectCalls(t, o)
       \/ ServiceMoves
       \/ \E h \in Handles : Signal(h)

Spec == Init /\ [][Next]_vars

(* As long as a thread of the pool, the kernel or the clock can go on, one  *)
(* of them does, and likewise of the threads inside of a call: callbacks    *)
(* return, operations complete, time passes.  Nobody has to call or to set  *)
(* an event.                                                                *)
FairSpec ==
    /\ Spec
    /\ WF_vars(UNCHANGED program /\ (ServiceMoves \/ \E w \in Workers : WorkerMoves(w)))
    /\ WF_vars(UNCHANGED program /\ \E t \in Callers : CallerMoves(t))

-----------------------------------------------------------------------------
(* Types: of the whole. *)
TypeOK == PoolTypeOK /\ TimerTypeOK /\ WaitTypeOK /\ IoTypeOK /\ sets \in Nat

(* No armed timer is forgotten, whoever sets, releases and allocates timers *)
(* between the steps of the thread: both lists are sorted and hold exactly  *)
(* the armed timers, the kernel timers are set for them, and one that is    *)
(* set without a window is late only in a program that uses windows, and by *)
(* one of them at most.                                                     *)
NoTimerMissed ==
    TimerListsSound /\ WakesInTime(UsedWindows) /\ WindowsKept /\ TimerThreadServes

One(p) == IF p THEN 1 ELSE 0

(* The references there are to o: the program's, or the one TpReleaseIo-    *)
(* Completion left to the I/O thread; one for each queued and each running  *)
(* callback; that of TpSimpleTryPost; those of group releases; and those of *)
(* the threads that wait for o.                                             *)
References(o) ==
    One(obj[o].owner # "none" /\ ~obj[o].shutdown)
      + One(o \in Ios /\ obj[o].owner = "none" /\ ~obj[o].shutdown)
      + obj[o].pending + Cardinality({w \in Running : worker[w].obj = o})
      + Cardinality({t \in Callers : Type[o] = "simple" /\ caller[t].obj = o
                                       /\ caller[t].pc \in {"submit", "join", "release"}})
      + Cardinality({t \in Callers : \E i \in DOMAIN caller[t].list : caller[t].list[i] = o})
      + Cardinality({h \in Buckets \X (1..MaxInBucket) :
                       h[2] <= Len(bucket[h[1]].held) /\ bucket[h[1]].held[h[2]].obj = o})

(* The reference count of a live object is the number of those who may      *)
(* still use it, over any mix of callbacks, cancellations, group releases   *)
(* and service threads: it is never freed under one, and never leaked.      *)
ReferencesCounted ==
    /\ TypeOK
    /\ \A o \in Objects : obj[o].life = "live" => obj[o].refcount = References(o)

(* The assertions of tp_object_submit, which are made outside of the lock:  *)
(* whoever submits, a service thread included, finds the object alive and   *)
(* neither it nor the pool shut down.                                       *)
SubmitsOnlyLive ==
    [][\A o \in Objects : obj'[o].pending > obj[o].pending =>
         obj[o].life = "live" /\ ~obj[o].shutdown /\ pool.life = "live" /\ ~pool.shutdown]_vars

(* A cancelled operation is not answered: the I/O thread starts to submit   *)
(* callbacks for a packet only if an operation is still pending.            *)
CancelledStaysCancelled ==
    [][\A o \in Ios : HasPacket(o) /\ obj'[o].pending > obj[o].pending => obj[o].ops > 0]_vars

Overdue(o) == timer[o].pending /\ timer[o].timeout <= now
Signalled(h) == event[h].set /\ \E o \in Waits : wait[o].pending /\ wait[o].duped = h

(* What the thread of a bucket makes of a signal it has taken: a callback,  *)
(* unless a wait of the bucket was set or released since it blocked, of     *)
(* which the update event will tell it; and no callback for a handle that   *)
(* TpSetWait has replaced by another one meanwhile.                         *)
SignalsAnswered ==
    [][\A b \in Buckets : bucket[b].pc = "back" /\ bucket[b].hit > 0 /\ bucket'[b].pc = "drop" =>
         LET held == bucket[b].held[bucket[b].hit]
         IN IF obj'[held.obj].signaled > obj[held.obj].signaled
              THEN wait[held.obj].duped \in {held.handle, NoBucket}
              ELSE bucket[b].update]_vars

(* A timer that is due does not stay armed, and the signal of a handle that *)
(* a wait is armed for does not stay on it: the service threads take them,  *)
(* time and again, until nobody sets timers and events any more.  What the  *)
(* thread makes of a signal is SignalsAnswered.                             *)
ServicesDeliver ==
    []<>((\A o \in Timers : ~Overdue(o)) /\ (\A h \in Handles : ~Signalled(h)))
=============================================================================
