----------------------------- MODULE ThreadPool -----------------------------
(* The object-oriented thread pool of ntext: one pool, its worker threads,  *)
(* the objects bound to it, one cleanup group and the threads that call it. *)
(* A region under pool->cs or group->cs is one step; pool.cs names a worker *)
(* that keeps pool->cs over several steps.  A condition variable is the set *)
(* of the threads whose pc says that they sleep on it.                      *)
EXTENDS Lists, FiniteSets

CONSTANTS
    Objects,     \* threadpool_object's the process may allocate
    Callers,     \* threads that call the API from outside of a callback
    Workers,     \* identities of worker threads: bounds the threads alive at once
    Nil,         \* no object, no holder
    Type,        \* Type[o]: the TP_OBJECT_TYPE of o
    Priority,    \* Priority[o]: the list of pool->pools that o is queued on
    MaxWorkers,  \* pool->max_workers of a new pool (500 in the code)
    MaxPosts,    \* bound on the calls of TpPostWork for one object
    MaxLate      \* bound on the time-outs after which a worker just sleeps again

ASSUME PoolConstants ==
    /\ IsFiniteSet(Objects) /\ IsFiniteSet(Callers) /\ IsFiniteSet(Workers)
    /\ Nil \notin Objects \cup Workers \cup {"io"} /\ "io" \notin Workers
    /\ Type \in [Objects -> {"simple", "work", "timer", "wait", "io"}]
    /\ Priority \in [Objects -> 1..3]
    /\ MaxWorkers \in Nat \ {0}
    /\ MaxPosts \in Nat /\ MaxLate \in Nat

VARIABLES
    pool,      \* struct threadpool, less its lists
    pools,     \* pool->pools: the queued objects, one list per priority
    obj,       \* struct threadpool_object
    group,     \* struct threadpool_group
    worker,    \* the worker threads, with their threadpool_instance
    caller     \* where each calling thread is

poolVars == <<pool, pools, obj, group, worker, caller>>

-----------------------------------------------------------------------------
(* Objects.  life and owner are not in the code: whether the memory is      *)
(* allocated, and who still has to release the object (the program, or a    *)
(* TpReleaseCleanupGroupMembers on its way).  posts counts TpPostWork.      *)

NoObject == [life |-> "none", owner |-> "none", refcount |-> 0, shutdown |-> FALSE,
             grouped |-> FALSE, member |-> FALSE, pending |-> 0, running |-> 0,
             associated |-> 0, signaled |-> 0, ops |-> 0, skipped |-> 0,
             completions |-> 0, posts |-> 0]

tp_object_initialize(o, grp) ==
    [NoObject EXCEPT !.life = "live", !.refcount = 1, !.grouped = grp,
                     !.member = grp /\ Type[o] # "simple",
                     !.owner = IF Type[o] = "simple" THEN "none" ELSE "user"]

object_is_finished(ob, grp) ==
    /\ ob.pending = 0 /\ ob.ops = 0
    /\ IF grp THEN ob.running = 0 ELSE ob.associated = 0

(* n references to an object less: with the last one it is dying. *)
Dropped(ob, n) ==
    [ob EXCEPT !.refcount = @ - n, !.life = IF ob.refcount = n THEN "dying" ELSE @]

(* The object is marked for shutdown, with n references less. *)
Closed(ob, n, owner) == [Dropped(ob, n) EXCEPT !.shutdown = TRUE, !.owner = owner]

(* Fault: one reference is dropped, however many callbacks were pending. *)
CancelDropsOne(o) ==
    /\ obj' = [obj EXCEPT ![o] = [(IF @.pending = 0 THEN @ ELSE Dropped(@, 1))
                                    EXCEPT !.pending = 0, !.signaled = 0, !.ops = 0]]
    /\ pools' = [pools EXCEPT ![Priority[o]] = Without(@, {o})]

(* Fault: one reference too many is dropped. *)
CancelDropsOwn(o) ==
    /\ obj' = [obj EXCEPT ![o] = [Dropped(@, @.pending + 1)
                                    EXCEPT !.pending = 0, !.signaled = 0, !.ops = 0]]
    /\ pools' = [pools EXCEPT ![Priority[o]] = Without(@, {o})]

(* The callbacks of an object are forgotten; the operations under way too,  *)
(* but for the packets that they will send.                                 *)
Forgotten(ob) ==
    [Dropped(ob, ob.pending) EXCEPT !.pending = 0, !.signaled = 0, !.skipped = @ + ob.ops, !.ops = 0]

(* The references go after pool->cs is left; the caller's own keeps the     *)
(* object meanwhile.                                                        *)
tp_object_cancel(o) ==
    /\ obj' = [obj EXCEPT ![o] = Forgotten(@)]
    /\ pools' = [pools EXCEPT ![Priority[o]] = Without(@, {o})]

(* Fault: the events are not signalled. *)
WakeNobody(o, ob, events) == UNCHANGED caller

(* Wakes the callers that sleep on the given events of o, if ob, which o   *)
(* has become, is finished in their sense.                                  *)
WakeWaiters(o, ob, events) ==
    caller' = [t \in Callers |->
                 LET c == caller[t] IN
                 IF c.obj = o /\ c.pc \in events /\ object_is_finished(ob, c.pc = "gsleep")
                   THEN [c EXCEPT !.pc = IF @ = "gsleep" THEN "gwait" ELSE "wait"]
                   ELSE c]

-----------------------------------------------------------------------------
(* The pool. *)

CsFree == pool.cs = Nil
CsFreeFor(w) == pool.cs \in {Nil, w}

NoWorker == [pc |-> "none", obj |-> Nil, associated |-> FALSE, may_run_long |-> FALSE]

tp_threadpool_alloc ==
    [life |-> "live", cs |-> Nil, refcount |-> 1, objcount |-> 0, shutdown |-> FALSE,
     max_workers |-> MaxWorkers, min_workers |-> 0, num_workers |-> 0,
     num_busy_workers |-> 0, late |-> 0]

tp_group_alloc == [life |-> "live", refcount |-> 1, shutdown |-> FALSE, members |-> <<>>]

(* Fault: the count before the decrement is looked at. *)
ReleaseTooLate(p) ==
    [p EXCEPT !.refcount = @ - 1, !.life = IF p.refcount = 0 THEN "gone" ELSE @]

tp_threadpool_release(p) ==
    [p EXCEPT !.refcount = @ - 1, !.life = IF p.refcount = 1 THEN "gone" ELSE @]

tp_group_release(g) ==
    [g EXCEPT !.refcount = @ - 1, !.life = IF g.refcount = 1 THEN "gone" ELSE @]

Spare == {w \in Workers : worker[w].pc = "none"}
NewWorker == CHOOSE w \in Spare : TRUE

(* The thread that is created takes pool->cs first and looks for items. *)
tp_new_worker_thread(p) ==
    /\ Spare # {}
    /\ worker' = [worker EXCEPT ![NewWorker] = [NoWorker EXCEPT !.pc = "run"]]
    /\ pool' = [p EXCEPT !.refcount = @ + 1, !.num_workers = @ + 1]

Sleepers == {w \in Workers : worker[w].pc = "asleep"}

(* Fault: no sleeping worker is woken. *)
WakeNoWorker == UNCHANGED worker

RtlWakeConditionVariable ==
    IF Sleepers = {} THEN UNCHANGED worker
    ELSE \E w \in Sleepers : worker' = [worker EXCEPT ![w].pc = "run"]

tp_threadpool_lock ==
    LET locked == [pool EXCEPT !.refcount = @ + 1, !.objcount = @ + 1] IN
    /\ CsFree /\ pool.life = "live"
    /\ IF pool.num_workers > 0 THEN pool' = locked /\ UNCHANGED worker
                               ELSE tp_new_worker_thread(locked)

(* Fault: a queued item does not count. *)
CountNothing(p, queued) == p

(* An item that is queued counts as a busy worker. *)
tp_object_prio_queue(p, queued) ==
    [p EXCEPT !.num_busy_workers = @ + (IF queued THEN 1 ELSE 0)]

(* ob and p are what the object and the pool are when pool->cs is taken.  A *)
(* thread that cannot be created leaves the item to the workers there are.  *)
tp_object_submit(o, ob, p) ==
    LET first == ob.pending = 0
        queued == tp_object_prio_queue(p, first)
    IN /\ obj' = [obj EXCEPT ![o] = [ob EXCEPT !.refcount = @ + 1, !.pending = @ + 1]]
       /\ pools' = IF first THEN [pools EXCEPT ![Priority[o]] = Append(@, o)] ELSE pools
       /\ \/ /\ p.num_busy_workers >= p.num_workers /\ p.num_workers < p.max_workers
             /\ tp_new_worker_thread(queued)
          \/ pool' = queued /\ RtlWakeConditionVariable

(* What tp_object_release does after the last reference is gone. *)
tp_object_destroy(o) ==
    /\ obj' = [obj EXCEPT ![o] = [NoObject EXCEPT !.life = "gone", !.shutdown = obj[o].shutdown,
                                                  !.grouped = obj[o].grouped]]
    /\ group' = IF ~obj[o].grouped THEN group
                ELSE tp_group_release(IF obj[o].member
                                        THEN [group EXCEPT !.members = Without(@, {o})]
                                        ELSE group)
    /\ pool' = tp_threadpool_release([pool EXCEPT !.objcount = @ - 1])
    /\ UNCHANGED pools

-----------------------------------------------------------------------------
(* threadpool_worker_proc *)

Waiting == \E p \in 1..3 : pools[p] # <<>>
FirstList == CHOOSE p \in 1..3 : pools[p] # <<>> /\ \A q \in 1..(p - 1) : pools[q] = <<>>
threadpool_get_next_item == Head(pools[FirstList])

(* Fault: what runs stays pending. *)
ExecuteKeepsPending(o) == [obj EXCEPT ![o].running = @ + 1, ![o].associated = @ + 1]

(* The first half of tp_object_execute, up to the callback. *)
tp_object_execute(o) ==
    [obj EXCEPT ![o].pending = @ - 1, ![o].running = @ + 1, ![o].associated = @ + 1,
                ![o].signaled = IF @ > 0 THEN @ - 1 ELSE 0,
                ![o].completions = IF Type[o] = "io" THEN @ - 1 ELSE @]

WorkerTake(w) ==
    /\ worker[w].pc = "run" /\ CsFreeFor(w) /\ Waiting
    /\ LET o == threadpool_get_next_item
           again == obj[o].pending > 1
           rest == [pools EXCEPT ![Priority[o]] = Tail(@)]
       IN /\ pools' = IF again THEN [rest EXCEPT ![Priority[o]] = Append(@, o)] ELSE rest
          /\ pool' = tp_object_prio_queue([pool EXCEPT !.cs = Nil], again)
          /\ obj' = tp_object_execute(o)
          /\ worker' = [worker EXCEPT ![w] = [NoWorker EXCEPT !.pc = "callback", !.obj = o,
                                                              !.associated = TRUE]]
    /\ UNCHANGED <<group, caller>>

(* The callback returns: the second half of tp_object_execute, and the     *)
(* worker's own reference.  From here to the next callback or sleep the    *)
(* worker keeps pool->cs.                                                   *)
WorkerReturn(w) ==
    /\ worker[w].pc = "callback" /\ CsFree
    /\ LET o == worker[w].obj
           ob == [obj[o] EXCEPT !.running = @ - 1,
                                !.associated = @ - (IF worker[w].associated THEN 1 ELSE 0),
                                !.shutdown = @ \/ Type[o] = "simple"]
           last == ob.refcount = 1
       IN /\ obj' = [obj EXCEPT ![o] = Dropped(ob, 1)]
          /\ WakeWaiters(o, ob, {"gsleep"} \cup (IF worker[w].associated THEN {"sleep"} ELSE {}))
          /\ pool' = [pool EXCEPT !.num_busy_workers = @ - 1, !.cs = w]
          /\ worker' = [worker EXCEPT ![w] =
                          IF last THEN [NoWorker EXCEPT !.pc = "destroy", !.obj = o]
                                  ELSE [NoWorker EXCEPT !.pc = "run"]]
    /\ UNCHANGED <<pools, group>>

WorkerDestroy(w) ==
    /\ worker[w].pc = "destroy"
    /\ tp_object_destroy(worker[w].obj)
    /\ worker' = [worker EXCEPT ![w] = [NoWorker EXCEPT !.pc = "run"]]
    /\ UNCHANGED caller

(* TpReleasePool does not take pool->cs: a worker that saw no shutdown may  *)
(* not be asleep yet when it comes.                                         *)
WorkerCheck(w) ==
    /\ worker[w].pc = "run" /\ CsFreeFor(w) /\ ~Waiting
    /\ IF pool.shutdown
         THEN /\ pool' = [pool EXCEPT !.num_workers = @ - 1, !.cs = Nil]
              /\ worker' = [worker EXCEPT ![w].pc = "leave"]
         ELSE /\ pool' = [pool EXCEPT !.cs = w]
              /\ worker' = [worker EXCEPT ![w].pc = "check"]
    /\ UNCHANGED <<pools, obj, group, caller>>

WorkerSleep(w) ==
    /\ worker[w].pc = "check"
    /\ pool' = [pool EXCEPT !.cs = Nil]
    /\ worker' = [worker EXCEPT ![w].pc = "asleep"]
    /\ UNCHANGED <<pools, obj, group, caller>>

(* The five seconds are over; pool->cs is not taken again yet.  late counts *)
(* the time-outs that change nothing.                                       *)
WorkerTimeout(w) ==
    /\ worker[w].pc = "asleep"
    /\ pool.late < MaxLate \/ pool.shutdown
    /\ worker' = [worker EXCEPT ![w].pc = "timedout"]
    /\ UNCHANGED <<pool, pools, obj, group, caller>>

MayTerminate ==
    /\ ~Waiting
    /\ \/ pool.num_workers > (IF pool.min_workers > 1 THEN pool.min_workers ELSE 1)
       \/ pool.min_workers = 0 /\ pool.objcount = 0

WorkerTimedOut(w) ==
    /\ worker[w].pc = "timedout" /\ CsFree
    /\ IF MayTerminate
         THEN /\ pool' = [pool EXCEPT !.num_workers = @ - 1]
              /\ worker' = [worker EXCEPT ![w].pc = "leave"]
         ELSE /\ pool' = [pool EXCEPT !.cs = w, !.late = IF @ < MaxLate THEN @ + 1 ELSE @]
              /\ worker' = [worker EXCEPT ![w].pc = "run"]
    /\ UNCHANGED <<pools, obj, group, caller>>

WorkerLeave(w) ==
    /\ worker[w].pc = "leave"
    /\ pool' = tp_threadpool_release(pool)
    /\ worker' = [worker EXCEPT ![w] = NoWorker]
    /\ UNCHANGED <<pools, obj, group, caller>>

-----------------------------------------------------------------------------
(* What a callback may call on its instance and on its own object. *)

InCallback(w) == worker[w].pc = "callback"

(* The program may still use o; no call is under way for it. *)
Usable(o) == obj[o].owner = "user" /\ ~obj[o].shutdown
NotInCall(o) ==
    \A t \in Callers : caller[t].pc \in {"wait", "sleep", "submit"} => caller[t].obj # o

TpDisassociateCallback(w) ==
    /\ InCallback(w) /\ worker[w].associated /\ CsFree
    /\ LET o == worker[w].obj
           ob == [obj[o] EXCEPT !.associated = @ - 1]
       IN /\ obj' = [obj EXCEPT ![o] = ob]
          /\ WakeWaiters(o, ob, {"sleep"})
    /\ worker' = [worker EXCEPT ![w].associated = FALSE]
    /\ UNCHANGED <<pool, pools, group>>

(* A worker is started for one that may run long if all are busy, the limit *)
(* allows it and the thread can be created.                                 *)
TpCallbackMayRunLong(w) ==
    /\ InCallback(w) /\ ~worker[w].may_run_long /\ CsFree
    /\ \/ /\ pool.num_busy_workers >= pool.num_workers /\ pool.num_workers < pool.max_workers
          /\ Spare # {}
          /\ worker' = [worker EXCEPT ![NewWorker] = [NoWorker EXCEPT !.pc = "run"],
                                      ![w].may_run_long = TRUE]
          /\ pool' = [pool EXCEPT !.refcount = @ + 1, !.num_workers = @ + 1]
       \/ /\ worker' = [worker EXCEPT ![w].may_run_long = TRUE]
          /\ UNCHANGED pool
    /\ UNCHANGED <<pools, obj, group, caller>>

Counted(o) == [obj[o] EXCEPT !.posts = @ + 1]

(* A callback posts its own work object again, as long as nobody released it. *)
CallbackPosts(w) ==
    /\ InCallback(w) /\ Type[worker[w].obj] = "work"
    /\ LET o == worker[w].obj IN
       /\ ~obj[o].shutdown /\ obj[o].posts < MaxPosts /\ CsFree
       /\ tp_object_submit(o, Counted(o), pool)
    /\ UNCHANGED <<group, caller>>

(* A callback releases its own object, also while the group waits for it. *)
CallbackReleases(w) ==
    /\ InCallback(w)
    /\ LET o == worker[w].obj IN
       /\ Type[o] # "io" /\ obj[o].owner # "none" /\ ~obj[o].shutdown
       /\ NotInCall(o)
       /\ obj' = [obj EXCEPT ![o] = Closed(@, 1, IF @.owner = "user" THEN "none" ELSE @.owner)]
    /\ UNCHANGED <<pool, pools, group, worker, caller>>

-----------------------------------------------------------------------------
(* The calls.  pc "idle" is outside of the API.                             *)

Idle == [pc |-> "idle", obj |-> Nil, list |-> <<>>, todo |-> <<>>]

Goto(t, c) == caller' = [caller EXCEPT ![t] = c]

IsIdle(t) == caller[t].pc = "idle"

(* TpAllocWork, and what TpAllocTimer, TpAllocWait and TpAllocIoCompletion  *)
(* do besides the lock on their queue.                                      *)
TpAlloc(t, o, grp) ==
    /\ IsIdle(t) /\ obj[o].life = "none" /\ Type[o] # "simple" /\ ~pool.shutdown
    /\ grp => group.life = "live" /\ ~group.shutdown
    /\ tp_threadpool_lock
    /\ obj' = [obj EXCEPT ![o] = tp_object_initialize(o, grp)]
    /\ group' = IF grp THEN [group EXCEPT !.refcount = @ + 1, !.members = Append(@, o)]
                       ELSE group
    /\ UNCHANGED <<pools, caller>>

(* tp_threadpool_lock and tp_threadpool_unlock, when the queue's lock failed:*)
(* a worker may have been started.                                          *)
TpAllocFails(t) ==
    /\ IsIdle(t) /\ ~pool.shutdown /\ CsFree /\ pool.num_workers = 0
    /\ tp_new_worker_thread(pool)
    /\ UNCHANGED <<pools, obj, group, caller>>

(* TpSimpleTryPost: the object is submitted before it joins the group, and  *)
(* the reference of the call keeps it until then.                           *)
TpSimpleTryPost(t, o, grp) ==
    /\ IsIdle(t) /\ obj[o].life = "none" /\ Type[o] = "simple" /\ ~pool.shutdown
    /\ grp => group.life = "live" /\ ~group.shutdown
    /\ tp_threadpool_lock
    /\ obj' = [obj EXCEPT ![o] = tp_object_initialize(o, grp)]
    /\ Goto(t, [Idle EXCEPT !.pc = "submit", !.obj = o])
    /\ UNCHANGED <<pools, group>>

(* The submission of a simple object, and of a timer that is set to zero. *)
CallerSubmit(t) ==
    /\ caller[t].pc = "submit" /\ CsFree
    /\ LET o == caller[t].obj IN
       /\ tp_object_submit(o, obj[o], pool)
       /\ Goto(t, IF Type[o] # "simple" THEN Idle
                  ELSE [caller[t] EXCEPT !.pc = IF obj[o].grouped THEN "join" ELSE "release"])
    /\ UNCHANGED group

SimpleJoin(t) ==
    /\ caller[t].pc = "join"
    /\ group' = [group EXCEPT !.refcount = @ + 1, !.members = Append(@, caller[t].obj)]
    /\ obj' = [obj EXCEPT ![caller[t].obj].member = TRUE]
    /\ Goto(t, [caller[t] EXCEPT !.pc = "release"])
    /\ UNCHANGED <<pool, pools, worker>>

SimpleRelease(t) ==
    /\ caller[t].pc = "release"
    /\ LET o == caller[t].obj IN
       /\ obj' = [obj EXCEPT ![o] = Dropped(@, 1)]
       /\ Goto(t, IF obj[o].refcount = 1 THEN [caller[t] EXCEPT !.pc = "destroy"] ELSE Idle)
    /\ UNCHANGED <<pool, pools, group, worker>>

CallerDestroy(t) ==
    /\ caller[t].pc = "destroy" /\ CsFree
    /\ tp_object_destroy(caller[t].obj)
    /\ Goto(t, [caller[t] EXCEPT !.obj = Nil,
                  !.pc = IF caller[t].list = <<>> THEN "idle" ELSE "gwait"])
    /\ UNCHANGED worker

TpPostWork(t, o) ==
    /\ IsIdle(t) /\ Type[o] = "work" /\ Usable(o) /\ obj[o].posts < MaxPosts /\ CsFree
    /\ tp_object_submit(o, Counted(o), pool)
    /\ UNCHANGED <<group, caller>>

(* TpWaitForWork, -Timer, -Wait, -IoCompletion. *)
TpWaitFor(t, o, cancel_pending) ==
    /\ IsIdle(t) /\ Usable(o) /\ CsFree
    /\ IF cancel_pending THEN tp_object_cancel(o) ELSE UNCHANGED <<obj, pools>>
    /\ Goto(t, [Idle EXCEPT !.pc = "wait", !.obj = o])
    /\ UNCHANGED <<pool, group, worker>>

tp_object_wait(t) ==
    /\ caller[t].pc = "wait" /\ CsFree
    /\ Goto(t, IF object_is_finished(obj[caller[t].obj], FALSE) THEN Idle
               ELSE [caller[t] EXCEPT !.pc = "sleep"])
    /\ UNCHANGED <<pool, pools, obj, group, worker>>

(* TpReleaseWork, and TpReleaseTimer and TpReleaseWait besides their queue. *)
TpRelease(t, o) ==
    /\ IsIdle(t) /\ Usable(o) /\ NotInCall(o)
    /\ obj' = [obj EXCEPT ![o] = Closed(@, 1, "none")]
    /\ Goto(t, IF obj[o].refcount = 1 THEN [Idle EXCEPT !.pc = "destroy", !.obj = o]
                                      ELSE caller[t])
    /\ UNCHANGED <<pool, pools, group, worker>>

TpReleasePool(t) ==
    /\ IsIdle(t) /\ pool.life = "live" /\ ~pool.shutdown
    /\ \A o \in Objects : obj[o].owner = "none"
    /\ \A u \in Callers : caller[u].pc # "submit"
    /\ pool' = tp_threadpool_release([pool EXCEPT !.shutdown = TRUE])
    /\ worker' = [w \in Workers |-> IF w \in Sleepers THEN [worker[w] EXCEPT !.pc = "run"]
                                                      ELSE worker[w]]
    /\ UNCHANGED <<pools, obj, group, caller>>

TpSetPoolMaxThreads(t, maximum) ==
    /\ IsIdle(t) /\ CsFree /\ pool.life = "live" /\ ~pool.shutdown
    /\ LET m == IF maximum > 1 THEN maximum ELSE 1 IN
       pool' = [pool EXCEPT !.max_workers = m, !.min_workers = IF @ < m THEN @ ELSE m]
    /\ UNCHANGED <<pools, obj, group, worker, caller>>

(* S is the threads that could be created; the limits change only if they   *)
(* are enough.                                                              *)
TpSetPoolMinThreads(t, minimum) ==
    /\ IsIdle(t) /\ CsFree /\ pool.life = "live" /\ ~pool.shutdown
    /\ \E S \in SUBSET Spare :
         LET n == pool.num_workers + Cardinality(S)
             p == [pool EXCEPT !.refcount = @ + Cardinality(S), !.num_workers = n]
         IN /\ S # {} => n <= minimum
            /\ worker' = [w \in Workers |-> IF w \in S THEN [NoWorker EXCEPT !.pc = "run"]
                                                       ELSE worker[w]]
            /\ pool' = IF n < minimum THEN p
                       ELSE [p EXCEPT !.min_workers = minimum,
                               !.max_workers = IF @ > minimum THEN @ ELSE minimum]
    /\ UNCHANGED <<pools, obj, group, caller>>

-----------------------------------------------------------------------------
(* The cleanup group. *)

(* The members that are not destroyed yet; the others leave the list here.  *)
Marked == Without(group.members, {o \in Objects : obj[o].refcount = 0})
MarkedSet == {Marked[i] : i \in DOMAIN Marked}

TpReleaseCleanupGroupMembers(t, cancel_pending) ==
    /\ IsIdle(t) /\ group.life = "live" /\ ~group.shutdown
    /\ \A o \in MarkedSet : NotInCall(o)
    /\ obj' = [o \in Objects |->
                 IF o \in MarkedSet
                   THEN [obj[o] EXCEPT !.refcount = @ + 1, !.member = FALSE,
                                       !.owner = IF @ = "user" THEN "group" ELSE @]
                 ELSE [obj[o] EXCEPT !.member = FALSE]]
    /\ group' = [group EXCEPT !.members = <<>>]
    /\ Goto(t, IF Marked = <<>> THEN Idle
               ELSE [Idle EXCEPT !.list = Marked, !.todo = IF cancel_pending THEN Marked ELSE <<>>,
                                 !.pc = IF cancel_pending THEN "gcancel" ELSE "gwait"])
    /\ UNCHANGED <<pool, pools, worker>>

GroupCancel(t) ==
    /\ caller[t].pc = "gcancel" /\ CsFree
    /\ tp_object_cancel(Head(caller[t].todo))
    /\ Goto(t, [caller[t] EXCEPT !.todo = Tail(@),
                  !.pc = IF Len(caller[t].todo) = 1 THEN "gwait" ELSE "gcancel"])
    /\ UNCHANGED <<pool, group, worker>>

GroupWait(t) ==
    /\ caller[t].pc = "gwait" /\ CsFree
    /\ LET o == Head(caller[t].list) IN
       Goto(t, [caller[t] EXCEPT !.obj = o,
                  !.pc = IF object_is_finished(obj[o], TRUE) THEN "gdrop" ELSE "gsleep"])
    /\ UNCHANGED <<pool, pools, obj, group, worker>>

(* An object that the program has not released in the meantime is released  *)
(* for it; then goes the reference the group took.                          *)
GroupDrop(t) ==
    /\ caller[t].pc = "gdrop"
    /\ LET o == Head(caller[t].list)
           n == IF ~obj[o].shutdown /\ Type[o] # "simple" THEN 2 ELSE 1
           left == Tail(caller[t].list)
       IN /\ obj' = [obj EXCEPT ![o] = Closed(@, n, "none")]
          /\ Goto(t, IF obj[o].refcount = n
                       THEN [Idle EXCEPT !.pc = "destroy", !.obj = o, !.list = left]
                     ELSE IF left = <<>> THEN Idle ELSE [Idle EXCEPT !.pc = "gwait", !.list = left])
    /\ UNCHANGED <<pool, pools, group, worker>>

TpReleaseCleanupGroup(t) ==
    /\ IsIdle(t) /\ group.life = "live" /\ ~group.shutdown /\ group.members = <<>>
    /\ \A u \in Callers : caller[u].pc \notin {"submit", "join"}
    /\ group' = tp_group_release([group EXCEPT !.shutdown = TRUE])
    /\ UNCHANGED <<pool, pools, obj, worker, caller>>

-----------------------------------------------------------------------------
PoolInit ==
    /\ \E n \in 0..MaxLate, k \in 1..MaxWorkers :
         pool = [tp_threadpool_alloc EXCEPT !.late = n, !.max_workers = k]
    /\ pools = [p \in 1..3 |-> <<>>]
    /\ obj = [o \in Objects |-> NoObject]
    /\ group = tp_group_alloc
    /\ worker = [w \in Workers |-> NoWorker]
    /\ caller = [t \in Callers |-> Idle]

(* Steps a thread takes once it is started. *)
WorkerStep(w) ==
    \/ WorkerTake(w) \/ WorkerReturn(w) \/ WorkerDestroy(w) \/ WorkerCheck(w)
    \/ WorkerSleep(w) \/ WorkerTimeout(w) \/ WorkerTimedOut(w) \/ WorkerLeave(w)

CallerStep(t) ==
    \/ CallerSubmit(t) \/ SimpleJoin(t) \/ SimpleRelease(t) \/ CallerDestroy(t)
    \/ tp_object_wait(t) \/ GroupCancel(t) \/ GroupWait(t) \/ GroupDrop(t)

-----------------------------------------------------------------------------
(* Types: of the pool's state. *)
PoolTypeOK ==
    /\ pool \in [life : {"live", "gone"}, cs : Workers \cup {Nil, "io"}, refcount : Nat,
                 objcount : Nat, shutdown : BOOLEAN, max_workers : Nat \ {0},
                 min_workers : Nat, num_workers : Nat, num_busy_workers : Nat,
                 late : 0..MaxLate]
    /\ pools \in [1..3 -> Seq(Objects)]
    /\ obj \in [Objects ->
                 [life : {"none", "live", "dying", "gone"}, owner : {"none", "user", "group"},
                  refcount : Nat, shutdown : BOOLEAN, grouped : BOOLEAN, member : BOOLEAN,
                  pending : Nat, running : Nat, associated : Nat, signaled : Nat, ops : Nat,
                  skipped : Nat, completions : Nat, posts : Nat]]
    /\ group \in [life : {"live", "gone"}, refcount : Nat, shutdown : BOOLEAN,
                  members : Seq(Objects)]
    /\ worker \in [Workers ->
                 [pc : {"none", "run", "callback", "destroy", "check", "asleep", "timedout",
                        "leave"},
                  obj : Objects \cup {Nil}, associated : BOOLEAN, may_run_long : BOOLEAN]]
    /\ caller \in [Callers ->
                 [pc : {"idle", "submit", "join", "release", "destroy", "wait", "sleep",
                        "gcancel", "gwait", "gsleep", "gdrop"},
                  obj : Objects \cup {Nil}, list : Seq(Objects), todo : Seq(Objects)]]

Running == {w \in Workers : worker[w].pc = "callback"}
Listed(o) == {i \in DOMAIN pools[Priority[o]] : pools[Priority[o]][i] = o}
Uses(t, o) == \/ caller[t].obj = o /\ caller[t].pc \notin {"idle", "destroy"}
              \/ \E i \in DOMAIN caller[t].list : caller[t].list[i] = o

(* An object is destroyed, by whichever thread drops the last reference,    *)
(* only when it is shut down and nobody queues it, runs it or waits for it; *)
(* pool and group go only after all that hangs on them (the assertions of   *)
(* tp_object_release, tp_threadpool_release and tp_group_release).          *)
NothingFreedInUse ==
    /\ \A o \in Objects : obj[o].life \in {"dying", "gone"} =>
         /\ obj[o].shutdown /\ obj[o].pending = 0 /\ Listed(o) = {}
         /\ obj[o].running = 0 /\ obj[o].associated = 0
         /\ \A w \in Running : worker[w].obj # o
         /\ \A t \in Callers : ~Uses(t, o)
    /\ pool.life = "gone" => /\ pool.shutdown /\ pool.objcount = 0 /\ ~Waiting
                             /\ \A w \in Workers : worker[w].pc = "none"
    /\ group.life = "gone" =>
         group.shutdown /\ \A o \in Objects : obj[o].grouped => obj[o].life = "gone"

(* A pending object is on the list of its priority exactly once. *)
QueuedOnce ==
    \A o \in Objects : Cardinality(Listed(o)) = IF obj[o].pending > 0 THEN 1 ELSE 0

(* num_busy_workers, by which tp_object_submit decides to start a thread,   *)
(* is not below the items queued and running; a cancelled item may leave it *)
(* too high.                                                                *)
BusyCoversWork ==
    pool.num_busy_workers >= Len(pools[1]) + Len(pools[2]) + Len(pools[3]) + Cardinality(Running)

(* There is a stored completion for every I/O callback that is queued. *)
CompletionForEachCallback ==
    \A o \in Objects : Type[o] = "io" /\ obj[o].life = "live" =>
      obj[o].pending <= obj[o].completions

(* What the assertions of threadpool_worker_proc and tp_object_execute rely *)
(* on: lists and counts agree, however objects are posted, taken, put back  *)
(* and cancelled, and whatever packets come in.                             *)
CountsAgree == QueuedOnce /\ BusyCoversWork /\ CompletionForEachCallback

(* "It is guaranteed that there is at least one worker thread": while       *)
(* objects are bound to the pool, or items queued, a worker is there that   *)
(* is not on its way out, time-outs and shutdown notwithstanding.           *)
LastWorkerStays ==
    (pool.objcount > 0 /\ ~pool.shutdown) \/ Waiting =>
      \E w \in Workers : worker[w].pc \notin {"none", "leave"}

(* No item waits while all the workers without a callback sleep: the wake   *)
(* of tp_object_submit is not lost on a worker that times out.              *)
NoSleepOverWork ==
    Waiting /\ Sleepers # {} => \E w \in Workers : worker[w].pc \in {"run", "timedout"}

(* An item that is queued has a worker to run it. *)
ItemsHaveWorkers == LastWorkerStays /\ NoSleepOverWork

(* A caller does not sleep for an object that is finished already.          *)
NoSleepOnFinished ==
    \A t \in Callers : caller[t].pc \in {"sleep", "gsleep"} =>
      ~object_is_finished(obj[caller[t].obj], caller[t].pc = "gsleep")

(* The pool keeps the promise of WorkItems. *)
Abstraction ==
    [o \in Objects |-> [life |-> IF obj[o].life \in {"none", "gone"} THEN obj[o].life
                                 ELSE IF obj[o].shutdown THEN "closed" ELSE "open",
                        pending |-> obj[o].pending, running |-> obj[o].running]]
Promise == INSTANCE WorkItems WITH Items <- Objects, item <- Abstraction
ImplementsWorkItems == Promise!ItemSpec

Quiet == ~Waiting /\ \A t \in Callers : caller[t].pc \notin {"sleep", "gsleep"}

(* The queues drain and everybody who waits for callbacks is released, time *)
(* and again: submissions are bounded, so what was submitted must be taken  *)
(* and no wait may last for ever.  And a released pool is freed: no worker  *)
(* misses the shutdown, which is set and signalled outside of the lock.     *)
WorkIsDone ==
    /\ []<>Quiet
    /\ []<>(pool.shutdown => pool.life = "gone")
=============================================================================
