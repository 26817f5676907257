----------------------------- MODULE PoolProofs -----------------------------
(***************************************************************************)
(* What the thread pool promises, from the invariants of its objects.  The *)
(* counts balance over the remaining steps, which is what the assertions   *)
(* of tp_object_release, tp_threadpool_release and tp_group_release rely   *)
(* on: nothing is freed while it is in use, and every reference is         *)
(* counted.  The pool implements WorkItems; what is submitted is alive;    *)
(* and queued work has a worker that is up or will be woken.               *)
(***************************************************************************)
EXTENDS PoolObjectProofs

-----------------------------------------------------------------------------
(* Calls on pool and group. *)

(* The lock of an allocation that failed may have started a worker. *)
LEMMA AllocFailsCounts ==
  ASSUME BaseInv, BaseInv', CountInv, NEW t \in Callers, TpAllocFails(t), UNCHANGED queueVars
  PROVE  CountInv'
<1>0. Shape /\ Shape' /\ PoolBal /\ pool \in PoolRec
  BY DEF BaseInv, CountInv, Shape
<1>1. /\ pool.shutdown = FALSE /\ tp_new_worker_thread(pool) /\ pools' = pools /\ obj' = obj /\ group' = group
      /\ caller' = caller /\ ioq'.objcount = ioq.objcount
  BY <1>0 DEF TpAllocFails, PoolRec, queueVars, ioVars
<1>2. WorkMore /\ pool' = [pool EXCEPT !.refcount = @ + 1, !.num_workers = @ + 1]
  BY <1>0, <1>1, NewWorkerCounts
<1>3. pool.refcount > 0
  BY <1>0, <1>1, PoolAlive
<1>4. /\ pool'.refcount = pool.refcount + 1 /\ pool'.num_workers = pool.num_workers + 1
      /\ pool'.objcount = pool.objcount /\ pool'.shutdown = pool.shutdown /\ pool'.life = pool.life
      /\ pool'.num_busy_workers = pool.num_busy_workers
  BY <1>0, <1>2 DEF PoolRec
<1>5. Lives' = Lives
  BY <1>0, <1>1, StillObjects
<1>6. PoolBal'
  BY <1>0, <1>2, <1>3, <1>4, <1>5, PoolGrows
<1> QED BY <1>0, <1>1, <1>2, <1>4, <1>6, WorkersOnlyCounts DEF WorkMore

(* TpReleasePool: the reference of the program goes, and the sleepers wake. *)
LEMMA ReleasePoolCounts ==
  ASSUME BaseInv, BaseInv', CountInv, NEW t \in Callers, TpReleasePool(t), UNCHANGED queueVars
  PROVE  CountInv'
<1>0. Shape /\ Shape' /\ PoolBal /\ pool \in PoolRec
  BY DEF BaseInv, CountInv, Shape
<1>1. /\ pool.shutdown = FALSE /\ pools' = pools /\ obj' = obj /\ group' = group
      /\ caller' = caller /\ ioq'.objcount = ioq.objcount
      /\ pool' = tp_threadpool_release([pool EXCEPT !.shutdown = TRUE])
      /\ worker' = [w \in Workers |-> IF w \in Sleepers THEN [worker[w] EXCEPT !.pc = "run"] ELSE worker[w]]
  BY <1>0 DEF TpReleasePool, PoolRec, queueVars, ioVars
<1>2. WorkKept
  <2>1. ASSUME NEW x \in Workers PROVE SamePc(worker[x], worker'[x])
    <3>0. worker[x] \in WorkerRec
      BY <1>0 DEF Shape, WorkerSet
    <3>1. CASE x \in Sleepers
      <4>1. worker[x].pc = "asleep" /\ worker'[x] = [worker[x] EXCEPT !.pc = "run"]
        BY <1>1, <3>1 DEF Sleepers
      <4>2. worker'[x].pc = "run"
        BY <3>0, <4>1 DEF WorkerRec
      <4> QED BY <4>1, <4>2 DEF SamePc
    <3>2. CASE x \notin Sleepers
      BY <1>1, <3>2 DEF SamePc
    <3> QED BY <3>1, <3>2
  <2> QED BY <1>0, <2>1, StillWorkers
<1>3. PICK p : p = [pool EXCEPT !.shutdown = TRUE]
  OBVIOUS
<1>4. /\ p \in PoolRec /\ p.refcount = pool.refcount /\ p.objcount = pool.objcount /\ p.shutdown = TRUE
      /\ p.num_workers = pool.num_workers /\ p.life = pool.life /\ p.num_busy_workers = pool.num_busy_workers
  BY <1>0, <1>3 DEF PoolRec
<1>5. /\ pool'.refcount = pool.refcount - 1 /\ pool'.objcount = pool.objcount /\ pool'.shutdown = TRUE
      /\ pool'.num_workers = pool.num_workers /\ pool'.num_busy_workers = pool.num_busy_workers
      /\ pool'.life = IF pool.refcount = 1 THEN "gone" ELSE pool.life
  BY <1>1, <1>3, <1>4, PoolReleaseIs
<1>6. Lives' = Lives
  BY <1>0, <1>1, StillObjects
<1>7. PoolBal'
  <2>1. PICK n \in Nat, a \in Nat : n = Cardinality(Lives) /\ n = Cardinality(Lives)' /\ a = AllW /\ a = AllW'
    BY <1>0, <1>2, <1>6, WorkersAre, MarksAre DEF WorkKept
  <2>2. One(pool.shutdown = FALSE) = 1 /\ One(pool'.shutdown = FALSE) = 0
    BY <1>1, <1>5 DEF One
  <2>3. /\ pool.refcount \in Int /\ pool.refcount = 1 + n + a /\ pool.objcount = n /\ pool.num_workers = StayW
        /\ pool.life = "gone" <=> pool.refcount = 0
    BY <1>0, <2>1, <2>2 DEF PoolBal, PoolOK, PoolRec
  <2>4. pool.refcount = n + 1 + a
    BY <2>3
  <2>5. pool.refcount - 1 = n + 0 + a /\ (pool'.life = "gone" <=> pool.refcount - 1 = 0)
    <3>1. 1 \in Nat /\ 0 \in Int /\ 1 > 0 /\ 0 = 1 - 1
      OBVIOUS
    <3> QED BY <1>5, <2>3, <2>4, <3>1, LessOne
  <2>6. PoolOK(pool', n, a, StayW')
    BY <1>2, <1>5, <2>2, <2>3, <2>5 DEF PoolOK, WorkKept
  <2> QED BY <2>1, <2>6 DEF PoolBal
<1> QED BY <1>0, <1>1, <1>2, <1>5, <1>7, WorkersOnlyCounts DEF WorkKept

(* TpSetPoolMaxThreads *)
LEMMA SetMaxCounts ==
  ASSUME BaseInv, BaseInv', CountInv, NEW t \in Callers, NEW n, TpSetPoolMaxThreads(t, n), UNCHANGED queueVars
  PROVE  CountInv'
<1>0. Shape /\ Shape' /\ PoolBal /\ pool \in PoolRec
  BY DEF BaseInv, CountInv, Shape
<1>1. PICK m, k : pool' = [pool EXCEPT !.max_workers = m, !.min_workers = k]
  BY DEF TpSetPoolMaxThreads
<1>2. /\ pools' = pools /\ obj' = obj /\ group' = group /\ caller' = caller /\ worker' = worker
      /\ ioq'.objcount = ioq.objcount
  BY DEF TpSetPoolMaxThreads, queueVars, ioVars
<1>3. SamePool(pool, pool') /\ pool'.num_busy_workers = pool.num_busy_workers
  BY <1>0, <1>1 DEF SamePool, PoolRec
<1>4. Lives' = Lives /\ WorkKept
  BY <1>0, <1>2, StillObjects, WorkStill
<1>5. PoolBal'
  BY <1>0, <1>3, <1>4, PoolStays DEF WorkKept
<1> QED BY <1>0, <1>2, <1>3, <1>4, <1>5, WorkersOnlyCounts DEF WorkKept

(* Workers are started: as many more are counted. *)
LEMMA SpareStarts ==
  ASSUME Shape, Shape', NEW S \in SUBSET Spare,
         worker' = [w \in Workers |-> IF w \in S THEN [NoWorker EXCEPT !.pc = "run"] ELSE worker[w]]
  PROVE  /\ Cardinality(S) \in Nat
         /\ AllW' = AllW + Cardinality(S) /\ StayW' = StayW + Cardinality(S) /\ RunW' = RunW
<1>0. /\ DOMAIN worker = Workers /\ DOMAIN worker' = Workers /\ IsFiniteSet(Workers) /\ S \subseteq Workers
      /\ \A x \in Workers : worker[x] \in WorkerSet /\ worker'[x] \in WorkerSet
  BY PoolConstants DEF Shape, Spare
<1>1. /\ \A x \in S : worker[x].pc = "none" /\ worker'[x].pc = "run"
      /\ \A x \in Workers \ S : worker'[x] = worker[x]
  BY <1>0 DEF Spare, NoWorker
<1>2. IsFiniteSet(S) /\ Cardinality(S) \in Nat
  BY <1>0, FS_Subset, FS_CardinalityType
<1>3. ASSUME NEW A, A \subseteq WorkerSet, \A r \in WorkerSet : r.pc = "none" => r \notin A,
             \A r \in WorkerSet : r.pc = "run" => r \in A
      PROVE  Cnt(worker', A) = Cnt(worker, A) + Cardinality(S)
  <2>1. PICK X, Y : X = {x \in DOMAIN worker : worker[x] \in A} /\ Y = {x \in DOMAIN worker' : worker'[x] \in A}
    OBVIOUS
  <2>2. Y = X \cup S /\ X \cap S = {} /\ X \subseteq Workers
    BY <1>0, <1>1, <1>3, <2>1
  <2>3. IsFiniteSet(X)
    BY <1>0, <2>2, FS_Subset
  <2>4. Cardinality(Y) = Cardinality(X) + Cardinality(S) - Cardinality(X \cap S)
    BY <1>2, <2>2, <2>3, FS_Union
  <2>5. Cardinality(X \cap S) = 0 /\ Cardinality(X) \in Nat
    BY <2>2, <2>3, FS_EmptySet, FS_CardinalityType
  <2>6. Cardinality(Y) = Cardinality(X) + Cardinality(S)
    BY <1>2, <2>4, <2>5
  <2> QED BY <2>1, <2>6 DEF Cnt
<1>4. AllW' = AllW + Cardinality(S)
  <2>1. PICK A : A = {r \in WorkerSet : r.pc # "none"}
    OBVIOUS
  <2>2. Cnt(worker', A) = Cnt(worker, A) + Cardinality(S)
    BY <1>3, <2>1
  <2> QED BY <2>1, <2>2 DEF AllW
<1>5. StayW' = StayW + Cardinality(S)
  <2>1. PICK A : A = {r \in WorkerSet : r.pc \notin {"none", "leave"}}
    OBVIOUS
  <2>2. Cnt(worker', A) = Cnt(worker, A) + Cardinality(S)
    BY <1>3, <2>1
  <2> QED BY <2>1, <2>2 DEF StayW
<1>6. RunW' = RunW
  <2>1. PICK A : A = {r \in WorkerSet : r.pc = "callback"}
    OBVIOUS
  <2>2. \A x \in Workers : worker[x] \in A <=> worker'[x] \in A
    BY <1>0, <1>1, <2>1
  <2>3. Cnt(worker', A) = Cnt(worker, A)
    BY ONLY <1>0, <2>2, CntSame
  <2> QED BY <2>1, <2>3 DEF RunW
<1> QED BY <1>2, <1>4, <1>5, <1>6

(* TpSetPoolMinThreads *)
LEMMA SetMinCounts ==
  ASSUME BaseInv, BaseInv', CountInv, NEW t \in Callers, NEW k, TpSetPoolMinThreads(t, k), UNCHANGED queueVars
  PROVE  CountInv'
<1>0. Shape /\ Shape' /\ PoolBal /\ pool \in PoolRec
  BY DEF BaseInv, CountInv, Shape
<1>1. /\ pools' = pools /\ obj' = obj /\ group' = group /\ caller' = caller /\ pool.shutdown = FALSE
      /\ ioq'.objcount = ioq.objcount
  BY <1>0 DEF TpSetPoolMinThreads, queueVars, ioVars, PoolRec
<1>2. PICK S \in SUBSET Spare :
        LET n == pool.num_workers + Cardinality(S)
            p == [pool EXCEPT !.refcount = @ + Cardinality(S), !.num_workers = n]
        IN /\ worker' = [w \in Workers |-> IF w \in S THEN [NoWorker EXCEPT !.pc = "run"] ELSE worker[w]]
           /\ pool' = IF n < k THEN p
                      ELSE [p EXCEPT !.min_workers = k, !.max_workers = IF @ > k THEN @ ELSE k]
  BY DEF TpSetPoolMinThreads
<1>3. /\ Cardinality(S) \in Nat
      /\ AllW' = AllW + Cardinality(S) /\ StayW' = StayW + Cardinality(S) /\ RunW' = RunW
  BY <1>0, <1>2, SpareStarts
<1>4. PICK c \in Nat : c = Cardinality(S)
  BY <1>3
<1>5. PICK p : p = [pool EXCEPT !.refcount = @ + c, !.num_workers = @ + c]
  OBVIOUS
<1>6. /\ DOMAIN p = DOMAIN pool /\ p.refcount = pool.refcount + c /\ p.num_workers = pool.num_workers + c
      /\ p.objcount = pool.objcount /\ p.shutdown = pool.shutdown /\ p.life = pool.life
      /\ p.num_busy_workers = pool.num_busy_workers
  BY <1>0, <1>5 DEF PoolRec
<1>7. \/ pool' = p
      \/ \E x, y : pool' = [p EXCEPT !.min_workers = x, !.max_workers = y]
  BY <1>2, <1>4, <1>5
<1>8. /\ pool'.refcount = pool.refcount + c /\ pool'.num_workers = pool.num_workers + c
      /\ pool'.objcount = pool.objcount /\ pool'.shutdown = pool.shutdown /\ pool'.life = pool.life
      /\ pool'.num_busy_workers = pool.num_busy_workers
  <2>1. DOMAIN pool = {"life", "cs", "refcount", "objcount", "shutdown", "max_workers", "min_workers",
                       "num_workers", "num_busy_workers", "late"}
    BY <1>0 DEF PoolRec
  <2>2. CASE \E x, y : pool' = [p EXCEPT !.min_workers = x, !.max_workers = y]
    BY <1>6, <2>1, <2>2
  <2> QED BY <1>6, <1>7, <2>2
<1>9. Lives' = Lives
  BY <1>0, <1>1, StillObjects
<1>10. PoolBal'
  <2>1. PICK n \in Nat, a \in Nat, b \in Nat :
          n = Cardinality(Lives) /\ n = Cardinality(Lives)' /\ a = AllW /\ b = StayW
    BY <1>0, <1>9, WorkersAre, MarksAre
  <2>2. One(pool.shutdown = FALSE) = 1 /\ One(pool'.shutdown = FALSE) = 1
    BY <1>1, <1>8 DEF One
  <2>3. /\ pool.refcount = 1 + n + a /\ pool.objcount = n /\ pool.num_workers = b
        /\ pool.life = "gone" <=> pool.refcount = 0
    BY <1>0, <2>1, <2>2 DEF PoolBal, PoolOK
  <2>4. /\ pool'.refcount = 1 + n + (a + c) /\ pool'.num_workers = b + c
        /\ pool'.life # "gone" /\ pool'.refcount # 0
    BY <1>8, <2>3
  <2>5. AllW' = a + c /\ StayW' = b + c
    BY <1>3, <1>4, <2>1
  <2> QED BY <1>8, <2>1, <2>2, <2>3, <2>4, <2>5 DEF PoolBal, PoolOK
<1> QED BY <1>0, <1>1, <1>3, <1>8, <1>10, WorkersOnlyCounts

(* TpReleaseCleanupGroup: nobody is about to join. *)
LEMMA ReleaseGroupCounts ==
  ASSUME BaseInv, BaseInv', CountInv, NEW t \in Callers, TpReleaseCleanupGroup(t), UNCHANGED queueVars
  PROVE  CountInv'
<1>0. Shape /\ Shape' /\ PoolBal /\ BusyBal /\ GroupBal /\ IoBal /\ group \in GroupRec
  BY DEF BaseInv, CountInv, Shape
<1>1. /\ group.shutdown = FALSE /\ pools' = pools /\ obj' = obj /\ pool' = pool /\ worker' = worker
      /\ caller' = caller /\ ioq' = ioq /\ \A u \in Callers : caller[u].pc \notin {"submit", "join"}
      /\ group' = tp_group_release([group EXCEPT !.shutdown = TRUE])
  BY <1>0 DEF TpReleaseCleanupGroup, GroupRec, queueVars, ioVars
<1>2. PICK g : g = [group EXCEPT !.shutdown = TRUE]
  OBVIOUS
<1>3. g \in GroupRec /\ g.refcount = group.refcount /\ g.shutdown = TRUE /\ g.life = group.life
  BY <1>0, <1>2 DEF GroupRec
<1>4. /\ group'.refcount = group.refcount - 1 /\ group'.shutdown = TRUE
      /\ group'.life = IF group.refcount = 1 THEN "gone" ELSE group.life
  BY <1>1, <1>2, <1>3, GroupReleaseIs
<1>5. \A o \in Objects : ~Pend(o) /\ ~Pend(o)'
  <2>1. DOMAIN caller = Callers /\ IsFiniteSet(Callers)
    BY <1>0, PoolConstants DEF Shape
  <2>2. ASSUME NEW o \in Objects PROVE CN(o).sub = 0 /\ CN(o).join = 0
    <3>1. \A x \in Callers : caller[x] \notin CallsAt(o, {"submit"}) /\ caller[x] \notin CallsAt(o, {"join"})
      BY <1>1 DEF CallsAt
    <3>2. Cnt(caller, CallsAt(o, {"submit"})) = 0 /\ Cnt(caller, CallsAt(o, {"join"})) = 0
      BY <2>1, <3>1, CntSome
    <3> QED BY <3>2 DEF CN
  <2>3. \A o \in Objects : CN(o)' = CN(o)
    BY <1>1 DEF CN
  <2> QED BY <2>2, <2>3 DEF Pend
<1>6. Lives' = Lives /\ Bound' = Bound /\ Opens' = Opens /\ WorkKept
  BY <1>1, <1>5, WorkStill DEF Lives, Bound, Opens
<1>7. PoolBal' /\ BusyBal' /\ IoBal'
  BY <1>0, <1>1, <1>6, PoolStays, BusyStays DEF SamePool, WorkKept, IoBal
<1>8. GroupOK(group', Cardinality(Bound)')
  <2>1. PICK n \in Nat : n = Cardinality(Bound) /\ n = Cardinality(Bound)'
    BY <1>6, MarksAre
  <2>2. One(group.shutdown = FALSE) = 1 /\ One(group'.shutdown = FALSE) = 0
    BY <1>1, <1>4 DEF One
  <2>3. /\ group.refcount \in Int /\ group.refcount = 1 + n
        /\ group.life = "gone" <=> group.refcount = 0
    BY <1>0, <2>1, <2>2 DEF GroupBal, GroupOK, GroupRec
  <2>4. group.refcount = n + 1 + 0
    BY <2>3
  <2>5. group.refcount - 1 = n + 0 + 0 /\ (group'.life = "gone" <=> group.refcount - 1 = 0)
    <3>1. 1 \in Nat /\ 0 \in Nat /\ 0 \in Int /\ 1 > 0 /\ 0 = 1 - 1
      OBVIOUS
    <3> QED BY <1>4, <2>3, <2>4, <3>1, LessOne
  <2> QED BY <1>4, <2>1, <2>2, <2>5 DEF GroupOK
<1>9. GroupBal'
  BY <1>0, <1>1, <1>5, <1>8 DEF GroupBal
<1> QED BY <1>7, <1>9 DEF CountInv

(* The members of the group are released. *)
LEMMA GroupMembersCounts ==
  ASSUME BaseInv, BaseInv', CoreInv, CountInv, NEW t \in Callers, NEW cancel \in BOOLEAN,
         ReleaseGroupMembers(t, cancel)
  PROVE  CountInv'
<1>0. Shape /\ Shape' /\ MembersOK
  BY DEF BaseInv, CoreInv
<1>1. PICK c : c = IF Marked = <<>> THEN Idle
                   ELSE [Idle EXCEPT !.list = Marked, !.todo = IF cancel THEN Marked ELSE <<>>,
                                     !.pc = IF cancel THEN "gcancel" ELSE "gwait"]
  OBVIOUS
<1>2. /\ caller[t].pc = "idle"
      /\ obj' = [o \in Objects |-> IF o \in MarkedSet THEN Taken(obj[o])
                                   ELSE [obj[o] EXCEPT !.member = FALSE]]
      /\ group' = [group EXCEPT !.members = <<>>] /\ caller' = [caller EXCEPT ![t] = c]
      /\ pools' = pools /\ worker' = worker /\ pool' = pool /\ ioq'.objcount = ioq.objcount
  BY <1>1 DEF ReleaseGroupMembers, TpReleaseCleanupGroupMembers, Taken, Goto, IsIdle,
              tp_object_prepare_shutdown, ioVars
<1>3. c.pc \in {"idle", "gcancel", "gwait"}
  BY <1>0, <1>1, MembersCaller
<1>4. PendKept /\ WorkKept
  BY <1>0, <1>2, <1>3, CallerQuiet, WorkStill
<1>5. ASSUME NEW o \in Objects
      PROVE  Alike(o, obj[o], obj'[o])
  <2>1. obj[o] \in ObjRec
    BY <1>0, <1>5 DEF Shape
  <2>2. CASE o \in MarkedSet
    <3>1. PICK e : e = Taken(obj[o])
      OBVIOUS
    <3>2. TakenIs(obj[o], e) /\ obj'[o] = e
      BY <1>2, <1>5, <2>1, <2>2, <3>1, TakeIs
    <3> QED BY <3>2 DEF TakenIs, Alike, Alive
  <2>3. CASE o \notin MarkedSet
    <3>1. PICK e : e = [obj[o] EXCEPT !.member = FALSE]
      OBVIOUS
    <3>2. e.life = obj[o].life /\ e.grouped = obj[o].grouped /\ e.shutdown = obj[o].shutdown /\ obj'[o] = e
      BY <1>2, <1>5, <2>1, <2>3, <3>1 DEF ObjRec
    <3> QED BY <3>2 DEF Alike, Alive
  <2> QED BY <2>2, <2>3
<1>6. ObjAlike /\ SamePool(pool, pool') /\ SameGroup(group, group') /\ pool'.num_busy_workers = pool.num_busy_workers
  BY <1>0, <1>2, <1>5 DEF ObjAlike, SamePool, SameGroup, Shape, GroupRec
<1>7. Queued' <= Queued
  <2>1. Queued \in Nat /\ Queued' = Queued
    BY <1>0, <1>2, QueuedIs DEF Queued
  <2> QED BY <2>1
<1> QED BY <1>0, <1>2, <1>4, <1>6, <1>7, QuietCounts

(* The calls on pool and group. *)
LEMMA PoolCallsCounts ==
  ASSUME BaseInv, BaseInv', CoreInv, CountInv, NEW t \in Callers, PoolCalls(t)
  PROVE  CountInv'
<1>1. CASE InPool(TpAllocFails(t))
  BY <1>1, AllocFailsCounts DEF InPool
<1>2. CASE InPool(TpReleasePool(t))
  BY <1>2, ReleasePoolCounts DEF InPool
<1>3. ASSUME NEW n \in Limits, InPool(TpSetPoolMaxThreads(t, n))
      PROVE  CountInv'
  BY <1>3, SetMaxCounts DEF InPool
<1>4. ASSUME NEW n \in Limits, InPool(TpSetPoolMinThreads(t, n))
      PROVE  CountInv'
  BY <1>4, SetMinCounts DEF InPool
<1>5. CASE InPool(TpReleaseCleanupGroup(t))
  BY <1>5, ReleaseGroupCounts DEF InPool
<1>6. ASSUME NEW c \in BOOLEAN, ReleaseGroupMembers(t, c)
      PROVE  CountInv'
  BY <1>6, GroupMembersCounts
<1> QED
  BY <1>1, <1>2, <1>3, <1>4, <1>5, <1>6 DEF PoolCalls, InPool

-----------------------------------------------------------------------------
(* The service threads and the counts. *)

(* A service thread submits an object that is alive. *)
LEMMA ServiceSubmits ==
  ASSUME BaseInv, BaseInv', CountInv, NEW o \in Objects, obj[o].life = "live", NEW f, Ready(obj[o], f),
         NEW p \in PoolRec, SamePool(pool, p), p.num_busy_workers = pool.num_busy_workers,
         tp_object_submit(o, f, p), group' = group, caller' = caller, ioq'.objcount = ioq.objcount
  PROVE  CountInv'
<1>0. Shape /\ Shape'
  BY DEF BaseInv
<1>1. Submittable(o, f, p)
  BY DEF Submittable, Ready
<1>2. PendKept
  BY <1>0, SubsWoken
<1> QED BY <1>0, <1>1, <1>2, SubmitCountsAll

(* A timer expires. *)
LEMMA TimerExpiresCounts ==
  ASSUME BaseInv, BaseInv', CoreInv, CountInv, TimerExpires
  PROVE  CountInv'
<1>0. Shape /\ Shape' /\ TimerInv /\ pool \in PoolRec
  BY DEF BaseInv, Shape
<1>1. PICK o : o = ExpiredTimer
  OBVIOUS
<1>2. /\ AnyExpired /\ tp_object_submit(o, obj[o], pool) /\ group' = group /\ caller' = caller
      /\ ioq'.objcount = ioq.objcount
  BY <1>1 DEF TimerExpires, submit_expired_timers, ioVars
<1>3. o \in Timers /\ timer[o].pending
  BY <1>0, <1>1, <1>2, ExpiredIs
<1>4. o \in Objects
  BY <1>3, KindsOfObjects
<1>5. timer[o].initialized = TRUE
  BY <1>0, <1>3 DEF TimerInv, CountOK, TimerRec
<1>6. InService(o) = TRUE
  BY <1>3, <1>5 DEF InService
<1>7. obj[o].life = "live" /\ Ready(obj[o], obj[o])
  BY <1>0, <1>4, <1>6, ServedIs
<1>8. SamePool(pool, pool)
  BY DEF SamePool
<1> QED BY <1>0, <1>2, <1>4, <1>7, <1>8, ServiceSubmits

(* The timer thread. *)
LEMMA TimerThreadCounts ==
  ASSUME BaseInv, BaseInv', CoreInv, CountInv, TimerThread
  PROVE  CountInv'
<1>1. CASE TimerExpires
  BY <1>1, TimerExpiresCounts
<1>2. CASE /\ TimerThreadWaits \/ TimerThreadWakes \/ TimerThreadEnters
           /\ UNCHANGED <<poolVars, waitVars, ioVars, now, sets>>
  <2>1. UNCHANGED poolVars /\ ioq'.objcount = ioq.objcount
    BY <1>2 DEF ioVars
  <2> QED BY <2>1, QueuesOnlyCounts
<1> QED BY <1>1, <1>2 DEF TimerThread

(* A wait object is submitted, with its new record. *)
LEMMA WaitSubmitCounts ==
  ASSUME BaseInv, BaseInv', CoreInv, CountInv, NEW b \in Buckets, NEW o \in Waits, wait[o].bucket = b,
         NEW f \in {obj[o], [obj[o] EXCEPT !.signaled = @ + 1]},
         tp_object_submit(o, f, pool), group' = group, caller' = caller, ioq'.objcount = ioq.objcount
  PROVE  CountInv'
<1>0. Shape /\ pool \in PoolRec
  BY DEF BaseInv, Shape
<1>1. o \in Objects
  BY KindsOfObjects
<1>2. InService(o) = TRUE
  BY WaitConstants DEF InService
<1>3. obj[o].life = "live" /\ obj[o] \in ObjRec /\ Ready(obj[o], obj[o]) /\ obj[o].signaled \in Nat
  BY <1>0, <1>1, <1>2, ServedIs
<1>4. Ready(obj[o], f)
  <2>1. CASE f = obj[o]
    BY <1>3, <2>1
  <2>2. CASE f = [obj[o] EXCEPT !.signaled = @ + 1]
    BY <1>3, <2>2, SignaledIs DEF Ready
  <2> QED BY <2>1, <2>2
<1>5. SamePool(pool, pool)
  BY DEF SamePool
<1> QED BY <1>0, <1>1, <1>3, <1>4, <1>5, ServiceSubmits

(* The thread of a bucket takes references. *)
LEMMA HoldObjectsCounts ==
  ASSUME BaseInv, BaseInv', CountInv, NEW b \in Buckets, HoldObjects(b), ioq'.objcount = ioq.objcount
  PROVE  CountInv'
<1>0. Shape /\ Shape'
  BY DEF BaseInv
<1>1. /\ pool' = pool /\ pools' = pools /\ group' = group /\ worker' = worker /\ caller' = caller
      /\ obj' = [o \in Objects |->
                 IF \E i \in DOMAIN bucket[b].waiting : bucket[b].waiting[i] = o
                   THEN [obj[o] EXCEPT !.refcount = @ + 1] ELSE obj[o]]
  BY DEF HoldObjects
<1>2. ASSUME NEW o \in Objects
      PROVE  Alike(o, obj[o], obj'[o])
  <2>1. obj[o] \in ObjRec
    BY <1>0, <1>2 DEF Shape
  <2>2. PICK e : e = [obj[o] EXCEPT !.refcount = @ + 1]
    OBVIOUS
  <2>3. e.life = obj[o].life /\ e.grouped = obj[o].grouped /\ e.shutdown = obj[o].shutdown
    BY <2>1, <2>2, HeldIs
  <2>4. obj'[o] = e \/ obj'[o] = obj[o]
    BY <1>1, <1>2, <2>2
  <2> QED BY <2>3, <2>4 DEF Alike, Alive
<1>3. PendKept /\ WorkKept
  BY <1>0, <1>1, SubsWoken, WorkStill
<1>4. ObjAlike /\ SamePool(pool, pool') /\ SameGroup(group, group') /\ pool'.num_busy_workers = pool.num_busy_workers
  BY <1>1, <1>2 DEF ObjAlike, SamePool, SameGroup
<1>5. Queued' <= Queued
  <2>1. Queued \in Nat /\ Queued' = Queued
    BY <1>0, <1>1, QueuedIs DEF Queued
  <2> QED BY <2>1
<1> QED BY <1>0, <1>3, <1>4, <1>5, QuietCounts

(* It drops a reference, and may destroy the object. *)
LEMMA ReleaseHeldCounts ==
  ASSUME BaseInv, BaseInv', CoreInv, CountInv, NEW b \in Buckets, ReleaseHeld(b), ioq'.objcount = ioq.objcount
  PROVE  CountInv'
<1>0. Shape /\ Shape' /\ WaitInv
  BY DEF BaseInv
<1>1. PICK o : o = LastHeld(b)
  OBVIOUS
<1>2. bucket[b].held # <<>> /\ worker' = worker /\ caller' = caller
  BY DEF ReleaseHeld
<1>3. o \in Objects /\ Type[o] = "wait" /\ obj[o] \in ObjRec
  BY <1>0, <1>1, <1>2, LastHeldIs, KindsOfObjects DEF Shape
<1>4. PendKept /\ WorkKept
  BY <1>0, <1>2, SubsWoken, WorkStill
<1>5. CASE obj[o].life = "dying"
  <2>1. tp_object_destroy(o)
    BY <1>1, <1>5 DEF ReleaseHeld
  <2> QED BY <1>0, <1>3, <1>4, <1>5, <2>1, DestroyCounts
<1>6. CASE obj[o].life # "dying"
  <2>1. /\ obj' = [obj EXCEPT ![o] = Dropped(@, 1)] /\ pool' = pool /\ pools' = pools /\ group' = group
    BY <1>1, <1>6 DEF ReleaseHeld
  <2>2. PICK e : e = Dropped(obj[o], 1)
    OBVIOUS
  <2>3. GivenBack(obj[o], e, 1)
    BY <1>3, <2>2, DropGives
  <2>4. obj'[o] = e /\ KeptObj(o)
    BY <1>0, <1>3, <2>1, <2>2 DEF Shape, KeptObj
  <2>5. /\ obj[o].refcount = 1 => e.life = "dying"
        /\ obj[o].refcount # 1 => e.life = obj[o].life
        /\ e.grouped = obj[o].grouped /\ e.shutdown = obj[o].shutdown
    BY <2>3 DEF GivenBack
  <2>6. Alike(o, obj[o], obj'[o])
    BY <1>0, <1>3, <2>4, <2>5, GivenAlike
  <2> QED BY <1>0, <1>4, <2>1, <2>4, <2>6, QuietOne DEF SameGroup
<1> QED BY <1>5, <1>6

(* The threads of the buckets. *)
LEMMA WaitThreadCounts ==
  ASSUME BaseInv, BaseInv', CoreInv, CountInv, NEW b \in Buckets, WaitThread(b)
  PROVE  CountInv'
<1>0. WaitInv /\ ioq'.objcount = ioq.objcount
  BY DEF BaseInv, WaitThread, ioVars
<1>1. CASE SubmitElapsed(b)
  <2>1. PICK o : o = ElapsedWait(b)
    OBVIOUS
  <2>2. WaitElapses(b) /\ tp_object_submit(o, obj[o], pool) /\ group' = group /\ caller' = caller
    BY <1>1, <2>1 DEF SubmitElapsed
  <2>3. o \in Waits /\ wait[o].bucket = b
    BY <1>0, <2>1, <2>2, ElapsesKeeps
  <2>4. obj[o] \in {obj[o], [obj[o] EXCEPT !.signaled = @ + 1]}
    OBVIOUS
  <2> QED BY <1>0, <2>2, <2>3, <2>4, WaitSubmitCounts
<1>2. CASE SubmitSignaled(b)
  <2>1. PICK o : o = HitObject(b)
    OBVIOUS
  <2>2. /\ WaitFires(b) /\ tp_object_submit(o, [obj[o] EXCEPT !.signaled = @ + 1], pool)
        /\ group' = group /\ caller' = caller
    BY <1>2, <2>1 DEF SubmitSignaled
  <2>3. o \in Waits /\ wait[o].bucket = b
    BY <1>0, <2>1, <2>2, FiresKeeps
  <2>4. PICK f : f = [obj[o] EXCEPT !.signaled = @ + 1]
    OBVIOUS
  <2>5. tp_object_submit(o, f, pool) /\ f \in {obj[o], [obj[o] EXCEPT !.signaled = @ + 1]}
    BY <2>2, <2>4
  <2> QED BY <1>0, <2>2, <2>3, <2>5, WaitSubmitCounts
<1>3. CASE HoldObjects(b)
  BY <1>0, <1>3, HoldObjectsCounts
<1>4. CASE ReleaseHeld(b)
  BY <1>0, <1>4, ReleaseHeldCounts
<1>5. CASE WaitThreadStep(b) /\ UNCHANGED poolVars
  BY <1>0, <1>5, QueuesOnlyCounts
<1> QED
  BY <1>1, <1>2, <1>3, <1>4, <1>5 DEF WaitThread

(* A packet is passed over. *)
LEMMA IoSkipsCounts ==
  ASSUME BaseInv, BaseInv', CoreInv, CountInv, NEW o \in Ios, IoSkips(o)
  PROVE  CountInv'
<1>0. Shape /\ Shape' /\ o \in Objects /\ obj[o] \in ObjRec /\ ioq \in IoqRec
  BY KindsOfObjects DEF BaseInv, Shape, CoreInv, IoShape, IoState
<1>1. /\ IoGoto("get") /\ obj' = [obj EXCEPT ![o].skipped = @ - 1]
      /\ pool' = pool /\ pools' = pools /\ group' = group /\ worker' = worker /\ caller' = caller
  BY DEF IoSkips
<1>2. ioq'.objcount = ioq.objcount
  BY <1>0, <1>1 DEF IoGoto, IoqRec
<1>3. PICK n \in Int : n = obj[o].skipped - 1
  BY <1>0 DEF ObjRec
<1>4. PICK e : e = [obj[o] EXCEPT !.skipped = n]
  OBVIOUS
<1>5. e.life = obj[o].life /\ e.grouped = obj[o].grouped /\ e.shutdown = obj[o].shutdown
  BY <1>0, <1>4 DEF ObjRec
<1>6. obj'[o] = e /\ KeptObj(o)
  BY <1>0, <1>1, <1>3, <1>4 DEF Shape, KeptObj
<1>7. Alike(o, obj[o], obj'[o])
  BY <1>5, <1>6 DEF Alike, Alive
<1>8. PendKept /\ WorkKept
  BY <1>0, <1>1, SubsWoken, WorkStill
<1> QED BY <1>0, <1>1, <1>2, <1>6, <1>7, <1>8, QuietOne DEF SameGroup

(* A packet is forgotten for lack of memory. *)
LEMMA IoLacksMemoryCounts ==
  ASSUME BaseInv, BaseInv', CoreInv, CountInv, NEW o \in Ios, IoLacksMemory(o)
  PROVE  CountInv'
<1>0. Shape /\ Shape' /\ o \in Objects /\ obj[o] \in ObjRec /\ ioq \in IoqRec
  BY KindsOfObjects DEF BaseInv, Shape, CoreInv, IoShape, IoState
<1>1. /\ IoGoto("get") /\ obj' = [obj EXCEPT ![o].ops = @ - 1]
      /\ pool' = pool /\ pools' = pools /\ group' = group /\ worker' = worker /\ caller' = caller
  BY DEF IoLacksMemory
<1>2. ioq'.objcount = ioq.objcount
  BY <1>0, <1>1 DEF IoGoto, IoqRec
<1>3. PICK n \in Int : n = obj[o].ops - 1
  BY <1>0 DEF ObjRec
<1>4. obj' = [obj EXCEPT ![o].ops = n]
  BY <1>0, <1>1, <1>3 DEF Shape
<1>5. PendKept
  BY <1>0, <1>1, SubsWoken
<1> QED BY <1>0, <1>1, <1>2, <1>4, <1>5, OpsCounts

(* The last packet: the object goes. *)
LEMMA IoReleasesCounts ==
  ASSUME BaseInv, BaseInv', CoreInv, CountInv, NEW o \in Ios, IoReleases(o)
  PROVE  CountInv'
<1>0. Shape /\ Shape' /\ ioq \in IoqRec
  BY DEF BaseInv, CoreInv, IoShape, IoState
<1>1. /\ ioq.pc = "packet" /\ ioq.key = o
      /\ pool' = pool /\ pools' = pools /\ group' = group /\ worker' = worker /\ caller' = caller
      /\ obj' = [obj EXCEPT ![o] = [Closed(@, 1, @.owner) EXCEPT !.skipped = 0]]
      /\ ioq' = [ioq EXCEPT !.objcount = @ - 1, !.pc = IF obj[o].refcount = 1 THEN "destroy" ELSE "tail"]
  BY DEF IoReleases, HasPacket
<1>2. /\ o \in Objects /\ Type[o] = "io" /\ obj[o].life = "live" /\ obj[o].shutdown = FALSE
      /\ obj[o] \in ObjRec
      /\ Typed(obj[o], WN(o), CN(o), HN(o), PN(o), InService(o))
  BY <1>1, PacketIs
<1>3. ioq'.objcount = ioq.objcount - 1
  BY <1>0, <1>1 DEF IoqRec
<1>4. PICK own \in {"none", "user", "group"} : own = obj[o].owner
  BY <1>2, TypedIs
<1>5. PICK c : c = Closed(obj[o], 1, own)
  OBVIOUS
<1>6. ReleasedIs(obj[o], c, 1, own)
  BY <1>2, <1>5, ReleaseIs
<1>7. c \in ObjRec
  BY <1>6 DEF ReleasedIs
<1>8. PICK e : e = [c EXCEPT !.skipped = 0]
  OBVIOUS
<1>9. e.life = c.life /\ e.shutdown = c.shutdown /\ e.grouped = c.grouped
  BY <1>7, <1>8 DEF ObjRec
<1>10. obj'[o] = e /\ KeptObj(o)
  BY <1>0, <1>1, <1>2, <1>4, <1>5, <1>8 DEF Shape, KeptObj
<1>11. obj'[o].life \in {"live", "dying"} /\ obj'[o].shutdown = TRUE /\ obj'[o].grouped = obj[o].grouped
  BY <1>2, <1>6, <1>9, <1>10 DEF ReleasedIs
<1>12. PendKept /\ WorkKept
  BY <1>0, <1>1, SubsWoken, WorkStill
<1> QED BY <1>0, <1>1, <1>2, <1>3, <1>10, <1>11, <1>12, IoClosesCounts

(* It is destroyed. *)
LEMMA IoDestroysCounts ==
  ASSUME BaseInv, BaseInv', CoreInv, CountInv, NEW o \in Ios, IoDestroys(o)
  PROVE  CountInv'
<1>0. Shape /\ Shape' /\ IoShape /\ ObjInv /\ o \in Objects /\ ioq \in IoqRec
  BY KindsOfObjects DEF BaseInv, CoreInv, IoShape, IoState
<1>1. /\ ioq.pc = "destroy" /\ ioq.key = o /\ tp_object_destroy(o) /\ IoGoto("tail")
      /\ worker' = worker /\ caller' = caller
  BY DEF IoDestroys
<1>2. ioq'.objcount = ioq.objcount
  BY <1>0, <1>1 DEF IoGoto, IoqRec
<1>3. obj[o].life = "dying"
  <2>1. PN(o).ends = One(ioq.pc = "destroy") /\ One(ioq.pc = "destroy") = 1
    BY <1>1, IoMoves DEF One
  <2>2. WN(o).ends > 0 \/ CN(o).ends > 0 \/ PN(o).ends > 0
    BY <2>1
  <2> QED BY <1>0, <2>2, DyingIs
<1>4. PendKept /\ WorkKept
  BY <1>0, <1>1, SubsWoken, WorkStill
<1> QED BY <1>0, <1>1, <1>2, <1>3, <1>4, DestroyCounts

(* The I/O thread submits. *)
LEMMA IoSubmitCounts ==
  ASSUME BaseInv, BaseInv', CoreInv, CountInv, NEW o \in Ios, ioq.key = o, ioq.pc \in {"packet", "again"},
         NEW n \in {0, 1}, n <= obj[o].ops, NEW f, f = Stores(o, [obj[o] EXCEPT !.ops = @ - n]),
         NEW cs, NEW p \in PoolRec, p = [pool EXCEPT !.cs = cs], tp_object_submit(o, f, p), NEW pc, IoGoto(pc),
         group' = group, caller' = caller
  PROVE  CountInv'
<1>1. o \in Objects /\ obj[o].life = "live"
  BY PacketIs
<1>2. Ready(obj[o], f)
  BY StoredIs
<1>3. SamePool(pool, p) /\ p.num_busy_workers = pool.num_busy_workers
  BY DEF SamePool, BaseInv, Shape, PoolRec
<1>4. ioq'.objcount = ioq.objcount
  BY DEF IoGoto, CoreInv, IoShape, IoState, IoqRec
<1> QED BY <1>1, <1>2, <1>3, <1>4, ServiceSubmits

(* The I/O thread. *)
LEMMA IoThreadCounts ==
  ASSUME BaseInv, BaseInv', CoreInv, CountInv, IoThread
  PROVE  CountInv'
<1>0. ioq \in IoqRec /\ pool \in PoolRec
  BY DEF CoreInv, IoShape, IoState, BaseInv, Shape
<1>1. CASE IoThreadStep /\ UNCHANGED poolVars
  <2>1. ioq'.objcount = ioq.objcount
    BY <1>0, <1>1 DEF IoThreadStep, NtRemoveIoCompletion, IoThreadGoesOn, IoThreadTimesOut, IoThreadEnds,
                      IoGoto, IoqRec
  <2> QED BY <1>1, <2>1, QueuesOnlyCounts
<1>2. ASSUME NEW o \in Ios, IoSubmits(o) PROVE CountInv'
  <2>1. /\ ioq.pc = "packet" /\ ioq.key = o /\ obj[o].ops > 0 /\ IoGoto("again") /\ group' = group
        /\ caller' = caller
        /\ tp_object_submit(o, Stores(o, [obj[o] EXCEPT !.ops = @ - 1]), [pool EXCEPT !.cs = "io"])
    BY <1>2 DEF IoSubmits, HasPacket
  <2>2. PICK f, p : f = Stores(o, [obj[o] EXCEPT !.ops = @ - 1]) /\ p = [pool EXCEPT !.cs = "io"]
    OBVIOUS
  <2>3. tp_object_submit(o, f, p)
    BY <2>1, <2>2
  <2>4. p \in PoolRec
    BY <1>0, <2>2 DEF PoolRec
  <2>5. 1 <= obj[o].ops
    <3>1. obj[o].ops \in Nat
      BY <1>2, <2>1, PacketIs
    <3> QED BY <2>1, <3>1
  <2> QED BY <1>2, <2>1, <2>2, <2>3, <2>4, <2>5, IoSubmitCounts
<1>3. ASSUME NEW o \in Ios, IoSubmitsAgain(o) PROVE CountInv'
  <2>1. /\ ioq.pc \in {"packet", "again"} /\ ioq.key = o /\ IoGoto("tail") /\ group' = group
        /\ caller' = caller /\ tp_object_submit(o, Stores(o, obj[o]), [pool EXCEPT !.cs = Nil])
    BY <1>3 DEF IoSubmitsAgain, HasPacket
  <2>2. PICK f, p : f = Stores(o, obj[o]) /\ p = [pool EXCEPT !.cs = Nil]
    OBVIOUS
  <2>3. tp_object_submit(o, f, p)
    BY <2>1, <2>2
  <2>4. p \in PoolRec
    BY <1>0, <2>2 DEF PoolRec
  <2>5. obj[o] \in ObjRec /\ obj[o].ops \in Nat
    BY <1>3, <2>1, PacketIs
  <2>6. obj[o] = [obj[o] EXCEPT !.ops = @ - 0]
    BY <2>5 DEF ObjRec
  <2>7. f = Stores(o, [obj[o] EXCEPT !.ops = @ - 0]) /\ 0 <= obj[o].ops
    BY <2>2, <2>5, <2>6
  <2> QED BY <1>3, <2>1, <2>2, <2>3, <2>4, <2>7, IoSubmitCounts
<1> QED
  BY <1>1, <1>2, <1>3, IoSkipsCounts, IoLacksMemoryCounts, IoReleasesCounts, IoDestroysCounts DEF IoThread, InIo

(* The service threads, the kernel and the clock. *)
LEMMA ServiceCounts ==
  ASSUME BaseInv, BaseInv', CoreInv, CountInv, ServiceMoves
  PROVE  CountInv'
<1>1. CASE Tick
  <2>1. UNCHANGED poolVars /\ ioq'.objcount = ioq.objcount
    BY <1>1 DEF Tick, queueVars, ioVars
  <2> QED BY <2>1, QueuesOnlyCounts
<1>2. ASSUME NEW o \in Ios, IoCompletes(o) PROVE CountInv'
  <2>1. UNCHANGED poolVars /\ ioq'.objcount = ioq.objcount
    BY <1>2 DEF IoCompletes, InIo, Completes
  <2> QED BY <2>1, QueuesOnlyCounts
<1> QED
  BY <1>1, <1>2, TimerThreadCounts, IoThreadCounts, WaitThreadCounts DEF ServiceMoves

(* Every step. *)
LEMMA CountNext ==
  ASSUME BaseInv, BaseInv', CoreInv, CountInv, program \in Programs, [Next]_vars
  PROVE  CountInv'
<1>1. CASE UNCHANGED vars
  <2>1. UNCHANGED poolVars /\ ioq'.objcount = ioq.objcount
    BY <1>1 DEF vars, queueVars, ioVars
  <2> QED BY <2>1, QueuesOnlyCounts
<1>2. CASE Next
  <2>1. program.callers \subseteq Callers /\ program.objects \subseteq Objects
    BY CallsOfPrograms
  <2>2. ASSUME NEW h \in Handles, Signal(h) PROVE CountInv'
    <3>1. UNCHANGED poolVars /\ ioq'.objcount = ioq.objcount
      BY <2>2 DEF Signal, ioVars
    <3> QED BY <3>1, QueuesOnlyCounts
  <2> QED
    BY <1>2, <2>1, <2>2, WorkerMovesCounts, CallbackCallsCounts, CallerMovesCounts, PoolCallsCounts,
       ObjectCallsCounts, ServiceCounts DEF Next
<1> QED BY <1>1, <1>2

(* The start. *)
LEMMA CountInit ==
  ASSUME Init
  PROVE  CountInv
<1>0. /\ pools = [p \in 1..3 |-> <<>>] /\ obj = [o \in Objects |-> NoObject]
      /\ worker = [w \in Workers |-> NoWorker] /\ caller = [t \in Callers |-> Idle]
      /\ ioq.objcount = 0 /\ BaseInv
  BY BaseInit DEF Init, PoolInit, IoInit
<1>1. /\ group.refcount = 1 /\ group.shutdown = FALSE /\ group.life = "live"
  BY DEF Init, PoolInit, tp_group_alloc
<1>2. /\ pool.refcount = 1 /\ pool.objcount = 0 /\ pool.shutdown = FALSE /\ pool.num_workers = 0
      /\ pool.num_busy_workers = 0 /\ pool.life = "live"
  BY DEF Init, PoolInit, tp_threadpool_alloc
<1>3. NoObject.life = "none" /\ NoObject.grouped = FALSE
  BY DEF NoObject
<1>4. Cardinality(Lives) = 0 /\ Cardinality(Bound) = 0 /\ Cardinality(Opens) = 0
  <2>1. Lives = {} /\ Bound = {} /\ Opens = {}
    BY <1>0, <1>3 DEF Lives, Bound, Opens, Alive
  <2> QED BY <2>1, FS_EmptySet
<1>5. AllW = 0 /\ StayW = 0 /\ RunW = 0
  <2>1. DOMAIN worker = Workers /\ IsFiniteSet(Workers) /\ \A w \in Workers : worker[w].pc = "none"
    BY <1>0, PoolConstants DEF NoWorker
  <2>2. \A w \in Workers : /\ worker[w] \notin {r \in WorkerSet : r.pc # "none"}
                           /\ worker[w] \notin {r \in WorkerSet : r.pc \notin {"none", "leave"}}
                           /\ worker[w] \notin {r \in WorkerSet : r.pc = "callback"}
    BY <2>1
  <2>3. Cnt(worker, {r \in WorkerSet : r.pc # "none"}) = 0
    BY <2>1, <2>2, CntSome
  <2>4. Cnt(worker, {r \in WorkerSet : r.pc \notin {"none", "leave"}}) = 0
    BY <2>1, <2>2, CntSome
  <2>5. Cnt(worker, {r \in WorkerSet : r.pc = "callback"}) = 0
    BY <2>1, <2>2, CntSome
  <2> QED BY <2>3, <2>4, <2>5 DEF AllW, StayW, RunW
<1>6. Queued = 0
  <2>1. Len(pools[1]) = 0 /\ Len(pools[2]) = 0 /\ Len(pools[3]) = 0
    BY <1>0
  <2> QED BY <2>1 DEF Queued
<1>7. One(pool.shutdown = FALSE) = 1 /\ One(group.shutdown = FALSE) = 1
  BY <1>1, <1>2 DEF One
<1>8. PoolBal /\ BusyBal
  BY <1>2, <1>4, <1>5, <1>6, <1>7 DEF PoolBal, PoolOK, BusyBal
<1>9. GroupBal /\ IoBal
  BY <1>0, <1>1, <1>3, <1>4, <1>7 DEF GroupBal, GroupOK, IoBal
<1> QED BY <1>8, <1>9 DEF CountInv

(* It holds throughout. *)
LEMMA CountAlways == Spec => [](BaseInv /\ CoreInv /\ CountInv /\ program \in Programs)
<1>1. Init => BaseInv /\ CoreInv /\ CountInv /\ program \in Programs
  BY BaseInit, CoreInit, CountInit
<1>2. BaseInv /\ CoreInv /\ CountInv /\ program \in Programs /\ [Next]_vars
        => (BaseInv /\ CoreInv /\ CountInv /\ program \in Programs)'
  <2> SUFFICES ASSUME BaseInv, CoreInv, CountInv, program \in Programs, [Next]_vars
               PROVE  (BaseInv /\ CoreInv /\ CountInv /\ program \in Programs)'
    OBVIOUS
  <2>1. BaseInv' /\ program' = program
    BY NextOK
  <2> QED BY <2>1, CoreNext, CountNext
<1> QED BY <1>1, <1>2, PTL DEF Spec

-----------------------------------------------------------------------------
(* What the runs check of the pool follows. *)

(* Everything that is known of an object. *)
LEMMA ObjectIs ==
  ASSUME BaseInv, CoreInv, NEW o \in Objects
  PROVE  /\ ObjOK(o, obj[o], WN(o), CN(o), HN(o), PN(o), InService(o))
         /\ Fields(obj[o], WN(o), CN(o), HN(o), PN(o), InService(o))
         /\ obj[o].life = "live" => Lively(o, obj[o], WN(o), CN(o), HN(o), PN(o))
         /\ obj[o] \in ObjRec
<1>1. /\ Typed(obj[o], WN(o), CN(o), HN(o), PN(o), InService(o))
      /\ ObjOK(o, obj[o], WN(o), CN(o), HN(o), PN(o), InService(o)) /\ obj[o] \in ObjRec
  BY GoodTyped DEF BaseInv, CoreInv
<1> QED BY <1>1, FieldsAre

(* An object on a list of the pool is pending. *)
LEMMA ListedIs ==
  ASSUME BaseInv, CoreInv, NEW o \in Objects
  PROVE  /\ obj[o].pending > 0 => \E i : Listed(o) = {i}
         /\ ~(obj[o].pending > 0) => Listed(o) = {}
<1>1. Priority[o] \in 1..3 /\ pools \in PoolLists
  BY PoolConstants DEF BaseInv, Shape
<1>2. PICK s \in Seq(Objects) : s = pools[Priority[o]]
  BY <1>1, PlacesAre
<1>3. Once(s) /\ (o \in Rng(s) <=> obj[o].pending > 0)
  BY <1>1, <1>2 DEF CoreInv, ListedOK
<1>4. DOMAIN s = 1..Len(s) /\ Listed(o) = {i \in DOMAIN s : s[i] = o}
  BY <1>2 DEF Listed
<1>5. CASE obj[o].pending > 0
  <2>1. PICK i \in 1..Len(s) : s[i] = o
    BY <1>3, <1>5 DEF Rng
  <2>2. \A j \in 1..Len(s) : s[j] = o => j = i
    BY <1>3, <2>1 DEF Once
  <2> QED BY <1>4, <1>5, <2>1, <2>2
<1>6. CASE ~(obj[o].pending > 0)
  <2>1. \A j \in 1..Len(s) : s[j] # o
    BY <1>3, <1>6 DEF Rng
  <2> QED BY <1>4, <1>6, <2>1
<1> QED BY <1>5, <1>6

(* The workers that run a callback are counted. *)
LEMMA RunningIs ==
  ASSUME Shape
  PROVE  RunW = Cardinality(Running)
<1>1. worker \in [Workers -> WorkerSet]
  BY DEF Shape
<1>2. {x \in DOMAIN worker : worker[x] \in {r \in WorkerSet : r.pc = "callback"}} = Running
  BY <1>1 DEF Running
<1> QED BY <1>2 DEF RunW, Cnt

(* The lists and counts of the pool agree. *)
LEMMA CountsAgreeIf ==
  ASSUME BaseInv, CoreInv, CountInv
  PROVE  CountsAgree
<1>1. QueuedOnce
  <2> SUFFICES ASSUME NEW o \in Objects
               PROVE  Cardinality(Listed(o)) = IF obj[o].pending > 0 THEN 1 ELSE 0
    BY DEF QueuedOnce
  <2>1. CASE obj[o].pending > 0
    <3>1. PICK i : Listed(o) = {i}
      BY <2>1, ListedIs
    <3> QED BY <2>1, <3>1, FS_Singleton
  <2>2. CASE ~(obj[o].pending > 0)
    <3>1. Listed(o) = {}
      BY <2>2, ListedIs
    <3> QED BY <2>2, <3>1, FS_EmptySet
  <2> QED BY <2>1, <2>2
<1>2. BusyCoversWork
  <2>1. Shape /\ RunW = Cardinality(Running)
    BY RunningIs DEF BaseInv
  <2> QED BY <2>1 DEF CountInv, BusyBal, Queued, BusyCoversWork
<1>3. CompletionForEachCallback
  <2> SUFFICES ASSUME NEW o \in Objects, Type[o] = "io"
               PROVE  obj[o].pending <= obj[o].completions
    BY DEF CompletionForEachCallback
  <2> QED BY ObjectIs DEF ObjOK, CountPart
<1> QED BY <1>1, <1>2, <1>3 DEF CountsAgree

(* Nobody is about an object that is dying or gone. *)
LEMMA NobodyUses ==
  ASSUME BaseInv, CoreInv, NEW o \in Objects, obj[o].life \in {"dying", "gone"}
  PROVE  /\ obj[o].shutdown = TRUE /\ obj[o].pending = 0 /\ Listed(o) = {}
         /\ obj[o].running = 0 /\ obj[o].associated = 0
         /\ \A w \in Running : worker[w].obj # o
         /\ \A t \in Callers : ~Uses(t, o)
<1>0. Shape /\ CallersInv
  BY DEF BaseInv, CoreInv
<1>1. /\ ObjOK(o, obj[o], WN(o), CN(o), HN(o), PN(o), InService(o))
      /\ Fields(obj[o], WN(o), CN(o), HN(o), PN(o), InService(o))
  BY ObjectIs
<1>2. Unused(obj[o], WN(o), CN(o)) /\ obj[o].shutdown = TRUE
  BY <1>1 DEF ObjOK, DeadPart
<1>3. obj[o].pending = 0 /\ obj[o].running = 0 /\ obj[o].associated = 0
  <2>1. obj[o].running = WN(o).run /\ obj[o].associated = WN(o).linked /\ WN(o).run = 0
    BY <1>1, <1>2 DEF ObjOK, CountPart, Unused
  <2>2. WN(o).linked \in Nat /\ WN(o).linked <= WN(o).run
    BY <1>1 DEF Fields
  <2> QED BY <1>2, <2>1, <2>2 DEF Unused
<1>4. Listed(o) = {}
  BY <1>3, ListedIs
<1>5. \A w \in Running : worker[w].obj # o
  <2>1. DOMAIN worker = Workers /\ IsFiniteSet(Workers) /\ \A w \in Workers : worker[w] \in WorkerSet
    BY <1>0, PoolConstants DEF Shape
  <2>2. Cnt(worker, RunsOf(o)) = 0
    BY <1>2 DEF Unused, WN
  <2>3. \A w \in Workers : worker[w] \notin RunsOf(o)
    BY <2>1, <2>2, CntSome
  <2> QED BY <2>1, <2>3 DEF Running, RunsOf
<1>6. ASSUME NEW t \in Callers PROVE ~Uses(t, o)
  <2>1. /\ DOMAIN caller = Callers /\ IsFiniteSet(Callers) /\ caller[t] \in CallerSet /\ CallerGood(caller[t])
    BY <1>0, <1>6, PoolConstants DEF Shape, CallersInv
  <2>2. CN(o).wait = 0
    <3>1. CN(o).wait > 0 => obj[o].shutdown = FALSE
      BY <1>1 DEF ObjOK, UsePart, UserPart
    <3>2. CN(o).wait \in Nat
      BY <1>1 DEF Fields
    <3> QED BY <1>2, <3>1, <3>2
  <2>3. /\ Cnt(caller, CallsAt(o, {"submit"})) = 0 /\ Cnt(caller, CallsAt(o, {"join"})) = 0
        /\ Cnt(caller, CallsAt(o, {"release"})) = 0 /\ Cnt(caller, CallsAt(o, {"wait", "sleep"})) = 0
        /\ Cnt(caller, Keepers(o)) = 0
    BY <1>2, <2>2 DEF Unused, CN
  <2>4. /\ caller[t] \notin CallsAt(o, {"submit"}) /\ caller[t] \notin CallsAt(o, {"join"})
        /\ caller[t] \notin CallsAt(o, {"release"}) /\ caller[t] \notin CallsAt(o, {"wait", "sleep"})
        /\ caller[t] \notin Keepers(o)
    BY <1>6, <2>1, <2>3, CntSome
  <2>5. /\ caller[t].pc \in {"submit", "join", "release", "wait", "sleep"} => caller[t].obj # o
        /\ o \notin Rng(caller[t].list)
    BY <2>1, <2>4 DEF CallsAt, Keepers
  <2>6. caller[t].list \in Seq(Objects)
    BY <2>1 DEF CallerSet, CallerRec
  <2>7. ~(\E i \in DOMAIN caller[t].list : caller[t].list[i] = o)
    BY <2>5, <2>6 DEF Rng
  <2>8. caller[t].pc \in {"gcancel", "gwait", "gsleep", "gdrop"} => caller[t].obj # o
    <3>1. SUFFICES ASSUME caller[t].pc \in {"gcancel", "gwait", "gsleep", "gdrop"} PROVE caller[t].obj # o
      OBVIOUS
    <3>2. caller[t].list # <<>> /\ (caller[t].obj = Nil \/ caller[t].obj = Head(caller[t].list))
      BY <2>1, <3>1 DEF CallerSet, CallerGood
    <3>3. Head(caller[t].list) \in Rng(caller[t].list)
      BY <2>6, <3>2, TailIs
    <3>4. Nil # o
      BY PoolConstants
    <3> QED BY <2>5, <3>2, <3>3, <3>4
  <2>9. caller[t].pc \in {"idle", "submit", "join", "release", "destroy", "wait", "sleep",
                          "gcancel", "gwait", "gsleep", "gdrop"}
    BY <2>1 DEF CallerSet, CallerRec
  <2> QED BY <2>5, <2>7, <2>8, <2>9 DEF Uses
<1> QED BY <1>2, <1>3, <1>4, <1>5, <1>6

(* A list of the pool that is not empty has a pending object, which is alive. *)
LEMMA WaitingIsAlive ==
  ASSUME BaseInv, CoreInv, Waiting
  PROVE  \E o \in Objects : obj[o].life = "live"
<1>1. PICK p \in 1..3 : pools[p] # <<>>
  BY DEF Waiting
<1>2. pools \in PoolLists
  BY DEF BaseInv, Shape
<1>3. PICK s \in Seq(OfPriority(p)) : s = pools[p]
  BY <1>2 DEF PoolLists
<1>4. PICK o : o = Head(s)
  OBVIOUS
<1>5. o \in Rng(s) /\ o \in OfPriority(p)
  BY <1>1, <1>3, <1>4, TailIs
<1>6. o \in Objects /\ Priority[o] = p
  BY <1>5 DEF OfPriority
<1>7. obj[o].pending > 0
  BY <1>3, <1>5, <1>6 DEF CoreInv, ListedOK
<1>8. /\ Typed(obj[o], WN(o), CN(o), HN(o), PN(o), InService(o))
      /\ ObjOK(o, obj[o], WN(o), CN(o), HN(o), PN(o), InService(o))
  BY <1>6, GoodTyped DEF BaseInv, CoreInv
<1> QED BY <1>6, <1>7, <1>8, AliveIf

(* Nothing is freed while it is in use. *)
LEMMA NothingFreedInUseIf ==
  ASSUME BaseInv, CoreInv, CountInv
  PROVE  NothingFreedInUse
<1>0. Shape /\ PoolBal /\ GroupBal
  BY DEF BaseInv, CountInv
<1>1. ASSUME pool.life = "gone"
      PROVE  /\ pool.shutdown = TRUE /\ pool.objcount = 0 /\ ~Waiting
             /\ \A w \in Workers : worker[w].pc = "none"
  <2>1. pool.refcount = 0
    BY <1>0, <1>1, PoolAlive
  <2>2. pool.shutdown = TRUE /\ ~(\E o \in Objects : Alive(obj[o]))
    <3>1. pool.shutdown \in BOOLEAN
      BY <1>0 DEF Shape, PoolRec
    <3>2. ~(pool.refcount > 0)
      BY ONLY <2>1
    <3>3. pool.shutdown # FALSE
      BY <1>0, <3>2, PoolAlive
    <3>4. ~(\E o \in Objects : Alive(obj[o]))
      BY <1>0, <3>2, PoolAlive
    <3> QED BY <3>1, <3>3, <3>4, Zenon
  <2>3. ~(\E w \in Workers : worker[w].pc # "none")
    BY <1>0, <2>1, PoolAlive
  <2>4. pool.objcount = 0
    <3>1. Lives = {}
      BY <2>2 DEF Lives
    <3> QED BY <1>0, <3>1, FS_EmptySet DEF PoolBal, PoolOK
  <2>5. ~Waiting
    BY <2>2, WaitingIsAlive DEF Alive
  <2> QED BY <2>2, <2>3, <2>4, <2>5
<1>2. ASSUME group.life = "gone"
      PROVE  group.shutdown = TRUE /\ \A o \in Objects : obj[o].grouped => obj[o].life = "gone"
  <2>1. PICK n \in Nat : n = Cardinality(Bound)
    BY MarksAre
  <2>2. group.refcount = 0 /\ group.refcount = One(group.shutdown = FALSE) + n
    BY <1>0, <1>2, <2>1 DEF GroupBal, GroupOK
  <2>3. One(group.shutdown = FALSE) = 0 /\ n = 0
    <3>1. One(group.shutdown = FALSE) \in Nat
      BY DEF One
    <3> QED BY <2>1, <2>2, <3>1
  <2>4. group.shutdown = TRUE
    <3>1. group.shutdown \in BOOLEAN
      BY <1>0 DEF Shape, GroupRec
    <3> QED BY <2>3, <3>1 DEF One
  <2>5. Bound = {}
    BY <2>1, <2>3, MarksAre
  <2>6. ASSUME NEW o \in Objects, obj[o].grouped PROVE obj[o].life = "gone"
    <3>1. obj[o].grouped = TRUE /\ obj[o].life \in {"none", "live", "dying", "gone"}
      BY <1>0, <2>6 DEF Shape, ObjRec
    <3>2. ~Pend(o) /\ obj[o].life # "none"
      BY <1>0, <2>4, <3>1 DEF GroupBal
    <3>3. ~Alive(obj[o])
      BY <2>5, <3>1, <3>2 DEF Bound
    <3> QED BY <3>1, <3>2, <3>3 DEF Alive
  <2> QED BY <2>4, <2>6
<1> QED BY <1>1, <1>2, NobodyUses DEF NothingFreedInUse

-----------------------------------------------------------------------------
(* The terms of References are the numbers of the invariant. *)

(* Three finite sets of which no two meet. *)
LEMMA ThreeSets ==
  ASSUME NEW A, NEW B, NEW C, IsFiniteSet(A), IsFiniteSet(B), IsFiniteSet(C), A \cap B = {},
         (A \cup B) \cap C = {}
  PROVE  Cardinality(A \cup B \cup C) = Cardinality(A) + Cardinality(B) + Cardinality(C)
<1>1. Cardinality({}) = 0 /\ Cardinality(A) \in Nat /\ Cardinality(B) \in Nat /\ Cardinality(C) \in Nat
  BY FS_EmptySet, FS_CardinalityType
<1>2. IsFiniteSet(A \cup B) /\ Cardinality(A \cup B) = Cardinality(A) + Cardinality(B)
  <2>1. IsFiniteSet(A \cup B) /\ Cardinality(A \cup B) = Cardinality(A) + Cardinality(B) - Cardinality(A \cap B)
    BY FS_Union
  <2>2. Cardinality(A \cap B) = 0
    BY <1>1
  <2> QED BY <1>1, <2>1, <2>2
<1>3. Cardinality((A \cup B) \cup C) = Cardinality(A \cup B) + Cardinality(C) - Cardinality({})
  BY <1>2, FS_Union
<1> QED BY <1>1, <1>2, <1>3

(* They are. *)
LEMMA ReferencesAre ==
  ASSUME Shape, NEW o \in Objects
  PROVE  References(o) = One(obj[o].owner # "none" /\ ~obj[o].shutdown)
                           + One(o \in Ios /\ obj[o].owner = "none" /\ ~obj[o].shutdown)
                           + obj[o].pending + WN(o).run + Posts(o, CN(o)) + CN(o).keep + HN(o)
<1>1. /\ DOMAIN worker = Workers /\ IsFiniteSet(Workers) /\ \A w \in Workers : worker[w] \in WorkerSet
      /\ DOMAIN caller = Callers /\ IsFiniteSet(Callers) /\ \A t \in Callers : caller[t] \in CallerSet
  BY PoolConstants DEF Shape
<1>2. Cardinality({w \in Running : worker[w].obj = o}) = WN(o).run
  <2>1. {w \in Running : worker[w].obj = o} = {x \in DOMAIN worker : worker[x] \in RunsOf(o)}
    BY <1>1 DEF Running, RunsOf
  <2> QED BY <2>1 DEF WN, Cnt
<1>3. Cardinality({t \in Callers : \E i \in DOMAIN caller[t].list : caller[t].list[i] = o}) = CN(o).keep
  <2>1. ASSUME NEW t \in Callers
        PROVE  (\E i \in DOMAIN caller[t].list : caller[t].list[i] = o) <=> caller[t] \in Keepers(o)
    <3>1. caller[t] \in CallerSet /\ caller[t].list \in Seq(Objects)
      BY <1>1, <2>1 DEF CallerSet, CallerRec
    <3>2. DOMAIN caller[t].list = 1..Len(caller[t].list)
      BY <3>1
    <3> QED BY <3>1, <3>2 DEF Keepers, Rng
  <2>2. {t \in Callers : \E i \in DOMAIN caller[t].list : caller[t].list[i] = o}
          = {x \in DOMAIN caller : caller[x] \in Keepers(o)}
    BY <1>1, <2>1
  <2> QED BY <2>2 DEF CN, Cnt
<1>4. Cardinality({t \in Callers : Type[o] = "simple" /\ caller[t].obj = o
                                     /\ caller[t].pc \in {"submit", "join", "release"}}) = Posts(o, CN(o))
  <2>1. PICK T : T = {t \in Callers : Type[o] = "simple" /\ caller[t].obj = o
                                        /\ caller[t].pc \in {"submit", "join", "release"}}
    OBVIOUS
  <2>2. CASE Type[o] = "simple"
    <3>1. PICK A, B, C : /\ A = {x \in DOMAIN caller : caller[x] \in CallsAt(o, {"submit"})}
                         /\ B = {x \in DOMAIN caller : caller[x] \in CallsAt(o, {"join"})}
                         /\ C = {x \in DOMAIN caller : caller[x] \in CallsAt(o, {"release"})}
      OBVIOUS
    <3>2. T = A \cup B \cup C /\ A \cap B = {} /\ (A \cup B) \cap C = {}
      BY <1>1, <2>1, <2>2, <3>1 DEF CallsAt
    <3>3. A \subseteq Callers /\ B \subseteq Callers /\ C \subseteq Callers
      BY <1>1, <3>1
    <3>4. IsFiniteSet(A) /\ IsFiniteSet(B) /\ IsFiniteSet(C)
      BY <1>1, <3>3, FS_Subset
    <3>5. Cardinality(T) = Cardinality(A) + Cardinality(B) + Cardinality(C)
      BY <3>2, <3>4, ThreeSets
    <3>6. Cardinality(A) = CN(o).sub /\ Cardinality(B) = CN(o).join /\ Cardinality(C) = CN(o).rel
      BY <3>1 DEF CN, Cnt
    <3>7. Cardinality(T) = Posts(o, CN(o))
      BY <2>2, <3>5, <3>6 DEF Posts
    <3> QED BY <2>1, <3>7
  <2>3. CASE Type[o] # "simple"
    <3>1. T = {}
      BY <2>1, <2>3
    <3>2. Cardinality(T) = 0 /\ Posts(o, CN(o)) = 0
      BY <2>3, <3>1, FS_EmptySet DEF Posts
    <3> QED BY <2>1, <3>2
  <2> QED BY <2>2, <2>3
<1> QED BY <1>2, <1>3, <1>4 DEF References, HN, HeldBy

(* The reference count of a live object is the number of references. *)
LEMMA RefcountIs ==
  ASSUME BaseInv, CoreInv, NEW o \in Objects, obj[o].life = "live"
  PROVE  obj[o].refcount = References(o)
<1>1. /\ Fields(obj[o], WN(o), CN(o), HN(o), PN(o), InService(o))
      /\ Lively(o, obj[o], WN(o), CN(o), HN(o), PN(o))
  BY ObjectIs
<1>2. One(obj[o].owner # "none" /\ ~obj[o].shutdown)
        + One(o \in Ios /\ obj[o].owner = "none" /\ ~obj[o].shutdown) = Own(o, obj[o])
  <2>1. obj[o].shutdown \in BOOLEAN /\ (o \in Ios <=> Type[o] = "io")
    BY <1>1, KindsOfObjects DEF Fields
  <2>2. CASE obj[o].owner # "none"
    BY <2>1, <2>2 DEF One, Own
  <2>3. CASE obj[o].owner = "none"
    BY <2>1, <2>3 DEF One, Own
  <2> QED BY <2>2, <2>3
<1>3. PICK r : r = References(o)
  OBVIOUS
<1>4. r = One(obj[o].owner # "none" /\ ~obj[o].shutdown)
            + One(o \in Ios /\ obj[o].owner = "none" /\ ~obj[o].shutdown)
            + obj[o].pending + WN(o).run + Posts(o, CN(o)) + CN(o).keep + HN(o)
  BY <1>3, ReferencesAre DEF BaseInv
<1>5. obj[o].refcount = Own(o, obj[o]) + obj[o].pending + WN(o).run + Posts(o, CN(o)) + CN(o).keep + HN(o)
  BY <1>1 DEF Lively
<1> QED BY <1>2, <1>3, <1>4, <1>5

(* No counter of the pool is negative. *)
LEMMA PoolTypes ==
  ASSUME BaseInv, CoreInv, CountInv
  PROVE  PoolTypeOK /\ IoTypeOK
<1>0. Shape /\ PoolBal /\ BusyBal /\ GroupBal /\ IoBal /\ IoShape
  BY DEF BaseInv, CountInv, CoreInv
<1>1. pool.refcount \in Nat /\ pool.objcount \in Nat /\ pool.num_workers \in Nat /\ pool.num_busy_workers \in Nat
  <2>1. Queued \in Nat /\ RunW \in Nat
    <3>1. pools \in PoolLists /\ Queued = Places(pools)
      BY <1>0 DEF Shape, Queued, Places
    <3> QED BY <1>0, <3>1, PlacesAre, WorkersAre
  <2>2. pool.num_busy_workers \in Int
    BY <1>0 DEF Shape, PoolRec
  <2> QED BY <1>0, <2>1, <2>2, PoolAlive DEF BusyBal
<1>2. pool \in [life : {"live", "gone"}, cs : Workers \cup {Nil, "io"}, refcount : Nat,
                objcount : Nat, shutdown : BOOLEAN, max_workers : Nat \ {0},
                min_workers : Nat, num_workers : Nat, num_busy_workers : Nat,
                late : 0..MaxLate]
  BY <1>0, <1>1 DEF Shape, PoolRec
<1>3. ASSUME NEW o \in Objects
      PROVE  obj[o] \in [life : {"none", "live", "dying", "gone"}, owner : {"none", "user", "group"},
                         refcount : Nat, shutdown : BOOLEAN, grouped : BOOLEAN, member : BOOLEAN,
                         pending : Nat, running : Nat, associated : Nat, signaled : Nat, ops : Nat,
                         skipped : Nat, completions : Nat, posts : Nat]
  <2>1. /\ CountPart(o, obj[o], WN(o), PN(o)) /\ obj[o] \in ObjRec
        /\ Fields(obj[o], WN(o), CN(o), HN(o), PN(o), InService(o))
    BY <1>3, ObjectIs DEF ObjOK
  <2>2. /\ obj[o].refcount \in Nat /\ obj[o].pending \in Nat /\ obj[o].running \in Nat
        /\ obj[o].associated \in Nat /\ obj[o].signaled \in Nat /\ obj[o].ops \in Nat
        /\ obj[o].skipped \in Nat /\ obj[o].completions \in Nat /\ obj[o].posts \in Nat
    BY <2>1 DEF CountPart, Fields
  <2> QED BY <2>1, <2>2 DEF ObjRec
<1>4. group \in [life : {"live", "gone"}, refcount : Nat, shutdown : BOOLEAN, members : Seq(Objects)]
  <2>1. PICK n \in Nat : n = Cardinality(Bound)
    BY MarksAre
  <2>2. group.refcount = One(group.shutdown = FALSE) + n /\ One(group.shutdown = FALSE) \in Nat
    BY <1>0, <2>1 DEF GroupBal, GroupOK, One
  <2>3. group.refcount \in Nat
    BY <2>1, <2>2
  <2> QED BY <1>0, <2>3 DEF Shape, GroupRec
<1>5. PoolTypeOK
  <2>1. pools \in [1..3 -> Seq(Objects)]
    BY <1>0 DEF Shape, PoolLists
  <2>2. obj \in [Objects ->
                 [life : {"none", "live", "dying", "gone"}, owner : {"none", "user", "group"},
                  refcount : Nat, shutdown : BOOLEAN, grouped : BOOLEAN, member : BOOLEAN,
                  pending : Nat, running : Nat, associated : Nat, signaled : Nat, ops : Nat,
                  skipped : Nat, completions : Nat, posts : Nat]]
    <3>1. PICK R : R = [life : {"none", "live", "dying", "gone"}, owner : {"none", "user", "group"},
                  refcount : Nat, shutdown : BOOLEAN, grouped : BOOLEAN, member : BOOLEAN,
                  pending : Nat, running : Nat, associated : Nat, signaled : Nat, ops : Nat,
                  skipped : Nat, completions : Nat, posts : Nat]
      OBVIOUS
    <3>2. obj \in [Objects -> R]
      <4>1. \A o \in Objects : obj[o] \in R
        BY <1>3, <3>1
      <4>2. obj \in [Objects -> ObjRec]
        BY <1>0 DEF Shape
      <4> QED BY <4>1, <4>2
    <3> QED BY <3>1, <3>2
  <2>3. worker \in [Workers -> WorkerRec] /\ caller \in [Callers -> CallerRec]
    <3>1. WorkerSet \subseteq WorkerRec /\ CallerSet \subseteq CallerRec
      BY DEF WorkerSet, CallerSet
    <3>2. worker \in [Workers -> WorkerSet] /\ caller \in [Callers -> CallerSet]
      BY <1>0 DEF Shape
    <3> QED BY <3>1, <3>2
  <2> QED BY <1>2, <1>4, <2>1, <2>2, <2>3, Zenon DEF PoolTypeOK, WorkerRec, CallerRec
<1>6. IoTypeOK
  <2>1. ioq \in IoqRec /\ port \in Seq(Ios \cup {NoKey}) /\ io \in [Ios -> IoRec]
    BY <1>0 DEF IoShape, IoState
  <2>2. ioq.objcount \in Nat
    BY <1>0, MarksAre DEF IoBal
  <2> QED BY <2>1, <2>2 DEF IoTypeOK, IoqRec, IoRec
<1> QED BY <1>5, <1>6

-----------------------------------------------------------------------------
(* How often timers and waits were set. *)
LEMMA SetsAlways == Spec => [](sets \in Nat)
<1>1. Init => sets \in Nat
  BY DEF Init
<1>2. sets \in Nat /\ [Next]_vars => (sets \in Nat)'
  <2> SUFFICES ASSUME sets \in Nat, [Next]_vars PROVE sets' \in Nat
    OBVIOUS
  <2>1. ASSUME NEW w, WorkerMoves(w) \/ CallbackCalls(w) PROVE sets' \in {sets, sets + 1}
    BY <2>1 DEF WorkerMoves, CallbackCalls, InPool, CallbackSetsTimer, Sets
  <2>2. ASSUME NEW t, CallerMoves(t) \/ PoolCalls(t) PROVE sets' \in {sets, sets + 1}
    BY <2>2 DEF CallerMoves, PoolCalls, InPool
  <2>3. ASSUME NEW t, NEW o, ObjectCalls(t, o) PROVE sets' \in {sets, sets + 1}
    BY <2>3 DEF ObjectCalls, InPool, InIo, TpSetTimer, TpSetWait, Sets
  <2>4. ASSUME ServiceMoves PROVE sets' = sets
    BY <2>4 DEF ServiceMoves, TimerThread, TimerExpires, IoThread, InIo, Tick, WaitThread, IoCompletes
  <2>5. ASSUME NEW h, Signal(h) PROVE sets' = sets
    BY <2>5 DEF Signal
  <2>6. CASE UNCHANGED vars
    BY <2>6 DEF vars
  <2>7. CASE Next
    BY <2>1, <2>2, <2>3, <2>4, <2>5, <2>7 DEF Next
  <2> QED BY <2>6, <2>7
<1> QED BY <1>1, <1>2, PTL DEF Spec

-----------------------------------------------------------------------------
(* The assertions of tp_object_release, tp_threadpool_release and           *)
(* tp_group_release: whatever calls, callbacks and service threads do, an   *)
(* object is destroyed only when nobody queues, runs or waits for it, and   *)
(* pool and group after all that hangs on them.                             *)
THEOREM FreedOnlyUnused == Spec => []NothingFreedInUse
<1>1. BaseInv /\ CoreInv /\ CountInv => NothingFreedInUse
  BY NothingFreedInUseIf
<1> QED BY <1>1, CountAlways, PTL

(* The assertions of threadpool_worker_proc and tp_object_execute: the      *)
(* lists of the pool hold each pending object once, num_busy_workers covers *)
(* the items that are queued or run, and each I/O callback that is queued   *)
(* finds its completion.                                                    *)
THEOREM CountsDoAgree == Spec => []CountsAgree
<1>1. BaseInv /\ CoreInv /\ CountInv => CountsAgree
  BY CountsAgreeIf
<1> QED BY <1>1, CountAlways, PTL

(* The types, no counter of the pool, its objects, its group and its queues *)
(* ever being negative; and the refcount of a live object is exactly the    *)
(* number of those who hold a reference to it.                              *)
THEOREM ReferencesAreCounted == Spec => []ReferencesCounted
<1>1. BaseInv /\ CoreInv /\ CountInv /\ sets \in Nat => ReferencesCounted
  <2> SUFFICES ASSUME BaseInv, CoreInv, CountInv, sets \in Nat PROVE ReferencesCounted
    OBVIOUS
  <2>1. TypeOK
    BY PoolTypes, TimerInvGives, WaitInvGives DEF TypeOK, BaseInv
  <2> QED BY <2>1, RefcountIs DEF ReferencesCounted
<1> QED BY <1>1, CountAlways, SetsAlways, PTL

-----------------------------------------------------------------------------
(* What a step does to an object, as far as WorkItems tells.                *)

ItemLife(ob) == IF ob.life \in {"none", "gone"} THEN ob.life
                ELSE IF ob.shutdown = TRUE THEN "closed" ELSE "open"

ItemSame(ob, e) ==
    ItemLife(e) = ItemLife(ob) /\ e.pending = ob.pending /\ e.running = ob.running
ItemOpens(ob, e) ==
    /\ ob.life = "none" /\ ob.pending = 0 /\ ob.running = 0
    /\ e.life = "live" /\ e.shutdown = FALSE /\ e.pending = 0 /\ e.running = 0
ItemSubmits(o, ob, c, e) ==
    /\ ob.life = "live" /\ ob.shutdown = FALSE /\ (Type[o] = "simple" => c.sub > 0)
    /\ e.life = "live" /\ e.shutdown = FALSE /\ e.pending = ob.pending + 1 /\ e.running = ob.running
ItemStarts(ob, e) ==
    /\ ob.pending > 0 /\ ItemLife(e) = ItemLife(ob)
    /\ e.pending = ob.pending - 1 /\ e.running = ob.running + 1
ItemFinishes(ob, e) ==
    /\ ob.running > 0 /\ ItemLife(e) \in {ItemLife(ob), "closed"}
    /\ e.pending = ob.pending /\ e.running = ob.running - 1
ItemCancels(ob, e) ==
    /\ ob.life = "live" /\ ItemLife(e) = ItemLife(ob) /\ e.pending = 0 /\ e.running = ob.running
ItemCloses(ob, e) ==
    /\ ob.life = "live" /\ ob.shutdown = FALSE /\ e.life \in {"live", "dying"} /\ e.shutdown = TRUE
    /\ e.pending = ob.pending /\ e.running = ob.running
ItemFrees(ob, e) ==
    /\ ob.life = "dying" /\ ob.shutdown = TRUE /\ ob.pending = 0 /\ ob.running = 0
    /\ e.life = "gone" /\ e.pending = 0 /\ e.running = 0

ItemMove(o, ob, c, e) ==
    \/ ItemSame(ob, e) \/ ItemOpens(ob, e) \/ ItemSubmits(o, ob, c, e) \/ ItemStarts(ob, e)
    \/ ItemFinishes(ob, e) \/ ItemCancels(ob, e) \/ ItemCloses(ob, e) \/ ItemFrees(ob, e)

(* One object moves, or none does. *)
ItemsStep ==
    \/ \A o \in Objects : ItemSame(obj[o], obj'[o])
    \/ \E o \in Objects : KeptObj(o) /\ ItemMove(o, obj[o], CN(o), obj'[o])

(* An object that stays as it is. *)
LEMMA ItemStill == \A ob : ItemSame(ob, ob)
  BY DEF ItemSame

(* The objects stay. *)
LEMMA ItemsStill ==
  ASSUME obj' = obj
  PROVE  ItemsStep
  BY ItemStill DEF ItemsStep

(* One moves. *)
LEMMA ItemsOne ==
  ASSUME NEW o \in Objects, NEW e, Shape, obj' = [obj EXCEPT ![o] = e], ItemMove(o, obj[o], CN(o), e)
  PROVE  ItemsStep
<1>1. obj'[o] = e /\ KeptObj(o)
  BY DEF Shape, KeptObj
<1> QED BY <1>1 DEF ItemsStep

(* What is known of an object, as facts for a move. *)
LEMMA ItemFacts ==
  ASSUME NEW o \in Objects, NEW ob, NEW w, NEW c, NEW h, NEW p, NEW s, Typed(ob, w, c, h, p, s),
         ObjOK(o, ob, w, c, h, p, s)
  PROVE  /\ ob.pending \in Nat /\ ob.running \in Nat /\ ob.running = w.run /\ ob.shutdown \in BOOLEAN
         /\ ob.life \in {"none", "live", "dying", "gone"}
         /\ ob.life = "none" => ob.pending = 0 /\ ob.running = 0 /\ ob.shutdown = FALSE
         /\ ob.life = "dying" => ob.pending = 0 /\ ob.running = 0 /\ ob.shutdown = TRUE
<1>1. Fields(ob, w, c, h, p, s)
  BY FieldsAre
<1>2. ob.pending >= 0 /\ ob.running = w.run
  BY DEF ObjOK, CountPart
<1>3. /\ ob.life = "none" => ob.pending = 0 /\ w.run = 0 /\ ob.shutdown = FALSE
      /\ ob.life = "dying" => ob.pending = 0 /\ w.run = 0 /\ ob.shutdown = TRUE
  BY DEF ObjOK, DeadPart, Unused
<1> QED BY <1>1, <1>2, <1>3 DEF Fields

(* An object is allocated. *)
LEMMA OpensMove ==
  ASSUME NEW o \in Objects, NEW ob, NEW w, NEW c, NEW h, NEW p, NEW s, Typed(ob, w, c, h, p, s),
         ObjOK(o, ob, w, c, h, p, s), ob.life = "none", NEW grp, NEW e, InitializedTo(o, e, grp)
  PROVE  ItemMove(o, ob, c, e)
<1>1. ob.pending = 0 /\ ob.running = 0
  BY ItemFacts
<1> QED BY <1>1 DEF ItemMove, ItemOpens, InitializedTo

(* A callback is submitted. *)
LEMMA SubmitsMove ==
  ASSUME NEW o \in Objects, NEW ob, NEW c, ob.life = "live", ob.shutdown = FALSE,
         Type[o] = "simple" => c.sub > 0, NEW f, Ready(ob, f), NEW e, SubmittedTo(f, e)
  PROVE  ItemMove(o, ob, c, e)
  BY DEF ItemMove, ItemSubmits, Ready, SubmittedTo

(* A callback is started. *)
LEMMA StartsMove ==
  ASSUME NEW o \in Objects, NEW ob, NEW c, ob.pending > 0, NEW k \in BOOLEAN, NEW e, ExecutedIs(ob, e, k)
  PROVE  ItemMove(o, ob, c, e)
  BY DEF ItemMove, ItemStarts, ExecutedIs, ItemLife

(* A callback returns. *)
LEMMA FinishesMove ==
  ASSUME NEW o \in Objects, NEW ob, NEW c, ob.life = "live", ob.running > 0, ob.shutdown \in BOOLEAN,
         NEW a \in BOOLEAN, NEW simple \in BOOLEAN, NEW r, ReturnedIs(ob, r, a, simple), NEW e, GivenBack(r, e, 1)
  PROVE  ItemMove(o, ob, c, e)
<1>1. e.life \in {"live", "dying"} /\ e.pending = ob.pending /\ e.running = ob.running - 1
  BY DEF ReturnedIs, GivenBack
<1>2. ItemLife(e) \in {"open", "closed"} /\ ItemLife(ob) \in {"open", "closed"}
  BY <1>1 DEF ItemLife
<1>3. ob.shutdown = TRUE => e.shutdown = TRUE
  BY DEF ReturnedIs, GivenBack
<1>4. ItemLife(e) \in {ItemLife(ob), "closed"}
  BY <1>1, <1>2, <1>3 DEF ItemLife
<1> QED BY <1>1, <1>4 DEF ItemMove, ItemFinishes

(* The callbacks of an object are cancelled. *)
LEMMA CancelsMove ==
  ASSUME NEW o \in Objects, NEW ob, NEW c, ob.life = "live", NEW e, ForgottenTo(ob, e)
  PROVE  ItemMove(o, ob, c, e)
<1>1. e.life \in {"live", "dying"} /\ e.shutdown = ob.shutdown /\ e.pending = 0 /\ e.running = ob.running
  BY DEF ForgottenTo
<1>2. ItemLife(e) = ItemLife(ob)
  BY <1>1 DEF ItemLife
<1> QED BY <1>1, <1>2 DEF ItemMove, ItemCancels

(* An object is released; it may have been before. *)
ClosedTo(ob, e) ==
    /\ e.life \in {"live", "dying"} /\ e.shutdown = TRUE
    /\ e.pending = ob.pending /\ e.running = ob.running

(* It is. *)
LEMMA ClosesMove ==
  ASSUME NEW o \in Objects, NEW ob, NEW c, ob.life = "live", ob.shutdown \in BOOLEAN,
         NEW e, ClosedTo(ob, e)
  PROVE  ItemMove(o, ob, c, e)
<1>1. CASE ob.shutdown = FALSE
  BY <1>1 DEF ClosedTo, ItemMove, ItemCloses
<1>2. CASE ob.shutdown = TRUE
  BY <1>2 DEF ClosedTo, ItemMove, ItemSame, ItemLife
<1> QED BY <1>1, <1>2

(* A reference is given back. *)
LEMMA DropsMove ==
  ASSUME NEW o \in Objects, NEW ob, NEW c, ob.life = "live", NEW e, GivenBack(ob, e, 1)
  PROVE  ItemMove(o, ob, c, e)
<1>1. e.life \in {"live", "dying"} /\ e.shutdown = ob.shutdown /\ e.pending = ob.pending /\ e.running = ob.running
  BY DEF GivenBack
<1> QED BY <1>1 DEF ItemMove, ItemSame, ItemLife

(* The object is destroyed. *)
LEMMA FreesMove ==
  ASSUME NEW o \in Objects, NEW ob, NEW w, NEW c, NEW h, NEW p, NEW s, Typed(ob, w, c, h, p, s),
         ObjOK(o, ob, w, c, h, p, s), ob.life = "dying", NEW e, DestroyedTo(ob, e)
  PROVE  ItemMove(o, ob, c, e)
<1>1. ob.pending = 0 /\ ob.running = 0 /\ ob.shutdown = TRUE
  BY ItemFacts
<1> QED BY <1>1 DEF ItemMove, ItemFrees, DestroyedTo

(* What WorkItems does not see. *)
LEMMA PlainMove ==
  ASSUME NEW o, NEW ob, NEW c, NEW e, e.life = ob.life, e.shutdown = ob.shutdown,
         e.pending = ob.pending, e.running = ob.running
  PROVE  ItemSame(ob, e) /\ ItemMove(o, ob, c, e)
  BY DEF ItemMove, ItemSame, ItemLife

(* A live object that is not shut down is submitted. *)
LEMMA SubmitItems ==
  ASSUME BaseInv, BaseInv', CoreInv, NEW o \in Objects, obj[o].life = "live", obj[o].shutdown = FALSE,
         Type[o] = "simple" => CN(o).sub > 0, NEW f, Ready(obj[o], f), NEW p, tp_object_submit(o, f, p)
  PROVE  ItemsStep
<1>1. Shape /\ Shape' /\ ListedOK /\ ObjInv /\ IoShape
  BY DEF BaseInv, CoreInv
<1>2. obj[o].pending \in Nat
  BY <1>1, GoodTyped, ItemFacts
<1>3. f \in ObjRec /\ f.pending = obj[o].pending /\ f.pending >= 0
  BY <1>2 DEF Ready
<1>4. SubmittedTo(f, obj'[o]) /\ KeptObj(o)
  BY <1>1, <1>3, SubmitEffect DEF KeptObj
<1>5. ItemMove(o, obj[o], CN(o), obj'[o])
  BY <1>4, SubmitsMove
<1> QED BY <1>4, <1>5 DEF ItemsStep

(* An object that is dying is destroyed. *)
LEMMA DestroyItems ==
  ASSUME BaseInv, BaseInv', CoreInv, NEW o \in Objects, obj[o].life = "dying", tp_object_destroy(o)
  PROVE  ItemsStep
<1>1. Shape /\ Shape' /\ ListedOK /\ MembersOK /\ ObjInv /\ IoShape
  BY DEF BaseInv, CoreInv
<1>2. /\ Typed(obj[o], WN(o), CN(o), HN(o), PN(o), InService(o))
      /\ ObjOK(o, obj[o], WN(o), CN(o), HN(o), PN(o), InService(o))
  BY <1>1, GoodTyped
<1>3. obj[o].pending = 0 /\ (obj[o].member = TRUE => obj[o].grouped = TRUE)
  BY <1>2, ItemFacts DEF ObjOK, UsePart, GroupPart
<1>4. DestroyedTo(obj[o], obj'[o]) /\ KeptObj(o)
  BY <1>1, <1>3, DestroyEffect DEF KeptObj
<1>5. ItemMove(o, obj[o], CN(o), obj'[o])
  BY <1>2, <1>4, FreesMove
<1> QED BY <1>4, <1>5 DEF ItemsStep

(* A worker takes an item. *)
LEMMA WorkerTakeItems ==
  ASSUME BaseInv, BaseInv', CoreInv, NEW w \in Workers, WorkerTake(w)
  PROVE  ItemsStep
<1>0. Shape /\ Shape' /\ ListedOK
  BY DEF BaseInv, CoreInv
<1>1. Waiting
  BY DEF WorkerTake
<1>2. PICK o \in Objects : o = threadpool_get_next_item
  BY <1>0, <1>1, NextItem
<1>3. pools[Priority[o]] # <<>> /\ Head(pools[Priority[o]]) = o
  BY <1>0, <1>1, <1>2, NextItem DEF threadpool_get_next_item
<1>4. obj[o].pending > 0
  <2>1. PICK p \in 1..3 : p = Priority[o]
    BY PoolConstants
  <2>2. PICK s \in Seq(OfPriority(p)) : s = pools[p]
    BY <1>0, <2>1 DEF Shape, PoolLists
  <2>3. o \in Rng(s)
    BY <1>3, <2>1, <2>2, TailIs
  <2> QED BY <1>0, <2>1, <2>2, <2>3 DEF ListedOK
<1>5. obj' = tp_object_execute(o)
  BY <1>2 DEF WorkerTake
<1>6. PICK k \in BOOLEAN : k = (Type[o] = "io")
  OBVIOUS
<1>7. PICK e : tp_object_execute(o) = [obj EXCEPT ![o] = e] /\ ExecutedIs(obj[o], e, Type[o] = "io")
  BY <1>0, ExecuteIs
<1>8. ExecutedIs(obj[o], e, k)
  BY <1>6, <1>7
<1>9. ItemMove(o, obj[o], CN(o), e)
  BY <1>4, <1>8, StartsMove
<1> QED BY <1>0, <1>5, <1>7, <1>9, ItemsOne

(* A callback returns. *)
LEMMA WorkerReturnItems ==
  ASSUME BaseInv, BaseInv', CoreInv, NEW w \in Workers, WorkerReturn(w)
  PROVE  ItemsStep
<1>0. Shape /\ ObjInv /\ IoShape
  BY DEF BaseInv, CoreInv
<1>1. PICK o : o = worker[w].obj
  OBVIOUS
<1>2. o \in Objects /\ WN(o).run > 0
  BY <1>0, <1>1, RunsIs DEF WorkerReturn
<1>3. PICK a \in BOOLEAN : a = worker[w].associated
  BY <1>0, <1>1, RunsIs DEF WorkerReturn
<1>4. PICK simple \in BOOLEAN : simple = (Type[o] = "simple")
  OBVIOUS
<1>5. /\ Typed(obj[o], WN(o), CN(o), HN(o), PN(o), InService(o))
      /\ ObjOK(o, obj[o], WN(o), CN(o), HN(o), PN(o), InService(o)) /\ obj[o] \in ObjRec
  BY <1>0, <1>2, GoodTyped
<1>6. obj[o].life = "live" /\ obj[o].running > 0 /\ obj[o].shutdown \in BOOLEAN
  BY <1>2, <1>5, ItemFacts, AliveIf
<1>7. PICK r : r = Returned(obj[o], a, simple)
  OBVIOUS
<1>8. PICK e : e = Dropped(r, 1)
  OBVIOUS
<1>9. ReturnedIs(obj[o], r, a, simple)
  BY <1>5, <1>7, ReturnIs
<1>10. r \in ObjRec
  BY <1>9 DEF ReturnedIs
<1>11. GivenBack(r, e, 1)
  BY <1>8, <1>10, DroppedIs DEF GivenBack
<1>12. obj' = [obj EXCEPT ![o] = e]
  BY <1>1, <1>3, <1>4, <1>7, <1>8 DEF WorkerReturn, Returned
<1>13. ItemMove(o, obj[o], CN(o), e)
  BY <1>2, <1>6, <1>9, <1>11, FinishesMove
<1> QED BY <1>0, <1>2, <1>12, <1>13, ItemsOne

(* Workers. *)
LEMMA WorkerMovesItems ==
  ASSUME BaseInv, BaseInv', CoreInv, NEW w \in Workers, WorkerMoves(w)
  PROVE  ItemsStep
<1>0. Shape /\ CoreInv
  BY DEF BaseInv
<1>1. CASE WorkerTake(w)
  BY <1>1, WorkerTakeItems
<1>2. CASE WorkerReturn(w)
  BY <1>2, WorkerReturnItems
<1>3. CASE WorkerDestroy(w)
  <2>1. PICK o : o = worker[w].obj
    OBVIOUS
  <2>2. o \in Objects /\ worker[w] \in EndsOf(o) /\ tp_object_destroy(o)
    BY <1>0, <1>3, <2>1 DEF WorkerDestroy, Shape, WorkerSet, EndsOf
  <2>3. WN(o).ends > 0
    <3>1. DOMAIN worker = Workers /\ IsFiniteSet(Workers)
      BY <1>0, PoolConstants DEF Shape
    <3>2. Cnt(worker, EndsOf(o)) \in Nat /\ Cnt(worker, EndsOf(o)) # 0
      BY <2>2, <3>1, CntSome
    <3> QED BY <3>2 DEF WN
  <2>4. obj[o].life = "dying"
    BY <1>0, <2>2, <2>3, DyingIs
  <2> QED BY <2>2, <2>4, DestroyItems
<1>4. CASE \/ WorkerCheck(w) \/ WorkerSleep(w) \/ WorkerTimeout(w) \/ WorkerTimedOut(w) \/ WorkerLeave(w)
  BY <1>4, ItemsStill DEF WorkerCheck, WorkerSleep, WorkerTimeout, WorkerTimedOut, WorkerLeave
<1> QED BY <1>1, <1>2, <1>3, <1>4 DEF WorkerMoves, InPool, WorkerStep

(* What callbacks call. *)
LEMMA CallbackCallsItems ==
  ASSUME BaseInv, BaseInv', CoreInv, NEW w \in Workers, CallbackCalls(w)
  PROVE  ItemsStep
<1>0. Shape /\ ObjInv /\ IoShape
  BY DEF BaseInv, CoreInv
<1>1. PICK o : o = worker[w].obj
  OBVIOUS
<1>2. ASSUME InCallback(w)
      PROVE  /\ o \in Objects /\ WN(o).run > 0 /\ obj[o].life = "live" /\ obj[o].shutdown \in BOOLEAN
             /\ Typed(obj[o], WN(o), CN(o), HN(o), PN(o), InService(o)) /\ obj[o] \in ObjRec
             /\ ObjOK(o, obj[o], WN(o), CN(o), HN(o), PN(o), InService(o))
  <2>1. o \in Objects /\ WN(o).run > 0
    BY <1>0, <1>1, <1>2, RunsIs DEF InCallback
  <2>2. /\ Typed(obj[o], WN(o), CN(o), HN(o), PN(o), InService(o)) /\ obj[o] \in ObjRec
        /\ ObjOK(o, obj[o], WN(o), CN(o), HN(o), PN(o), InService(o))
    BY <1>0, <2>1, GoodTyped
  <2> QED BY <2>1, <2>2, ItemFacts, AliveIf
<1>3. CASE TpDisassociateCallback(w)
  <2>1. PICK e : e = [obj[o] EXCEPT !.associated = @ - 1]
    OBVIOUS
  <2>2. InCallback(w) /\ obj' = [obj EXCEPT ![o] = e]
    BY <1>1, <1>3, <2>1 DEF TpDisassociateCallback
  <2>3. o \in Objects /\ obj[o] \in ObjRec
    BY <1>2, <2>2
  <2>4. /\ e.life = obj[o].life /\ e.shutdown = obj[o].shutdown /\ e.pending = obj[o].pending
        /\ e.running = obj[o].running
    BY <2>1, <2>3 DEF ObjRec
  <2>5. ItemMove(o, obj[o], CN(o), e)
    BY <2>4, PlainMove
  <2> QED BY <1>0, <2>2, <2>3, <2>5, ItemsOne
<1>4. CASE TpCallbackMayRunLong(w)
  BY <1>4, ItemsStill DEF TpCallbackMayRunLong
<1>5. CASE CallbackPosts(w)
  <2>1. PICK f : f = Counted(o)
    OBVIOUS
  <2>2. InCallback(w) /\ Type[o] = "work" /\ ~obj[o].shutdown /\ tp_object_submit(o, f, pool)
    BY <1>1, <1>5, <2>1 DEF CallbackPosts
  <2>3. /\ o \in Objects /\ obj[o].life = "live" /\ obj[o].shutdown \in BOOLEAN
        /\ Typed(obj[o], WN(o), CN(o), HN(o), PN(o), InService(o)) /\ obj[o] \in ObjRec
        /\ ObjOK(o, obj[o], WN(o), CN(o), HN(o), PN(o), InService(o))
    BY <1>2, <2>2
  <2>4. obj[o].shutdown = FALSE
    BY <2>2, <2>3
  <2>5. Ready(obj[o], f)
    BY <1>0, <2>1, <2>3, CountedIs, TypedIs DEF Ready, ObjOK, CountPart, ObjRec
  <2> QED BY <2>2, <2>3, <2>4, <2>5, SubmitItems
<1>6. CASE CallbackReleasesObject(w)
  <2>1. PICK own \in {"none", "user", "group"} : own = IF obj[o].owner = "user" THEN "none" ELSE obj[o].owner
    <3>1. InCallback(w)
      BY <1>6 DEF CallbackReleasesObject, CallbackReleases
    <3>2. obj[o].owner \in {"none", "user", "group"}
      BY <1>2, <3>1, TypedIs
    <3> QED BY <3>2
  <2>2. PICK e : e = Closed(obj[o], 1, own)
    OBVIOUS
  <2>3. InCallback(w) /\ obj' = [obj EXCEPT ![o] = e]
    BY <1>1, <1>6, <2>1, <2>2 DEF CallbackReleasesObject, CallbackReleases
  <2>4. o \in Objects /\ obj[o] \in ObjRec /\ obj[o].life = "live" /\ obj[o].shutdown \in BOOLEAN
    BY <1>2, <2>3
  <2>5. ReleasedIs(obj[o], e, 1, own)
    BY <2>2, <2>4, ReleaseIs
  <2>6. ClosedTo(obj[o], e)
    BY <2>4, <2>5 DEF ReleasedIs, ClosedTo
  <2>7. ItemMove(o, obj[o], CN(o), e)
    BY <2>4, <2>6, ClosesMove
  <2> QED BY <1>0, <2>3, <2>4, <2>7, ItemsOne
<1>7. CASE \E at \in Timeouts : CallbackSetsTimer(w, at)
  BY <1>7, ItemsStill DEF CallbackSetsTimer, poolVars
<1> QED BY <1>3, <1>4, <1>5, <1>6, <1>7 DEF CallbackCalls, InPool

(* A caller in a call, or with a list, for o: what is known of o. *)
Known(o) ==
    /\ Typed(obj[o], WN(o), CN(o), HN(o), PN(o), InService(o)) /\ obj[o] \in ObjRec
    /\ ObjOK(o, obj[o], WN(o), CN(o), HN(o), PN(o), InService(o))

(* It is, of every object. *)
LEMMA KnownIs ==
  ASSUME BaseInv, CoreInv, NEW o \in Objects
  PROVE  Known(o)
  BY GoodTyped DEF BaseInv, CoreInv, Known

(* The record of an object does for a submission as it is. *)
LEMMA ReadyIs ==
  ASSUME NEW o \in Objects, Known(o)
  PROVE  Ready(obj[o], obj[o])
  BY TypedIs DEF Known, Ready, ObjOK, CountPart, ObjRec

(* A caller is at a point of a call for o. *)
LEMMA AtPoint ==
  ASSUME Shape, NEW t \in Callers, NEW o, o = caller[t].obj, NEW pc, caller[t].pc = pc
  PROVE  caller[t] \in CallsAt(o, {pc}) /\ Cnt(caller, CallsAt(o, {pc})) > 0
<1>1. caller[t] \in CallerSet /\ caller[t] \in CallsAt(o, {pc})
  BY DEF Shape, CallsAt
<1> QED BY <1>1, CallerCounts

(* A caller submits. *)
LEMMA CallerSubmitItems ==
  ASSUME BaseInv, BaseInv', CoreInv, NEW t \in Callers, CallerSubmit(t)
  PROVE  ItemsStep
<1>0. Shape /\ CallersInv
  BY DEF BaseInv, CoreInv
<1>1. PICK o : o = caller[t].obj
  OBVIOUS
<1>2. caller[t].pc = "submit" /\ tp_object_submit(o, obj[o], pool)
  BY <1>1 DEF CallerSubmit
<1>3. o \in Objects
  BY <1>0, <1>1, <1>2, InCallIs
<1>4. CN(o).sub > 0
  BY <1>0, <1>1, <1>2, AtPoint DEF CN
<1>5. Known(o)
  BY <1>3, KnownIs
<1>6. obj[o].life = "live" /\ obj[o].shutdown = FALSE
  BY <1>3, <1>4, <1>5, AliveIf DEF Known, ObjOK, UsePart, UserPart, SimplePart
<1> QED BY <1>2, <1>3, <1>4, <1>5, <1>6, ReadyIs, SubmitItems

(* The other steps of TpSimpleTryPost, and the end of an object. *)
LEMMA CallerEndItems ==
  ASSUME BaseInv, BaseInv', CoreInv, NEW t \in Callers,
         SimpleJoin(t) \/ SimpleRelease(t) \/ CallerDestroy(t)
  PROVE  ItemsStep
<1>0. Shape /\ CallersInv /\ CoreInv
  BY DEF BaseInv, CoreInv
<1>1. PICK o : o = caller[t].obj
  OBVIOUS
<1>2. CASE SimpleJoin(t)
  <2>1. PICK e : e = [obj[o] EXCEPT !.member = TRUE]
    OBVIOUS
  <2>2. caller[t].pc = "join" /\ obj' = [obj EXCEPT ![o] = e]
    BY <1>1, <1>2, <2>1 DEF SimpleJoin
  <2>3. o \in Objects
    BY <1>0, <1>1, <2>2, InCallIs
  <2>4. obj[o] \in ObjRec
    BY <1>0, <2>3 DEF Shape
  <2>5. /\ e.life = obj[o].life /\ e.shutdown = obj[o].shutdown /\ e.pending = obj[o].pending
        /\ e.running = obj[o].running
    BY <2>1, <2>4 DEF ObjRec
  <2>6. ItemMove(o, obj[o], CN(o), e)
    BY <2>5, PlainMove
  <2> QED BY <1>0, <2>2, <2>3, <2>6, ItemsOne
<1>3. CASE SimpleRelease(t)
  <2>1. PICK e : e = Dropped(obj[o], 1)
    OBVIOUS
  <2>2. caller[t].pc = "release" /\ obj' = [obj EXCEPT ![o] = e]
    BY <1>1, <1>3, <2>1 DEF SimpleRelease
  <2>3. o \in Objects
    BY <1>0, <1>1, <2>2, InCallIs
  <2>4. CN(o).rel > 0 /\ Known(o)
    BY <1>0, <1>1, <2>2, <2>3, AtPoint, KnownIs DEF CN
  <2>5. obj[o].life = "live" /\ GivenBack(obj[o], e, 1)
    BY <2>1, <2>3, <2>4, AliveIf, DropGives DEF Known
  <2>6. ItemMove(o, obj[o], CN(o), e)
    BY <2>3, <2>5, DropsMove
  <2> QED BY <1>0, <2>2, <2>3, <2>6, ItemsOne
<1>4. CASE CallerDestroy(t)
  <2>1. caller[t].pc = "destroy" /\ tp_object_destroy(o)
    BY <1>1, <1>4 DEF CallerDestroy
  <2>2. o \in Objects
    BY <1>0, <1>1, <2>1 DEF Shape, CallerSet
  <2>3. CN(o).ends > 0
    BY <1>0, <1>1, <2>1, AtPoint DEF CN
  <2>4. obj[o].life = "dying"
    BY <1>0, <2>2, <2>3, DyingIs
  <2> QED BY <2>1, <2>2, <2>4, DestroyItems
<1> QED BY <1>2, <1>3, <1>4

(* A cancellation by somebody who keeps the object alive. *)
LEMMA CancelItems ==
  ASSUME BaseInv, BaseInv', CoreInv, NEW o \in Objects, obj[o].life = "live", tp_object_cancel(o)
  PROVE  ItemsStep
<1>1. ForgottenTo(obj[o], obj'[o]) /\ KeptObj(o)
  BY CancelEffect DEF BaseInv, CoreInv, KeptObj
<1>2. ItemMove(o, obj[o], CN(o), obj'[o])
  BY <1>1, CancelsMove
<1> QED BY <1>1, <1>2 DEF ItemsStep

(* The steps of a group release. *)
LEMMA GroupItems ==
  ASSUME BaseInv, BaseInv', CoreInv, NEW t \in Callers, GroupCancel(t) \/ GroupDrop(t)
  PROVE  ItemsStep
<1>0. Shape /\ CallersInv /\ CallerGood(caller[t])
  BY DEF BaseInv, CoreInv, CallersInv
<1>1. CASE GroupCancel(t)
  <2>1. /\ caller[t].pc = "gcancel" /\ caller[t].todo \in Seq(Objects) /\ caller[t].todo # <<>>
    BY <1>0, <1>1, CallerList DEF GroupCancel, CallersInv, CallerSet
  <2>2. PICK o : o = Head(caller[t].todo)
    OBVIOUS
  <2>3. o \in Objects /\ o \in Rng(caller[t].todo)
    BY <2>1, <2>2, TailIs
  <2>4. o \in Rng(caller[t].list)
    BY <1>0, <2>1, <2>3 DEF CallerGood
  <2>5. CN(o).keep > 0 /\ Known(o)
    BY <1>0, <2>3, <2>4, KeepIs, KnownIs
  <2>6. obj[o].life = "live" /\ tp_object_cancel(o)
    BY <1>1, <2>2, <2>3, <2>5, AliveIf DEF Known, GroupCancel
  <2> QED BY <2>3, <2>6, CancelItems
<1>2. CASE GroupDrop(t)
  <2>1. caller[t].list \in Seq(Objects) /\ caller[t].list # <<>>
    BY <1>0, <1>2, CallerList DEF GroupDrop
  <2>2. PICK o : o = Head(caller[t].list)
    OBVIOUS
  <2>3. o \in Objects /\ o \in Rng(caller[t].list)
    BY <2>1, <2>2, TailIs
  <2>4. CN(o).keep > 0 /\ Known(o)
    BY <1>0, <2>3, KeepIs, KnownIs
  <2>5. obj[o].life = "live" /\ obj[o] \in ObjRec /\ obj[o].shutdown \in BOOLEAN
    BY <2>3, <2>4, AliveIf, ItemFacts DEF Known
  <2>6. PICK n \in {1, 2} : n = IF ~obj[o].shutdown /\ Type[o] # "simple" THEN 2 ELSE 1
    OBVIOUS
  <2>7. PICK e : e = Closed(obj[o], n, "none")
    OBVIOUS
  <2>8. obj' = [obj EXCEPT ![o] = e]
    BY <1>2, <2>2, <2>6, <2>7 DEF GroupDrop
  <2>9. ReleasedIs(obj[o], e, n, "none")
    BY <2>5, <2>6, <2>7, ReleaseIs
  <2>10. ClosedTo(obj[o], e)
    BY <2>5, <2>9 DEF ReleasedIs, ClosedTo
  <2>11. ItemMove(o, obj[o], CN(o), e)
    BY <2>3, <2>5, <2>10, ClosesMove
  <2> QED BY <1>0, <2>3, <2>8, <2>11, ItemsOne
<1> QED BY <1>1, <1>2

(* Callers inside of a call. *)
LEMMA CallerMovesItems ==
  ASSUME BaseInv, BaseInv', CoreInv, NEW t \in Callers, CallerMoves(t)
  PROVE  ItemsStep
<1>1. CASE tp_object_wait(t) \/ GroupWait(t)
  BY <1>1, ItemsStill DEF tp_object_wait, GroupWait
<1> QED BY <1>1, CallerSubmitItems, CallerEndItems, GroupItems DEF CallerMoves, InPool, CallerStep

(* An object that the program may use is live. *)
LEMMA UsableIs ==
  ASSUME BaseInv, CoreInv, NEW o \in Objects, Usable(o)
  PROVE  /\ obj[o].life = "live" /\ obj[o].shutdown = FALSE /\ obj[o] \in ObjRec
         /\ Known(o) /\ Ready(obj[o], obj[o]) /\ Type[o] # "simple"
<1>1. Known(o) /\ Ready(obj[o], obj[o])
  BY KnownIs, ReadyIs
<1>2. obj[o].owner = "user" /\ obj[o].shutdown = FALSE /\ obj[o] \in ObjRec
  BY <1>1, ItemFacts DEF Usable, Known
<1>3. obj[o].life = "live"
  BY <1>1, <1>2, AliveIf DEF Known
<1>4. Type[o] # "simple"
  BY <1>1, <1>2 DEF Known, ObjOK, UsePart, SimplePart
<1> QED BY <1>1, <1>2, <1>3, <1>4

(* An object is allocated. *)
LEMMA AllocItems ==
  ASSUME BaseInv, BaseInv', CoreInv, NEW o \in Objects, NEW grp \in BOOLEAN, obj[o].life = "none",
         obj' = [obj EXCEPT ![o] = tp_object_initialize(o, grp)]
  PROVE  ItemsStep
<1>0. Shape
  BY DEF BaseInv
<1>1. Known(o)
  BY KnownIs
<1>2. PICK e : e = tp_object_initialize(o, grp)
  OBVIOUS
<1>3. InitializedTo(o, e, grp)
  BY <1>2, InitializeIs DEF InitializedTo
<1>4. ItemMove(o, obj[o], CN(o), e)
  BY <1>1, <1>3, OpensMove DEF Known
<1> QED BY <1>0, <1>2, <1>4, ItemsOne

(* Work is posted. *)
LEMMA PostItems ==
  ASSUME BaseInv, BaseInv', CoreInv, NEW t \in Callers, NEW o \in Objects, TpPostWork(t, o)
  PROVE  ItemsStep
<1>0. Shape
  BY DEF BaseInv
<1>1. PICK f : f = Counted(o)
  OBVIOUS
<1>2. Usable(o) /\ tp_object_submit(o, f, pool)
  BY <1>1 DEF TpPostWork
<1>3. obj[o].life = "live" /\ obj[o].shutdown = FALSE /\ obj[o] \in ObjRec /\ Known(o) /\ Type[o] # "simple"
  BY <1>2, UsableIs
<1>4. Ready(obj[o], f)
  BY <1>0, <1>1, <1>3, CountedIs, TypedIs DEF Known, Ready, ObjOK, CountPart, ObjRec
<1> QED BY <1>2, <1>3, <1>4, SubmitItems

(* An object is released by its owner. *)
LEMMA ReleaseItems ==
  ASSUME BaseInv, BaseInv', CoreInv, NEW t \in Callers, NEW o \in Objects, TpRelease(t, o)
  PROVE  ItemsStep
<1>0. Shape
  BY DEF BaseInv
<1>1. PICK e : e = Closed(obj[o], 1, "none")
  OBVIOUS
<1>2. Usable(o) /\ obj' = [obj EXCEPT ![o] = e]
  BY <1>1 DEF TpRelease
<1>3. obj[o].life = "live" /\ obj[o].shutdown = FALSE /\ obj[o] \in ObjRec
  BY <1>2, UsableIs
<1>4. ReleasedIs(obj[o], e, 1, "none")
  BY <1>1, <1>3, ReleaseIs
<1>5. ClosedTo(obj[o], e)
  BY <1>3, <1>4 DEF ReleasedIs, ClosedTo
<1>6. ItemMove(o, obj[o], CN(o), e)
  BY <1>3, <1>5, ClosesMove
<1> QED BY <1>0, <1>2, <1>6, ItemsOne

(* A record changes where WorkItems does not look. *)
LEMMA PlainItems ==
  ASSUME Shape, NEW o \in Objects, NEW e, obj' = [obj EXCEPT ![o] = e], e.life = obj[o].life,
         e.shutdown = obj[o].shutdown, e.pending = obj[o].pending, e.running = obj[o].running
  PROVE  ItemsStep
<1>1. ItemMove(o, obj[o], CN(o), e)
  BY PlainMove
<1> QED BY <1>1, ItemsOne

(* The calls for I/O. *)
LEMMA IoCallsItems ==
  ASSUME BaseInv, BaseInv', CoreInv, NEW t \in Callers, NEW o \in Objects,
         TpStartAsyncIoOperation(t, o) \/ TpCancelAsyncIoOperation(t, o) \/ TpReleaseIoCompletion(t, o)
  PROVE  ItemsStep
<1>0. Shape /\ obj \in [Objects -> ObjRec] /\ obj[o] \in ObjRec
  BY DEF BaseInv, Shape
<1>1. CASE TpStartAsyncIoOperation(t, o)
  <2>1. PICK e : e = [obj[o] EXCEPT !.ops = @ + 1]
    OBVIOUS
  <2>2. obj' = [obj EXCEPT ![o] = e]
    BY <1>1, <2>1 DEF TpStartAsyncIoOperation
  <2>3. /\ e.life = obj[o].life /\ e.shutdown = obj[o].shutdown /\ e.pending = obj[o].pending
        /\ e.running = obj[o].running
    BY <1>0, <2>1 DEF ObjRec
  <2> QED BY <1>0, <2>2, <2>3, PlainItems
<1>2. CASE TpCancelAsyncIoOperation(t, o)
  <2>1. PICK e : e = [obj[o] EXCEPT !.ops = @ - 1]
    OBVIOUS
  <2>2. obj' = [obj EXCEPT ![o] = e]
    BY <1>2, <2>1 DEF TpCancelAsyncIoOperation
  <2>3. /\ e.life = obj[o].life /\ e.shutdown = obj[o].shutdown /\ e.pending = obj[o].pending
        /\ e.running = obj[o].running
    BY <1>0, <2>1 DEF ObjRec
  <2> QED BY <1>0, <2>2, <2>3, PlainItems
<1>3. CASE TpReleaseIoCompletion(t, o)
  <2>1. CASE TpRelease(t, o)
    BY <2>1, ReleaseItems
  <2>2. CASE obj' = [obj EXCEPT ![o].owner = "none"]
    <3>1. PICK e : e = [obj[o] EXCEPT !.owner = "none"]
      OBVIOUS
    <3>2. obj' = [obj EXCEPT ![o] = e]
      BY <2>2, <3>1
    <3>3. /\ e.life = obj[o].life /\ e.shutdown = obj[o].shutdown /\ e.pending = obj[o].pending
          /\ e.running = obj[o].running
      BY <1>0, <3>1 DEF ObjRec
    <3> QED BY <1>0, <3>2, <3>3, PlainItems
  <2> QED BY <1>3, <2>1, <2>2 DEF TpReleaseIoCompletion
<1> QED BY <1>1, <1>2, <1>3

(* The calls on an object. *)
LEMMA ObjectCallsItems ==
  ASSUME BaseInv, BaseInv', CoreInv, NEW t \in Callers, NEW o \in Objects, ObjectCalls(t, o)
  PROVE  ItemsStep
<1> DEFINE grp == o \in program.grouped
<1>1. grp \in BOOLEAN /\ FALSE \in BOOLEAN
  OBVIOUS
<1> HIDE DEF grp
<1>2. ASSUME NEW g \in BOOLEAN, TpAlloc(t, o, g) \/ TpSimpleTryPost(t, o, g) PROVE ItemsStep
  <2>1. obj[o].life = "none" /\ obj' = [obj EXCEPT ![o] = tp_object_initialize(o, g)]
    BY <1>2 DEF TpAlloc, TpSimpleTryPost
  <2> QED BY <2>1, AllocItems
<1>3. CASE \/ TpAllocWork(t, o, grp) \/ TpAllocTimer(t, o, grp) \/ TpAllocWait(t, o, grp)
           \/ TpAllocIoCompletion(t, o)
  BY <1>1, <1>2, <1>3 DEF TpAllocWork, TpAllocTimer, TpAllocWait, TpAllocIoCompletion
<1>4. CASE InPool(TpSimpleTryPost(t, o, grp))
  BY <1>1, <1>2, <1>4 DEF InPool
<1>5. CASE InPool(TpPostWork(t, o))
  BY <1>5, PostItems DEF InPool
<1>6. CASE InPool(TpWaitFor(t, o, FALSE)) \/ InPool(TpWaitFor(t, o, TRUE))
  <2>1. Usable(o) /\ (obj' = obj \/ tp_object_cancel(o))
    BY <1>6 DEF InPool, TpWaitFor
  <2>2. obj[o].life = "live"
    BY <2>1, UsableIs
  <2> QED BY <2>1, <2>2, ItemsStill, CancelItems
<1>7. CASE TpReleaseObject(t, o)
  BY <1>7, ReleaseItems DEF TpReleaseObject
<1>8. ASSUME NEW at, NEW p, NEW n, TpSetTimer(t, o, at, p, n) PROVE ItemsStep
  BY <1>8, ItemsStill DEF TpSetTimer
<1>9. ASSUME NEW h, NEW d, TpSetWait(t, o, h, d) PROVE ItemsStep
  BY <1>9, ItemsStill DEF TpSetWait, poolVars
<1>10. CASE InIo(\/ TpStartAsyncIoOperation(t, o)
                 \/ Can("cancelio") /\ TpCancelAsyncIoOperation(t, o)
                 \/ Can("release") /\ TpReleaseIoCompletion(t, o))
  BY <1>10, IoCallsItems DEF InIo
<1> QED
  BY <1>3, <1>4, <1>5, <1>6, <1>7, <1>8, <1>9, <1>10 DEF ObjectCalls, grp

(* The members of the group are taken over: nothing that WorkItems sees. *)
LEMMA MembersItems ==
  ASSUME BaseInv, BaseInv', CoreInv, NEW t \in Callers, NEW cancel \in BOOLEAN, ReleaseGroupMembers(t, cancel)
  PROVE  ItemsStep
<1>0. obj \in [Objects -> ObjRec]
  BY DEF BaseInv, Shape
<1>1. obj' = [o \in Objects |-> IF o \in MarkedSet THEN Taken(obj[o])
                                ELSE [obj[o] EXCEPT !.member = FALSE]]
  BY DEF ReleaseGroupMembers, TpReleaseCleanupGroupMembers, Taken
<1>2. ASSUME NEW o \in Objects PROVE ItemSame(obj[o], obj'[o])
  <2>1. obj[o] \in ObjRec
    BY <1>0, <1>2
  <2>2. CASE o \in MarkedSet
    <3>1. PICK e : e = Taken(obj[o])
      OBVIOUS
    <3>2. TakenIs(obj[o], e) /\ obj'[o] = e
      BY <1>1, <1>2, <2>1, <2>2, <3>1, TakeIs
    <3>3. /\ e.life = obj[o].life /\ e.shutdown = obj[o].shutdown /\ e.pending = obj[o].pending
          /\ e.running = obj[o].running
      BY <3>2 DEF TakenIs
    <3>4. ItemSame(obj[o], e)
      BY <3>3, PlainMove
    <3> QED BY <3>2, <3>4
  <2>3. CASE o \notin MarkedSet
    <3>1. PICK e : e = [obj[o] EXCEPT !.member = FALSE]
      OBVIOUS
    <3>2. obj'[o] = e
      BY <1>1, <1>2, <2>3, <3>1
    <3>3. /\ e.life = obj[o].life /\ e.shutdown = obj[o].shutdown /\ e.pending = obj[o].pending
          /\ e.running = obj[o].running
      BY <2>1, <3>1 DEF ObjRec
    <3>4. ItemSame(obj[o], e)
      BY <3>3, PlainMove
    <3> QED BY <3>2, <3>4
  <2> QED BY <2>2, <2>3
<1> QED BY <1>2 DEF ItemsStep

(* The calls on pool and group. *)
LEMMA PoolCallsItems ==
  ASSUME BaseInv, BaseInv', CoreInv, NEW t \in Callers, PoolCalls(t)
  PROVE  ItemsStep
<1>1. CASE TpAllocFails(t) \/ TpReleasePool(t) \/ TpReleaseCleanupGroup(t)
  BY <1>1, ItemsStill DEF TpAllocFails, TpReleasePool, TpReleaseCleanupGroup
<1>2. ASSUME NEW n, TpSetPoolMaxThreads(t, n) \/ TpSetPoolMinThreads(t, n) PROVE ItemsStep
  BY <1>2, ItemsStill DEF TpSetPoolMaxThreads, TpSetPoolMinThreads
<1> QED BY <1>1, <1>2, MembersItems DEF PoolCalls, InPool

(* An object that a service thread looks after is submitted. *)
LEMMA ServedItems ==
  ASSUME BaseInv, BaseInv', CoreInv, NEW o \in Objects, InService(o) = TRUE, NEW f, Ready(obj[o], f),
         tp_object_submit(o, f, pool)
  PROVE  ItemsStep
<1>1. Known(o)
  BY KnownIs
<1>2. obj[o].life = "live"
  BY ServedIs DEF BaseInv
<1>3. obj[o].shutdown = FALSE /\ obj[o].owner = "user"
  BY <1>1 DEF Known, ObjOK, UsePart, UserPart
<1>4. Type[o] # "simple"
  BY <1>1, <1>3 DEF Known, ObjOK, UsePart, SimplePart
<1> QED BY <1>2, <1>3, <1>4, SubmitItems

(* The timer thread. *)
LEMMA TimerThreadItems ==
  ASSUME BaseInv, BaseInv', CoreInv, TimerThread
  PROVE  ItemsStep
<1>1. CASE TimerExpires
  <2>0. Shape /\ TimerInv
    BY DEF BaseInv
  <2>1. PICK o : o = ExpiredTimer
    OBVIOUS
  <2>2. AnyExpired /\ tp_object_submit(o, obj[o], pool)
    BY <1>1, <2>1 DEF TimerExpires, submit_expired_timers
  <2>3. o \in Timers /\ timer[o].pending
    BY <2>0, <2>1, <2>2, ExpiredIs
  <2>4. timer[o].initialized = TRUE
    BY <2>0, <2>3 DEF TimerInv, CountOK, TimerRec
  <2>5. o \in Objects /\ InService(o) = TRUE
    BY <2>3, <2>4, KindsOfObjects DEF InService
  <2>6. Ready(obj[o], obj[o])
    BY <2>0, <2>5, ServedIs
  <2> QED BY <2>2, <2>5, <2>6, ServedItems
<1>2. CASE UNCHANGED poolVars
  BY <1>2, ItemsStill DEF poolVars
<1> QED BY <1>1, <1>2 DEF TimerThread

(* A reference that a wait thread holds is released. *)
LEMMA ReleaseHeldItems ==
  ASSUME BaseInv, BaseInv', CoreInv, NEW b \in Buckets, ReleaseHeld(b)
  PROVE  ItemsStep
<1>0. Shape /\ WaitInv
  BY DEF BaseInv
<1>1. PICK o : o = LastHeld(b)
  OBVIOUS
<1>2. bucket[b].held # <<>>
  BY DEF ReleaseHeld
<1>3. o \in Objects /\ HN(o) > 0
  BY <1>0, <1>1, <1>2, LastHeldIs, LastHeldCounts
<1>4. CASE obj[o].life = "dying"
  <2>1. tp_object_destroy(o)
    BY <1>1, <1>4 DEF ReleaseHeld
  <2> QED BY <1>3, <1>4, <2>1, DestroyItems
<1>5. CASE obj[o].life # "dying"
  <2>1. PICK e : e = Dropped(obj[o], 1)
    OBVIOUS
  <2>2. obj' = [obj EXCEPT ![o] = e]
    BY <1>1, <1>5, <2>1 DEF ReleaseHeld
  <2>3. Known(o)
    BY <1>3, KnownIs
  <2>4. obj[o].life = "live"
    BY <1>3, <1>5, <2>3, AliveIf DEF Known
  <2>5. GivenBack(obj[o], e, 1)
    BY <2>1, <2>3, DropGives DEF Known
  <2>6. ItemMove(o, obj[o], CN(o), e)
    BY <1>3, <2>4, <2>5, DropsMove
  <2> QED BY <1>0, <1>3, <2>2, <2>6, ItemsOne
<1> QED BY <1>4, <1>5

(* The thread of a bucket takes references: nothing that WorkItems sees. *)
LEMMA HoldItems ==
  ASSUME BaseInv, BaseInv', CoreInv, NEW b \in Buckets, HoldObjects(b)
  PROVE  ItemsStep
<1>0. obj \in [Objects -> ObjRec]
  BY DEF BaseInv, Shape
<1>1. obj' = [o \in Objects |->
                 IF \E i \in DOMAIN bucket[b].waiting : bucket[b].waiting[i] = o
                   THEN [obj[o] EXCEPT !.refcount = @ + 1] ELSE obj[o]]
  BY DEF HoldObjects
<1>2. ASSUME NEW o \in Objects PROVE ItemSame(obj[o], obj'[o])
  <2>1. obj[o] \in ObjRec
    BY <1>0, <1>2
  <2>2. CASE \E i \in DOMAIN bucket[b].waiting : bucket[b].waiting[i] = o
    <3>1. PICK e : e = [obj[o] EXCEPT !.refcount = @ + 1]
      OBVIOUS
    <3>2. HeldTo(obj[o], e) /\ obj'[o] = e
      BY <1>1, <1>2, <2>1, <2>2, <3>1, HeldIs DEF HeldTo
    <3>3. /\ e.life = obj[o].life /\ e.shutdown = obj[o].shutdown /\ e.pending = obj[o].pending
          /\ e.running = obj[o].running
      BY <3>2 DEF HeldTo
    <3>4. ItemSame(obj[o], e)
      BY <3>3, PlainMove
    <3> QED BY <3>2, <3>4
  <2>3. CASE ~\E i \in DOMAIN bucket[b].waiting : bucket[b].waiting[i] = o
    <3>1. obj'[o] = obj[o]
      BY <1>1, <1>2, <2>3
    <3> QED BY <3>1, ItemStill
  <2> QED BY <2>2, <2>3
<1> QED BY <1>2 DEF ItemsStep

(* The threads of the buckets. *)
LEMMA WaitThreadItems ==
  ASSUME BaseInv, BaseInv', CoreInv, NEW b \in Buckets, WaitThread(b)
  PROVE  ItemsStep
<1>0. Shape /\ WaitInv
  BY DEF BaseInv
<1>1. ASSUME NEW o \in Waits, wait[o].bucket = b
      PROVE  o \in Objects /\ InService(o) = TRUE /\ obj[o] \in ObjRec /\ Ready(obj[o], obj[o])
             /\ obj[o].signaled \in Nat
  <2>1. o \in Objects /\ InService(o) = TRUE
    BY <1>1, WaitConstants, KindsOfObjects DEF InService
  <2> QED BY <1>0, <2>1, ServedIs
<1>2. CASE SubmitElapsed(b)
  <2>1. PICK o : o = ElapsedWait(b)
    OBVIOUS
  <2>2. WaitElapses(b) /\ tp_object_submit(o, obj[o], pool)
    BY <1>2, <2>1 DEF SubmitElapsed
  <2>3. o \in Waits /\ wait[o].bucket = b
    BY <1>0, <2>1, <2>2, ElapsesKeeps
  <2>4. o \in Objects /\ InService(o) = TRUE /\ Ready(obj[o], obj[o])
    BY <1>1, <2>3
  <2> QED BY <2>2, <2>4, ServedItems
<1>3. CASE SubmitSignaled(b)
  <2>1. PICK o : o = HitObject(b)
    OBVIOUS
  <2>2. PICK f : f = [obj[o] EXCEPT !.signaled = @ + 1]
    OBVIOUS
  <2>3. WaitFires(b) /\ tp_object_submit(o, f, pool)
    BY <1>3, <2>1, <2>2 DEF SubmitSignaled
  <2>4. o \in Waits /\ wait[o].bucket = b
    BY <1>0, <2>1, <2>3, FiresKeeps
  <2>5. o \in Objects /\ InService(o) = TRUE /\ obj[o] \in ObjRec /\ Ready(obj[o], obj[o]) /\ obj[o].signaled \in Nat
    BY <1>1, <2>4
  <2>6. Ready(obj[o], f)
    BY <2>2, <2>5, SignaledIs DEF Ready
  <2> QED BY <2>3, <2>5, <2>6, ServedItems
<1>4. CASE WaitThreadStep(b) /\ UNCHANGED poolVars
  BY <1>4, ItemsStill DEF poolVars
<1> QED BY <1>2, <1>3, <1>4, HoldItems, ReleaseHeldItems DEF WaitThread

(* The I/O thread submits. *)
LEMMA IoSubmitItems ==
  ASSUME BaseInv, BaseInv', CoreInv, NEW o \in Ios, IoSubmits(o) \/ IoSubmitsAgain(o)
  PROVE  ItemsStep
<1>1. PICK n, p : /\ ioq.key = o /\ ioq.pc \in {"packet", "again"} /\ (n = 1 => obj[o].ops > 0)
                  /\ n \in {0, 1}
                  /\ \/ n = 1 /\ tp_object_submit(o, Stores(o, [obj[o] EXCEPT !.ops = @ - 1]), p)
                     \/ n = 0 /\ tp_object_submit(o, Stores(o, obj[o]), p)
  BY DEF IoSubmits, IoSubmitsAgain, HasPacket
<1>2. /\ o \in Objects /\ Type[o] = "io" /\ obj[o].life = "live" /\ obj[o].shutdown = FALSE
      /\ obj[o] \in ObjRec /\ obj[o].ops \in Nat
  BY <1>1, PacketIs
<1>3. obj[o] = [obj[o] EXCEPT !.ops = @ - 0]
  BY <1>2 DEF ObjRec
<1>4. PICK f : f = Stores(o, [obj[o] EXCEPT !.ops = @ - n])
  OBVIOUS
<1>5. tp_object_submit(o, f, p)
  <2>1. CASE n = 1
    BY <1>1, <1>4, <2>1
  <2>2. CASE n = 0
    BY <1>1, <1>3, <1>4, <2>2
  <2> QED BY <1>1, <2>1, <2>2
<1>6. n <= obj[o].ops
  BY <1>1, <1>2
<1>7. Ready(obj[o], f)
  BY <1>1, <1>4, <1>6, StoredIs
<1> QED BY <1>2, <1>5, <1>7, SubmitItems

(* The I/O thread releases an object with its last packet. *)
LEMMA IoReleaseItems ==
  ASSUME BaseInv, BaseInv', CoreInv, NEW o \in Ios, IoReleases(o)
  PROVE  ItemsStep
<1>0. Shape
  BY DEF BaseInv
<1>1. /\ ioq.pc = "packet" /\ ioq.key = o
      /\ obj' = [obj EXCEPT ![o] = [Closed(@, 1, @.owner) EXCEPT !.skipped = 0]]
  BY DEF IoReleases, HasPacket
<1>2. /\ o \in Objects /\ obj[o].life = "live" /\ obj[o].shutdown = FALSE /\ obj[o] \in ObjRec
      /\ Typed(obj[o], WN(o), CN(o), HN(o), PN(o), InService(o))
  BY <1>1, PacketIs
<1>3. PICK own \in {"none", "user", "group"} : own = obj[o].owner
  BY <1>2, TypedIs
<1>4. PICK c : c = Closed(obj[o], 1, own)
  OBVIOUS
<1>5. ReleasedIs(obj[o], c, 1, own)
  BY <1>2, <1>4, ReleaseIs
<1>6. c \in ObjRec
  BY <1>5 DEF ReleasedIs
<1>7. PICK e : e = [c EXCEPT !.skipped = 0]
  OBVIOUS
<1>8. e.life = c.life /\ e.shutdown = c.shutdown /\ e.pending = c.pending /\ e.running = c.running
  BY <1>6, <1>7, SkippedIs
<1>9. ClosedTo(obj[o], e)
  BY <1>2, <1>5, <1>8 DEF ReleasedIs, ClosedTo
<1>10. ItemMove(o, obj[o], CN(o), e)
  BY <1>2, <1>9, ClosesMove
<1>11. obj' = [obj EXCEPT ![o] = e]
  BY <1>1, <1>3, <1>4, <1>7
<1> QED BY <1>0, <1>2, <1>10, <1>11, ItemsOne

(* The I/O thread. *)
LEMMA IoThreadItems ==
  ASSUME BaseInv, BaseInv', CoreInv, IoThread
  PROVE  ItemsStep
<1>0. Shape
  BY DEF BaseInv
<1>1. CASE UNCHANGED poolVars
  BY <1>1, ItemsStill DEF poolVars
<1>2. ASSUME NEW o \in Ios, IoSkips(o) \/ IoLacksMemory(o) PROVE ItemsStep
  <2>1. o \in Objects /\ obj[o] \in ObjRec
    BY <1>0, <1>2, KindsOfObjects DEF Shape
  <2>2. PICK e : /\ obj' = [obj EXCEPT ![o] = e]
                 /\ e = [obj[o] EXCEPT !.skipped = @ - 1] \/ e = [obj[o] EXCEPT !.ops = @ - 1]
    BY <1>2 DEF IoSkips, IoLacksMemory
  <2>3. /\ e.life = obj[o].life /\ e.shutdown = obj[o].shutdown /\ e.pending = obj[o].pending
        /\ e.running = obj[o].running
    BY <2>1, <2>2 DEF ObjRec
  <2> QED BY <1>0, <2>1, <2>2, <2>3, PlainItems
<1>3. ASSUME NEW o \in Ios, IoDestroys(o) PROVE ItemsStep
  <2>1. ioq.pc = "destroy" /\ ioq.key = o /\ tp_object_destroy(o) /\ o \in Objects
    BY <1>3, KindsOfObjects DEF IoDestroys
  <2>2. PN(o).ends > 0
    <3>1. PacketFacts(ioq, port, io, o)
      BY PacketsAre DEF CoreInv, IoShape
    <3>2. One(ioq.pc = "destroy" /\ ioq.key = o) = 1
      BY <2>1 DEF One
    <3> QED BY <3>1, <3>2 DEF PacketFacts, PN
  <2>3. obj[o].life = "dying"
    BY <1>0, <2>1, <2>2, DyingIs
  <2> QED BY <2>1, <2>3, DestroyItems
<1> QED BY <1>1, <1>2, <1>3, IoSubmitItems, IoReleaseItems DEF IoThread, InIo

(* Every step. *)
LEMMA ItemsNext ==
  ASSUME BaseInv, BaseInv', CoreInv, program \in Programs, [Next]_vars
  PROVE  ItemsStep
<1>1. CASE UNCHANGED poolVars
  BY <1>1, ItemsStill DEF poolVars
<1>2. CASE Next
  <2>1. program.callers \subseteq Callers /\ program.objects \subseteq Objects
    BY CallsOfPrograms
  <2>2. CASE ServiceMoves
    <3>1. Tick => UNCHANGED poolVars
      BY DEF Tick
    <3>2. \A o \in Ios : IoCompletes(o) => UNCHANGED poolVars
      BY DEF IoCompletes, InIo
    <3> QED BY <1>1, <2>2, <3>1, <3>2, TimerThreadItems, IoThreadItems, WaitThreadItems DEF ServiceMoves
  <2>3. ASSUME NEW h \in Handles, Signal(h) PROVE ItemsStep
    BY <1>1, <2>3 DEF Signal
  <2> QED
    BY <1>2, <2>1, <2>2, <2>3, WorkerMovesItems, CallbackCallsItems, CallerMovesItems, PoolCallsItems,
       ObjectCallsItems DEF Next
<1> QED BY <1>1, <1>2 DEF vars

ItemRec(l, p, r) == [life |-> l, pending |-> p, running |-> r]
ItemOf(ob) == ItemRec(ItemLife(ob), ob.pending, ob.running)

(* What WorkItems sees of the objects. *)
LEMMA AbstractionIs ==
  ASSUME Shape
  PROVE  Abstraction = [o \in Objects |-> ItemOf(obj[o])]
<1>1. \A o \in Objects : obj[o].shutdown \in BOOLEAN
  BY DEF Shape, ObjRec
<1>2. ASSUME NEW o \in Objects
      PROVE  ItemLife(obj[o]) = IF obj[o].life \in {"none", "gone"} THEN obj[o].life
                                ELSE IF obj[o].shutdown THEN "closed" ELSE "open"
  BY <1>1, <1>2 DEF ItemLife
<1> QED BY <1>2 DEF Abstraction, ItemOf, ItemRec

(* So after a step. *)
LEMMA AbstractionIsNext ==
  ASSUME Shape'
  PROVE  Abstraction' = [o \in Objects |-> ItemOf(obj'[o])]
<1>1. \A o \in Objects : obj'[o].shutdown \in BOOLEAN
  BY DEF Shape, ObjRec
<1>2. ASSUME NEW o \in Objects
      PROVE  ItemLife(obj'[o]) = IF obj'[o].life \in {"none", "gone"} THEN obj'[o].life
                                 ELSE IF obj'[o].shutdown THEN "closed" ELSE "open"
  BY <1>1, <1>2 DEF ItemLife
<1> QED BY <1>2 DEF Abstraction, ItemOf, ItemRec

(* The fields of a record, and its updates. *)
LEMMA ItemFields ==
  ASSUME NEW l, NEW p, NEW r
  PROVE  ItemRec(l, p, r).life = l /\ ItemRec(l, p, r).pending = p /\ ItemRec(l, p, r).running = r
  BY DEF ItemRec

(* Of life. *)
LEMMA LifeUpdate ==
  ASSUME NEW l, NEW p, NEW r, NEW k
  PROVE  [ItemRec(l, p, r) EXCEPT !.life = k] = ItemRec(k, p, r)
  BY DEF ItemRec

(* Of the callbacks that are pending. *)
LEMMA PendingUpdate ==
  ASSUME NEW l, NEW p, NEW r, NEW q
  PROVE  [ItemRec(l, p, r) EXCEPT !.pending = q] = ItemRec(l, q, r)
  BY DEF ItemRec

(* What a move is for WorkItems. *)
LEMMA MoveIs ==
  ASSUME NEW o \in Objects, NEW f, NEW g, f = Abstraction, g = Abstraction',
         f = [x \in Objects |-> f[x]], g = [f EXCEPT ![o] = g[o]], NEW ob, NEW c, NEW e,
         f[o] = ItemOf(ob), g[o] = ItemOf(e), ItemMove(o, ob, c, e), g[o] # f[o]
  PROVE  Promise!ItemNext
<1>0. /\ f[o] = ItemRec(ItemLife(ob), ob.pending, ob.running)
      /\ g[o] = ItemRec(ItemLife(e), e.pending, e.running)
      /\ f[o].life = ItemLife(ob) /\ f[o].pending = ob.pending /\ f[o].running = ob.running
  BY ItemFields DEF ItemOf
<1>1. ~ItemSame(ob, e)
  BY <1>0 DEF ItemSame
<1>2. CASE ItemOpens(ob, e)
  <2>1. ItemLife(ob) = "none" /\ ItemLife(e) = "open" /\ e.pending = ob.pending /\ e.running = ob.running
    BY <1>2 DEF ItemOpens, ItemLife
  <2>2. g[o] = [f[o] EXCEPT !.life = "open"]
    BY <1>0, <2>1, LifeUpdate
  <2>3. Promise!Open(o)
    BY <1>0, <2>1, <2>2 DEF Promise!Open
  <2> QED BY <2>3 DEF Promise!ItemNext
<1>3. CASE ItemSubmits(o, ob, c, e)
  <2>1. /\ ItemLife(ob) = "open" /\ ItemLife(e) = "open" /\ e.pending = ob.pending + 1
        /\ e.running = ob.running
    BY <1>3 DEF ItemSubmits, ItemLife
  <2>2. g[o] = [f[o] EXCEPT !.pending = f[o].pending + 1]
    BY <1>0, <2>1, PendingUpdate
  <2>3. Promise!Submit(o)
    BY <1>0, <2>1, <2>2 DEF Promise!Submit
  <2> QED BY <2>3 DEF Promise!ItemNext
<1>4. CASE ItemStarts(ob, e)
  <2>1. /\ ob.pending > 0 /\ ItemLife(e) = ItemLife(ob) /\ e.pending = ob.pending - 1
        /\ e.running = ob.running + 1
    BY <1>4 DEF ItemStarts
  <2>2. PICK k, p, r, q, s : /\ k = ItemLife(ob) /\ p = ob.pending /\ r = ob.running
                             /\ q = f[o].pending - 1 /\ s = f[o].running + 1
    OBVIOUS
  <2>3. f[o] = ItemRec(k, p, r) /\ g[o] = ItemRec(k, q, s)
    BY <1>0, <2>1, <2>2
  <2>4. [ItemRec(k, p, r) EXCEPT !.pending = q, !.running = s] = ItemRec(k, q, s)
    <3>1. PICK x : x = ItemRec(k, p, r)
      OBVIOUS
    <3>2. x \in [life : {k}, pending : {p}, running : {r}]
      BY ONLY <3>1 DEF ItemRec
    <3>3. PICK y : y = [x EXCEPT !.pending = q]
      OBVIOUS
    <3>4. y = [life |-> k, pending |-> q, running |-> r]
      BY ONLY <3>2, <3>3
    <3>5. [y EXCEPT !.running = s] = [life |-> k, pending |-> q, running |-> s]
      BY ONLY <3>4
    <3>6. [x EXCEPT !.pending = q, !.running = s] = [life |-> k, pending |-> q, running |-> s]
      BY ONLY <3>2, <3>3, <3>5
    <3> QED BY ONLY <3>1, <3>6 DEF ItemRec
  <2>5. g[o] = [f[o] EXCEPT !.pending = q, !.running = s]
    BY ONLY <2>3, <2>4
  <2>6. f[o].pending > 0 /\ g = [f EXCEPT ![o].pending = @ - 1, ![o].running = @ + 1]
    BY <1>0, <2>1, <2>2, <2>5
  <2>7. Promise!Start(o)
    BY <2>6 DEF Promise!Start
  <2> QED BY <2>7 DEF Promise!ItemNext
<1>5. CASE ItemFinishes(ob, e)
  <2>1. PICK l \in {ItemLife(ob), "closed"} : l = ItemLife(e)
    BY <1>5 DEF ItemFinishes
  <2>2. ob.running > 0 /\ e.pending = ob.pending /\ e.running = ob.running - 1
    BY <1>5 DEF ItemFinishes
  <2>3. PICK k, p, r, s : k = ItemLife(ob) /\ p = ob.pending /\ r = ob.running /\ s = f[o].running - 1
    OBVIOUS
  <2>4. f[o] = ItemRec(k, p, r) /\ g[o] = ItemRec(l, p, s)
    BY <1>0, <2>1, <2>2, <2>3
  <2>5. [ItemRec(k, p, r) EXCEPT !.running = s, !.life = l] = ItemRec(l, p, s)
    <3>1. PICK x : x = ItemRec(k, p, r)
      OBVIOUS
    <3>2. x \in [life : {k}, pending : {p}, running : {r}]
      BY ONLY <3>1 DEF ItemRec
    <3>3. PICK y : y = [x EXCEPT !.running = s]
      OBVIOUS
    <3>4. y = [life |-> k, pending |-> p, running |-> s]
      BY ONLY <3>2, <3>3
    <3>5. [y EXCEPT !.life = l] = [life |-> l, pending |-> p, running |-> s]
      BY ONLY <3>4
    <3>6. [x EXCEPT !.running = s, !.life = l] = [life |-> l, pending |-> p, running |-> s]
      BY ONLY <3>2, <3>3, <3>5
    <3> QED BY ONLY <3>1, <3>6 DEF ItemRec
  <2>6. g[o] = [f[o] EXCEPT !.running = s, !.life = l]
    BY ONLY <2>4, <2>5
  <2>7. l \in {f[o].life, "closed"} /\ f[o].running > 0 /\ g = [f EXCEPT ![o].running = @ - 1, ![o].life = l]
    BY <1>0, <2>1, <2>2, <2>3, <2>6
  <2>8. Promise!Finish(o)
    BY <2>7 DEF Promise!Finish
  <2> QED BY <2>8 DEF Promise!ItemNext
<1>6. CASE ItemCancels(ob, e)
  <2>1. /\ ItemLife(ob) \in {"open", "closed"} /\ ItemLife(e) = ItemLife(ob) /\ e.pending = 0
        /\ e.running = ob.running
    BY <1>6 DEF ItemCancels, ItemLife
  <2>2. g[o] = [f[o] EXCEPT !.pending = 0]
    BY <1>0, <2>1, PendingUpdate
  <2>3. Promise!Cancel(o)
    BY <1>0, <2>1, <2>2 DEF Promise!Cancel
  <2> QED BY <2>3 DEF Promise!ItemNext
<1>7. CASE ItemCloses(ob, e)
  <2>1. /\ ItemLife(ob) = "open" /\ ItemLife(e) = "closed" /\ e.pending = ob.pending
        /\ e.running = ob.running
    BY <1>7 DEF ItemCloses, ItemLife
  <2>2. g[o] = [f[o] EXCEPT !.life = "closed"]
    BY <1>0, <2>1, LifeUpdate
  <2>3. Promise!Close(o)
    BY <1>0, <2>1, <2>2 DEF Promise!Close
  <2> QED BY <2>3 DEF Promise!ItemNext
<1>8. CASE ItemFrees(ob, e)
  <2>1. /\ ItemLife(ob) = "closed" /\ ItemLife(e) = "gone" /\ ob.pending = 0 /\ ob.running = 0
        /\ e.pending = 0 /\ e.running = 0
    BY <1>8 DEF ItemFrees, ItemLife
  <2>2. g[o] = [f[o] EXCEPT !.life = "gone"] /\ f[o] = [life |-> "closed", pending |-> 0, running |-> 0]
    BY <1>0, <2>1, LifeUpdate DEF ItemRec
  <2>3. Promise!Free(o)
    BY <2>2 DEF Promise!Free
  <2> QED BY <2>3 DEF Promise!ItemNext
<1> QED BY <1>1, <1>2, <1>3, <1>4, <1>5, <1>6, <1>7, <1>8 DEF ItemMove

(* A step of the pool is one of WorkItems, or none. *)
LEMMA ItemsSimulate ==
  ASSUME Shape, Shape', ItemsStep
  PROVE  Promise!ItemNext \/ Abstraction' = Abstraction
<1>1. PICK f, g : f = Abstraction /\ g = Abstraction'
  OBVIOUS
<1>2. /\ f = [o \in Objects |-> ItemOf(obj[o])] /\ g = [o \in Objects |-> ItemOf(obj'[o])]
      /\ f = [x \in Objects |-> f[x]] /\ g = [x \in Objects |-> g[x]]
  BY <1>1, AbstractionIs, AbstractionIsNext
<1>3. ASSUME NEW x \in Objects, ItemSame(obj[x], obj'[x]) PROVE g[x] = f[x]
  BY <1>2, <1>3 DEF ItemSame, ItemOf
<1>4. CASE \A x \in Objects : ItemSame(obj[x], obj'[x])
  BY <1>1, <1>2, <1>3, <1>4
<1>5. CASE \E o \in Objects : KeptObj(o) /\ ItemMove(o, obj[o], CN(o), obj'[o])
  <2>1. PICK o \in Objects : KeptObj(o) /\ ItemMove(o, obj[o], CN(o), obj'[o])
    BY <1>5
  <2>2. \A x \in Objects \ {o} : g[x] = f[x]
    BY <1>2, <2>1 DEF KeptObj
  <2>3. CASE g[o] = f[o]
    BY <1>1, <1>2, <2>2, <2>3
  <2>4. CASE g[o] # f[o]
    <3>1. g = [f EXCEPT ![o] = g[o]]
      BY <1>2, <2>2
    <3>2. f[o] = ItemOf(obj[o]) /\ g[o] = ItemOf(obj'[o])
      BY <1>2
    <3> QED BY <1>1, <1>2, <2>1, <2>4, <3>1, <3>2, MoveIs
  <2> QED BY <2>3, <2>4
<1> QED BY <1>4, <1>5 DEF ItemsStep

(* The pool keeps the promise of WorkItems, for any number of objects,      *)
(* workers, callers and service threads: every step of the locks, lists and *)
(* reference counts is, for each object, a step that WorkItems allows.      *)
THEOREM PoolImplementsWorkItems == Spec => ImplementsWorkItems
<1>1. Init => Promise!ItemInit
  <2> SUFFICES ASSUME Init PROVE Promise!ItemInit
    OBVIOUS
  <2>1. obj = [o \in Objects |-> NoObject]
    BY DEF Init, PoolInit
  <2>2. NoObject.life = "none" /\ NoObject.pending = 0 /\ NoObject.running = 0
    BY DEF NoObject
  <2> QED BY <2>1, <2>2 DEF Promise!ItemInit, Abstraction
<1>2. /\ BaseInv /\ CoreInv /\ program \in Programs
      /\ (BaseInv /\ CoreInv /\ program \in Programs)' /\ [Next]_vars
      => [Promise!ItemNext]_Abstraction
  <2> SUFFICES ASSUME BaseInv, CoreInv, program \in Programs, BaseInv', [Next]_vars
               PROVE  Promise!ItemNext \/ Abstraction' = Abstraction
    OBVIOUS
  <2>1. ItemsStep
    BY ItemsNext
  <2> QED BY <2>1, ItemsSimulate DEF BaseInv
<1>3. Spec => [](BaseInv /\ CoreInv /\ program \in Programs)
  BY CoreAlways
<1> QED
  BY <1>1, <1>2, <1>3, PTL DEF Spec, ImplementsWorkItems, Promise!ItemSpec

-----------------------------------------------------------------------------
(* Workers for the items, and waits for what is finished.  Most steps are   *)
(* calm: they leave what there is to do and who sleeps.                     *)

SameDuty(ob, e) ==
    /\ e.pending = ob.pending /\ e.running = ob.running
    /\ e.associated = ob.associated /\ e.ops = ob.ops
DutyKept == \A o \in Objects : SameDuty(obj[o], obj'[o])

PoolQuiet ==
    /\ pool'.cs = pool.cs \/ pool.cs = Nil
    /\ pool'.num_workers >= pool.num_workers /\ pool'.objcount <= pool.objcount
    /\ pool'.shutdown = pool.shutdown

WorkUp(r, s) ==
    /\ s.pc = "asleep" => r.pc = "asleep"
    /\ s.pc = "check" => r.pc = "check"
    /\ r.pc \in {"run", "timedout"} => s.pc \in {"run", "timedout"}
WorkQuiet == \A w \in Workers : WorkUp(worker[w], worker'[w])

SubQuiet == \A t \in Callers : caller'[t].pc = "submit" => caller[t].pc = "submit"
SleepQuiet == \A t \in Callers : caller'[t] = caller[t] \/ caller'[t].pc \notin {"sleep", "gsleep"}
AgainQuiet == ioq'.pc = "again" => ioq.pc = "again"

Calm == DutyKept /\ PoolQuiet /\ WorkQuiet /\ SubQuiet /\ SleepQuiet /\ AgainQuiet

(* The objects stay. *)
LEMMA DutyStill ==
  ASSUME obj' = obj
  PROVE  DutyKept
BY DEF DutyKept, SameDuty

(* One object changes, and not what it has to do. *)
LEMMA DutyOne ==
  ASSUME NEW o \in Objects, KeptObj(o), SameDuty(obj[o], obj'[o])
  PROVE  DutyKept
BY DEF DutyKept, KeptObj, SameDuty

(* So with its new record. *)
LEMMA DutyTo ==
  ASSUME Shape, NEW o \in Objects, NEW e, obj' = [obj EXCEPT ![o] = e], SameDuty(obj[o], e)
  PROVE  DutyKept
<1>1. obj'[o] = e /\ KeptObj(o)
  BY DEF Shape, KeptObj
<1> QED BY <1>1, DutyOne

(* The pool stays. *)
LEMMA PoolStill ==
  ASSUME Shape, pool' = pool
  PROVE  PoolQuiet
BY DEF PoolQuiet, Shape, PoolRec

(* The workers stay. *)
LEMMA WorkUpStill ==
  ASSUME worker' = worker
  PROVE  WorkQuiet
BY DEF WorkQuiet, WorkUp

(* One worker goes on. *)
LEMMA WorkUpOne ==
  ASSUME Shape, NEW w \in Workers, NEW r, worker' = [worker EXCEPT ![w] = r], WorkUp(worker[w], r)
  PROVE  WorkQuiet
<1>1. worker'[w] = r /\ \A x \in Workers \ {w} : worker'[x] = worker[x]
  BY DEF Shape
<1> QED BY <1>1 DEF WorkQuiet, WorkUp

(* The callers stay. *)
LEMMA CallStill ==
  ASSUME caller' = caller
  PROVE  SubQuiet /\ SleepQuiet
BY DEF SubQuiet, SleepQuiet

(* One caller goes on, and does not fall asleep. *)
LEMMA CallOne ==
  ASSUME Shape, NEW t \in Callers, NEW c, caller' = [caller EXCEPT ![t] = c],
         c.pc \notin {"submit", "sleep", "gsleep"} \/ c = caller[t]
  PROVE  SubQuiet /\ SleepQuiet
<1>1. caller'[t] = c /\ \A x \in Callers \ {t} : caller'[x] = caller[x]
  BY DEF Shape
<1> QED BY <1>1 DEF SubQuiet, SleepQuiet

(* Callers are woken. *)
LEMMA CallWoken ==
  ASSUME Shape, NEW o, NEW ob, NEW events \in SUBSET {"sleep", "gsleep"}, WakeWaiters(o, ob, events)
  PROVE  SubQuiet /\ SleepQuiet
<1>1. ASSUME NEW t \in Callers
      PROVE  \/ caller'[t] = caller[t]
             \/ /\ caller[t].pc \in events
                /\ caller'[t] = [caller[t] EXCEPT !.pc = IF @ = "gsleep" THEN "gwait" ELSE "wait"]
  BY DEF WakeWaiters
<1>2. ASSUME NEW t \in Callers PROVE caller[t] \in CallerRec
  BY <1>2 DEF Shape, CallerSet
<1>3. ASSUME NEW t \in Callers PROVE caller'[t] = caller[t] \/ caller'[t].pc \in {"wait", "gwait"}
  <2>1. CASE caller'[t] = [caller[t] EXCEPT !.pc = IF @ = "gsleep" THEN "gwait" ELSE "wait"]
    <3>1. PICK c \in CallerRec : c = caller[t]
      BY <1>2, <1>3
    <3>2. [c EXCEPT !.pc = IF @ = "gsleep" THEN "gwait" ELSE "wait"].pc \in {"wait", "gwait"}
      BY ONLY c \in CallerRec DEF CallerRec
    <3> QED BY <2>1, <3>1, <3>2
  <2> QED BY <1>1, <1>3, <2>1
<1> QED BY <1>3 DEF SubQuiet, SleepQuiet

(* The queues stay. *)
LEMMA AgainStill ==
  ASSUME ioq' = ioq
  PROVE  AgainQuiet
BY DEF AgainQuiet

(* The pool is left alone, but for the queues. *)
LEMMA CalmStill ==
  ASSUME Shape, UNCHANGED poolVars, AgainQuiet
  PROVE  Calm
BY DutyStill, PoolStill, WorkUpStill, CallStill DEF Calm, poolVars

(* An object that is dying is destroyed: it was finished. *)
LEMMA DestroyCalm ==
  ASSUME BaseInv, BaseInv', CoreInv, NEW o \in Objects, obj[o].life = "dying", tp_object_destroy(o)
  PROVE  DutyKept /\ PoolQuiet
<1>0. Shape /\ Shape'
  BY DEF BaseInv
<1>1. Known(o)
  BY KnownIs
<1>2. /\ obj[o].pending = 0 /\ obj[o].running = 0 /\ obj[o].shutdown = TRUE /\ obj[o].ops = 0
      /\ obj[o].associated = 0
  <2>1. obj[o].pending = 0 /\ obj[o].running = 0 /\ obj[o].shutdown = TRUE /\ obj[o].running = WN(o).run
    BY <1>1, ItemFacts DEF Known
  <2>2. obj[o].ops = 0
    BY <1>1, <2>1 DEF Known, ObjOK, UsePart, IoPart
  <2>3. obj[o].associated = WN(o).linked
    BY <1>1 DEF Known, ObjOK, CountPart
  <2>4. WN(o).linked \in Nat /\ WN(o).linked <= WN(o).run
    BY <1>1, TypedIs DEF Known
  <2> QED BY <2>1, <2>2, <2>3, <2>4
<1>3. PICK e : /\ e = [NoObject EXCEPT !.life = "gone", !.shutdown = obj[o].shutdown, !.grouped = obj[o].grouped]
               /\ obj' = [obj EXCEPT ![o] = e]
  BY DEF tp_object_destroy
<1>4. e.pending = 0 /\ e.running = 0 /\ e.associated = 0 /\ e.ops = 0
  BY <1>3 DEF NoObject
<1>5. DutyKept
  BY <1>0, <1>2, <1>3, <1>4, DutyTo DEF SameDuty
<1>6. PICK p \in PoolRec : p = pool
  BY <1>0 DEF Shape
<1>7. pool' = tp_threadpool_release([p EXCEPT !.objcount = @ - 1])
  BY <1>6 DEF tp_object_destroy
<1>8. /\ pool'.cs = p.cs /\ pool'.num_workers = p.num_workers /\ pool'.objcount = p.objcount - 1
      /\ pool'.shutdown = p.shutdown /\ p.objcount \in Int /\ p.num_workers \in Int
  BY <1>7 DEF tp_threadpool_release, PoolRec
<1>9. PoolQuiet
  BY <1>6, <1>8 DEF PoolQuiet
<1> QED BY <1>5, <1>9

(* No object has more to do; no worker that could do it goes. *)
PendFalls == \A o \in Objects : obj'[o].pending <= obj[o].pending
Gentle == PendFalls /\ PoolQuiet /\ WorkQuiet /\ SubQuiet /\ AgainQuiet

(* No object comes to be finished, and no caller falls asleep. *)
Busier(ob, e) ==
    /\ e.pending = 0 /\ e.ops = 0 /\ e.running = 0 => ob.pending = 0 /\ ob.ops = 0 /\ ob.running = 0
    /\ e.pending = 0 /\ e.ops = 0 /\ e.associated = 0 => ob.pending = 0 /\ ob.ops = 0 /\ ob.associated = 0
Restful == SleepQuiet /\ \A o \in Objects : Busier(obj[o], obj'[o])

(* A worker takes an item. *)
TakeStep ==
    \E w \in Workers, o \in Objects :
      /\ worker[w].pc = "run" /\ worker'[w].pc = "callback"
      /\ \A x \in Workers \ {w} : worker'[x] = worker[x]
      /\ KeptObj(o) /\ obj[o].pending > 0 /\ obj'[o].pending = obj[o].pending - 1
      /\ pool.cs \in {Nil, w} /\ pool'.num_workers = pool.num_workers
      /\ pool'.objcount = pool.objcount /\ pool'.shutdown = pool.shutdown
      /\ caller' = caller /\ ioq' = ioq

(* A worker finds nothing to do. *)
IdleStep ==
    /\ \E w \in Workers : WorkerCheck(w) \/ WorkerSleep(w) \/ WorkerTimedOut(w)
    /\ ioq' = ioq

(* What has to be done is a number. *)
LEMMA PendingIs ==
  ASSUME Shape, NEW o \in Objects
  PROVE  /\ obj[o].pending \in Int /\ obj[o].running \in Int /\ obj[o].associated \in Int
         /\ obj[o].ops \in Int
BY DEF Shape, ObjRec

(* A calm step is gentle, and nobody misses it. *)
LEMMA CalmIs ==
  ASSUME Shape, Calm
  PROVE  Gentle /\ Restful
<1>1. PendFalls
  BY PendingIs DEF Calm, DutyKept, SameDuty, PendFalls
<1>2. Restful
  BY DEF Calm, DutyKept, SameDuty, Restful, Busier
<1> QED BY <1>1, <1>2 DEF Calm, Gentle

(* One object changes. *)
LEMMA FallsOne ==
  ASSUME Shape, NEW o \in Objects, KeptObj(o), obj'[o].pending <= obj[o].pending
  PROVE  PendFalls
BY PendingIs DEF PendFalls, KeptObj

(* It does not come to be finished. *)
LEMMA BusierOne ==
  ASSUME NEW o \in Objects, KeptObj(o), Busier(obj[o], obj'[o])
  PROVE  \A x \in Objects : Busier(obj[x], obj'[x])
BY DEF KeptObj, Busier

-----------------------------------------------------------------------------
(* Workers. *)

(* A worker takes an item. *)
LEMMA WorkerTakeDoes ==
  ASSUME BaseInv, BaseInv', CoreInv, NEW w \in Workers, WorkerTake(w), ioq' = ioq
  PROVE  TakeStep /\ Restful
<1>0. Shape /\ Shape' /\ ListedOK
  BY DEF BaseInv, CoreInv
<1>1. Waiting /\ worker[w].pc = "run" /\ pool.cs \in {Nil, w} /\ caller' = caller
  BY DEF WorkerTake, CsFreeFor
<1>2. PICK o \in Objects : o = threadpool_get_next_item
  BY <1>0, <1>1, NextItem
<1>3. pools[Priority[o]] # <<>> /\ Head(pools[Priority[o]]) = o
  BY <1>0, <1>1, <1>2, NextItem DEF threadpool_get_next_item
<1>4. obj[o].pending > 0
  <2>1. PICK p \in 1..3 : p = Priority[o]
    BY PoolConstants
  <2>2. PICK s \in Seq(OfPriority(p)) : s = pools[p]
    BY <1>0, <2>1 DEF Shape, PoolLists
  <2>3. o \in Rng(s)
    BY <1>3, <2>1, <2>2, TailIs
  <2> QED BY <1>0, <2>1, <2>2, <2>3 DEF ListedOK
<1>5. obj' = tp_object_execute(o)
  BY <1>2 DEF WorkerTake
<1>6. PICK e : tp_object_execute(o) = [obj EXCEPT ![o] = e] /\ ExecutedIs(obj[o], e, Type[o] = "io")
  BY <1>0, ExecuteIs
<1>7. KeptObj(o) /\ obj'[o] = e
  BY <1>0, <1>5, <1>6 DEF KeptObj, Shape
<1>8. e.pending = obj[o].pending - 1 /\ e.running = obj[o].running + 1 /\ e.associated = obj[o].associated + 1
  BY <1>6 DEF ExecutedIs
<1>9. PICK again \in BOOLEAN : pool' = tp_object_prio_queue([pool EXCEPT !.cs = Nil], again)
  <2>1. PICK again \in BOOLEAN : again <=> obj[o].pending > 1
    <3>1. TRUE \in BOOLEAN /\ FALSE \in BOOLEAN
      OBVIOUS
    <3> QED BY <3>1, Zenon
  <2>2. pool' = tp_object_prio_queue([pool EXCEPT !.cs = Nil], obj[o].pending > 1)
    BY <1>2 DEF WorkerTake
  <2>3. tp_object_prio_queue([pool EXCEPT !.cs = Nil], obj[o].pending > 1) =
          tp_object_prio_queue([pool EXCEPT !.cs = Nil], again)
    BY <2>1 DEF tp_object_prio_queue
  <2> QED BY <2>2, <2>3
<1>10. /\ pool'.num_workers = pool.num_workers /\ pool'.objcount = pool.objcount
       /\ pool'.shutdown = pool.shutdown
  <2>1. PICK p : p = [pool EXCEPT !.cs = Nil]
    OBVIOUS
  <2>2. p \in PoolRec /\ SamePool(pool, p)
    BY <1>0, <2>1 DEF Shape, PoolRec, SamePool
  <2>3. SamePool(p, pool')
    BY <1>9, <2>1, <2>2, PrioQueueIs
  <2> QED BY <2>2, <2>3 DEF SamePool
<1>11. worker'[w].pc = "callback" /\ \A x \in Workers \ {w} : worker'[x] = worker[x]
  <2>1. PICK r : r.pc = "callback" /\ worker' = [worker EXCEPT ![w] = r]
    BY DEF WorkerTake, NoWorker
  <2> QED BY <1>0, <2>1 DEF Shape
<1>12. TakeStep
  BY <1>1, <1>4, <1>7, <1>8, <1>10, <1>11 DEF TakeStep
<1>13. SleepQuiet
  BY <1>1, CallStill
<1>14. WN(o).run \in Nat /\ WN(o).linked \in Nat /\ obj[o].running = WN(o).run /\ obj[o].associated = WN(o).linked
  <2>1. Known(o)
    BY KnownIs
  <2> QED BY <2>1, TypedIs DEF Known, ObjOK, CountPart
<1>15. Busier(obj[o], obj'[o])
  BY <1>7, <1>8, <1>14 DEF Busier
<1> QED BY <1>7, <1>12, <1>13, <1>15, BusierOne DEF Restful

(* A callback returns. *)
LEMMA WorkerReturnDoes ==
  ASSUME BaseInv, BaseInv', CoreInv, NEW w \in Workers, WorkerReturn(w), ioq' = ioq
  PROVE  Gentle
<1>0. Shape
  BY DEF BaseInv
<1>1. PICK o : o = worker[w].obj
  OBVIOUS
<1>2. o \in Objects /\ obj[o] \in ObjRec /\ pool \in PoolRec
  BY <1>0, <1>1, RunsIs DEF WorkerReturn, Shape
<1>3. PICK a \in BOOLEAN : a = worker[w].associated
  BY <1>0, <1>1, RunsIs DEF WorkerReturn
<1>4. PICK simple \in BOOLEAN : simple = (Type[o] = "simple")
  OBVIOUS
<1>5. PICK r : r = Returned(obj[o], a, simple)
  OBVIOUS
<1>a. ReturnedIs(obj[o], r, a, simple)
  BY <1>2, <1>5, ReturnIs
<1>6. ReturnedIs(obj[o], r, a, simple) /\ r \in ObjRec
  BY <1>a DEF ReturnedIs
<1>7. PICK e : e = Dropped(r, 1)
  OBVIOUS
<1>8. /\ obj' = [obj EXCEPT ![o] = e]
      /\ WakeWaiters(o, r, {"gsleep"} \cup (IF a THEN {"sleep"} ELSE {}))
      /\ pool' = [pool EXCEPT !.num_busy_workers = @ - 1, !.cs = w]
      /\ pool.cs = Nil /\ worker[w].pc = "callback"
  BY <1>1, <1>3, <1>4, <1>5, <1>7 DEF WorkerReturn, Returned, CsFree
<1>9. PendFalls
  <2>1. e.pending = obj[o].pending
    BY <1>6, <1>7 DEF Dropped, ReturnedIs, ObjRec
  <2>2. KeptObj(o) /\ obj'[o] = e
    BY <1>0, <1>2, <1>8 DEF KeptObj, Shape
  <2>3. obj[o].pending \in Int
    BY <1>0, <1>2, PendingIs
  <2> QED BY <1>0, <1>2, <2>1, <2>2, <2>3, FallsOne
<1>10. PoolQuiet
  BY <1>2, <1>8 DEF PoolQuiet, PoolRec
<1>11. WorkQuiet
  <2>0. PICK last \in BOOLEAN : last = (r.refcount = 1)
    OBVIOUS
  <2>a. worker' = [worker EXCEPT ![w] = IF last THEN [NoWorker EXCEPT !.pc = "destroy", !.obj = o]
                                        ELSE [NoWorker EXCEPT !.pc = "run"]]
    BY <1>1, <1>3, <1>4, <1>5, <2>0 DEF WorkerReturn, Returned
  <2>b. PICK s : s = IF last THEN [NoWorker EXCEPT !.pc = "destroy", !.obj = o]
                     ELSE [NoWorker EXCEPT !.pc = "run"]
    OBVIOUS
  <2>1. s.pc \in {"destroy", "run"} /\ worker' = [worker EXCEPT ![w] = s]
    BY <2>a, <2>b DEF NoWorker
  <2> QED BY <1>0, <1>8, <2>1, WorkUpOne DEF WorkUp
<1>12. SubQuiet
  <2>1. PICK events : events = {"gsleep"} \cup (IF a THEN {"sleep"} ELSE {})
    OBVIOUS
  <2>2. events \in SUBSET {"sleep", "gsleep"}
    BY <2>1
  <2> QED BY <1>0, <1>8, <2>1, <2>2, CallWoken
<1> QED BY <1>9, <1>10, <1>11, <1>12, AgainStill DEF Gentle

(* The callers that wait for o are woken as r says it is finished. *)
Finished(ob) == ob.pending = 0 /\ ob.ops = 0 /\ ob.running = 0
Answered(ob) == ob.pending = 0 /\ ob.ops = 0 /\ ob.associated = 0
WakeStep ==
    \E o \in Objects : \E r : \E events \in SUBSET {"sleep", "gsleep"} :
      /\ WakeWaiters(o, r, events) /\ KeptObj(o) /\ SameDuty(r, obj'[o])
      /\ "gsleep" \notin events /\ Finished(r) => Finished(obj[o])
      /\ "sleep" \notin events /\ Answered(r) => Answered(obj[o])

(* A caller looks at an object and may fall asleep. *)
DozeStep ==
    /\ obj' = obj
    /\ \E t \in Callers : tp_object_wait(t) \/ GroupWait(t)

(* A worker drops the last reference of an object. *)
LEMMA WorkerDestroyCalm ==
  ASSUME BaseInv, BaseInv', CoreInv, NEW w \in Workers, WorkerDestroy(w), ioq' = ioq
  PROVE  Calm
<1>0. Shape
  BY DEF BaseInv
<1>1. PICK o : o = worker[w].obj
  OBVIOUS
<1>2. o \in Objects /\ worker[w] \in EndsOf(o) /\ tp_object_destroy(o) /\ caller' = caller
  BY <1>0, <1>1 DEF WorkerDestroy, Shape, WorkerSet, EndsOf
<1>3. WN(o).ends > 0
  <2>1. DOMAIN worker = Workers /\ IsFiniteSet(Workers)
    BY <1>0, PoolConstants DEF Shape
  <2>2. Cnt(worker, EndsOf(o)) \in Nat /\ Cnt(worker, EndsOf(o)) # 0
    BY <1>2, <2>1, CntSome
  <2> QED BY <2>2 DEF WN
<1>4. obj[o].life = "dying"
  BY <1>0, <1>2, <1>3, DyingIs
<1>5. DutyKept /\ PoolQuiet
  BY <1>2, <1>4, DestroyCalm
<1>6. WorkQuiet
  <2>1. PICK r : r = [NoWorker EXCEPT !.pc = "run"]
    OBVIOUS
  <2>2. r.pc = "run" /\ worker' = [worker EXCEPT ![w] = r]
    BY <2>1 DEF WorkerDestroy, NoWorker
  <2> QED BY <1>0, <2>2, WorkUpOne DEF WorkUp
<1> QED BY <1>2, <1>5, <1>6, CallStill, AgainStill DEF Calm

(* A worker times out, or is gone. *)
LEMMA WorkerGoneCalm ==
  ASSUME BaseInv, NEW w \in Workers, WorkerTimeout(w) \/ WorkerLeave(w), ioq' = ioq
  PROVE  Calm
<1>0. Shape /\ obj' = obj /\ caller' = caller /\ pool \in PoolRec
  BY DEF BaseInv, WorkerTimeout, WorkerLeave, Shape
<1>1. PoolQuiet
  <2>1. CASE pool' = pool
    BY <1>0, <2>1, PoolStill
  <2>2. CASE pool' = tp_threadpool_release(pool)
    BY <1>0, <2>2 DEF tp_threadpool_release, PoolRec, PoolQuiet
  <2> QED BY <2>1, <2>2 DEF WorkerTimeout, WorkerLeave
<1>2. WorkQuiet
  <2>1. worker[w] \in WorkerRec
    BY <1>0 DEF Shape, WorkerSet
  <2>2. CASE WorkerTimeout(w)
    <3>1. PICK r : r = [worker[w] EXCEPT !.pc = "timedout"]
      OBVIOUS
    <3>2. r.pc = "timedout"
      BY <2>1, <3>1 DEF WorkerRec
    <3>3. worker' = [worker EXCEPT ![w] = r]
      BY <2>2, <3>1 DEF WorkerTimeout
    <3> QED BY <1>0, <3>2, <3>3, WorkUpOne DEF WorkUp
  <2>3. CASE WorkerLeave(w)
    <3>1. worker[w].pc = "leave" /\ worker' = [worker EXCEPT ![w] = NoWorker] /\ NoWorker.pc = "none"
      BY <2>3 DEF WorkerLeave, NoWorker
    <3>2. WorkUp(worker[w], NoWorker)
      BY <3>1 DEF WorkUp
    <3> QED BY <1>0, <3>1, <3>2, WorkUpOne
  <2> QED BY <2>2, <2>3
<1> QED BY <1>0, <1>1, <1>2, DutyStill, CallStill, AgainStill DEF Calm

(* A callback that returns wakes those who wait for it. *)
LEMMA WorkerReturnWakes ==
  ASSUME BaseInv, CoreInv, NEW w \in Workers, WorkerReturn(w)
  PROVE  WakeStep
<1>0. Shape
  BY DEF BaseInv
<1>1. PICK o : o = worker[w].obj
  OBVIOUS
<1>2. o \in Objects /\ obj[o] \in ObjRec
  BY <1>0, <1>1, RunsIs DEF WorkerReturn, Shape
<1>3. PICK a \in BOOLEAN : a = worker[w].associated
  BY <1>0, <1>1, RunsIs DEF WorkerReturn
<1>4. PICK simple \in BOOLEAN : simple = (Type[o] = "simple")
  OBVIOUS
<1>5. PICK r : r = Returned(obj[o], a, simple)
  OBVIOUS
<1>6. ReturnedIs(obj[o], r, a, simple)
  BY <1>2, <1>5, ReturnIs
<1>7. PICK e : e = Dropped(r, 1)
  OBVIOUS
<1>8. PICK events : events = {"gsleep"} \cup (IF a THEN {"sleep"} ELSE {})
  OBVIOUS
<1>9. obj' = [obj EXCEPT ![o] = e] /\ WakeWaiters(o, r, events)
  BY <1>1, <1>3, <1>4, <1>5, <1>7, <1>8 DEF WorkerReturn, Returned
<1>10. KeptObj(o) /\ obj'[o] = e
  BY <1>0, <1>2, <1>9 DEF KeptObj, Shape
<1>11. SameDuty(r, e)
  <2>1. r \in ObjRec
    BY <1>6 DEF ReturnedIs
  <2> QED BY <1>7, <2>1 DEF SameDuty, Dropped, ObjRec
<1>12. events \in SUBSET {"sleep", "gsleep"} /\ "gsleep" \in events /\ ("sleep" \notin events => ~a)
  BY <1>8
<1>13. ~a => r.pending = obj[o].pending /\ r.ops = obj[o].ops /\ r.associated = obj[o].associated
  BY <1>6 DEF ReturnedIs
<1>14. "sleep" \notin events /\ Answered(r) => Answered(obj[o])
  BY <1>12, <1>13 DEF Answered
<1> QED BY <1>2, <1>9, <1>10, <1>11, <1>12, <1>14 DEF WakeStep

(* A worker that finds nothing leaves the objects alone. *)
LEMMA IdleRests ==
  ASSUME BaseInv, IdleStep
  PROVE  Restful /\ obj' = obj /\ caller' = caller /\ pools' = pools
<1>1. obj' = obj /\ caller' = caller /\ pools' = pools
  BY DEF IdleStep, WorkerCheck, WorkerSleep, WorkerTimedOut
<1>2. SleepQuiet
  BY <1>1, CallStill
<1>3. \A o \in Objects : Busier(obj[o], obj'[o])
  BY <1>1 DEF Busier
<1> QED BY <1>1, <1>2, <1>3 DEF Restful

(* Workers. *)
LEMMA WorkerMovesDo ==
  ASSUME BaseInv, BaseInv', CoreInv, NEW w \in Workers, WorkerMoves(w)
  PROVE  /\ Gentle \/ TakeStep \/ IdleStep
         /\ Restful \/ WakeStep
<1>0. Shape /\ ioq' = ioq
  BY DEF BaseInv, WorkerMoves, InPool, queueVars, ioVars
<1>1. CASE WorkerTake(w)
  BY <1>0, <1>1, WorkerTakeDoes
<1>2. CASE WorkerReturn(w)
  BY <1>0, <1>2, WorkerReturnDoes, WorkerReturnWakes
<1>3. CASE WorkerDestroy(w)
  BY <1>0, <1>3, WorkerDestroyCalm, CalmIs
<1>4. CASE WorkerTimeout(w) \/ WorkerLeave(w)
  BY <1>0, <1>4, WorkerGoneCalm, CalmIs
<1>5. CASE WorkerCheck(w) \/ WorkerSleep(w) \/ WorkerTimedOut(w)
  <2>1. IdleStep
    BY <1>0, <1>5 DEF IdleStep
  <2> QED BY <2>1, IdleRests
<1> QED BY <1>1, <1>2, <1>3, <1>4, <1>5 DEF WorkerMoves, InPool, WorkerStep

(* A callback is submitted: a worker is started or woken for it, if one     *)
(* sleeps.                                                                  *)
SubmitStep ==
    /\ \E o \in Objects : ItemSubmits(o, obj[o], CN(o), obj'[o]) /\ KeptObj(o)
    /\ pool.cs \in {Nil, "io"} /\ (ioq'.pc = "again" => pool'.cs = "io")
    /\ pool'.num_workers >= pool.num_workers /\ pool'.objcount = pool.objcount
    /\ pool'.shutdown = pool.shutdown
    /\ WorkQuiet /\ SubQuiet
    /\ \/ Sleepers = {}
       \/ \E w \in Workers : worker[w].pc \notin {"run", "timedout"} /\ worker'[w].pc = "run"

(* A worker is started. *)
LEMMA NewWorkerDoes ==
  ASSUME Shape, NEW p \in PoolRec, tp_new_worker_thread(p)
  PROVE  /\ WorkQuiet /\ \E w \in Workers : worker[w].pc = "none" /\ worker'[w].pc = "run"
         /\ pool'.cs = p.cs /\ pool'.num_workers = p.num_workers + 1 /\ pool'.objcount = p.objcount
         /\ pool'.shutdown = p.shutdown /\ p.num_workers \in Int
<1>1. PICK w : w = NewWorker
  OBVIOUS
<1>2. w \in Workers /\ worker[w].pc = "none"
  BY <1>1, NewWorkerShape DEF Spare
<1>3. PICK r : r = [NoWorker EXCEPT !.pc = "run"]
  OBVIOUS
<1>4. r.pc = "run" /\ worker' = [worker EXCEPT ![w] = r]
  BY <1>1, <1>3 DEF tp_new_worker_thread, NoWorker
<1>5. WorkQuiet
  BY <1>2, <1>4, WorkUpOne DEF WorkUp
<1>6. worker'[w].pc = "run"
  BY <1>2, <1>4 DEF Shape
<1>7. pool' = [p EXCEPT !.refcount = @ + 1, !.num_workers = @ + 1]
  BY DEF tp_new_worker_thread
<1> QED BY <1>2, <1>5, <1>6, <1>7 DEF PoolRec

(* A worker is woken. *)
LEMMA WakeDoes ==
  ASSUME Shape, RtlWakeConditionVariable
  PROVE  /\ WorkQuiet
         /\ Sleepers = {} \/ \E w \in Workers : worker[w].pc = "asleep" /\ worker'[w].pc = "run"
<1>1. CASE Sleepers = {}
  BY <1>1, WorkUpStill DEF RtlWakeConditionVariable
<1>2. CASE Sleepers # {}
  <2>1. PICK w \in Sleepers : worker' = [worker EXCEPT ![w].pc = "run"]
    BY <1>2 DEF RtlWakeConditionVariable
  <2>2. worker[w] \in WorkerRec /\ w \in Workers /\ worker[w].pc = "asleep"
    BY DEF Shape, WorkerSet, Sleepers
  <2>3. PICK r : r = [worker[w] EXCEPT !.pc = "run"]
    OBVIOUS
  <2>4. r.pc = "run" /\ worker' = [worker EXCEPT ![w] = r]
    BY <2>1, <2>2, <2>3 DEF WorkerRec
  <2>5. WorkQuiet
    BY <2>2, <2>4, WorkUpOne DEF WorkUp
  <2>6. worker'[w].pc = "run"
    BY <2>2, <2>4 DEF Shape
  <2> QED BY <2>2, <2>5, <2>6
<1> QED BY <1>1, <1>2

(* tp_object_submit *)
LEMMA SubmitDoes ==
  ASSUME BaseInv, BaseInv', CoreInv, NEW o \in Objects, obj[o].life = "live", obj[o].shutdown = FALSE,
         Type[o] = "simple" => CN(o).sub > 0, NEW f, Ready(obj[o], f), NEW p \in PoolRec, SamePool(pool, p),
         tp_object_submit(o, f, p), pool.cs \in {Nil, "io"}, ioq'.pc = "again" => p.cs = "io", SubQuiet
  PROVE  SubmitStep /\ \A x \in Objects : Busier(obj[x], obj'[x])
<1>1. Shape /\ Shape' /\ ListedOK /\ ObjInv /\ IoShape
  BY DEF BaseInv, CoreInv
<1>2. obj[o].pending \in Nat
  BY <1>1, GoodTyped, ItemFacts
<1>3. f \in ObjRec /\ f.pending = obj[o].pending /\ f.pending >= 0
  BY <1>2 DEF Ready
<1>4. SubmittedTo(f, obj'[o]) /\ KeptObj(o)
  BY <1>1, <1>3, SubmitEffect DEF KeptObj
<1>5. ItemSubmits(o, obj[o], CN(o), obj'[o])
  BY <1>4 DEF SubmittedTo, Ready, ItemSubmits
<1>6. PICK first \in BOOLEAN : first = (f.pending = 0)
  OBVIOUS
<1>7. PICK q : q = tp_object_prio_queue(p, first)
  OBVIOUS
<1>8. q \in PoolRec /\ SamePool(p, q) /\ q.cs = p.cs
  <2>1. q \in PoolRec /\ SamePool(p, q)
    BY <1>7, PrioQueueIs
  <2>2. q.cs = p.cs
    BY <1>7 DEF tp_object_prio_queue, PoolRec
  <2> QED BY <2>1, <2>2
<1>9. tp_new_worker_thread(q) \/ (pool' = q /\ RtlWakeConditionVariable)
  BY <1>6, <1>7 DEF tp_object_submit
<1>10. /\ WorkQuiet
       /\ \/ Sleepers = {}
          \/ \E w \in Workers : worker[w].pc \notin {"run", "timedout"} /\ worker'[w].pc = "run"
       /\ pool'.cs = q.cs /\ pool'.num_workers >= q.num_workers /\ pool'.objcount = q.objcount
       /\ pool'.shutdown = q.shutdown
  <2>1. CASE tp_new_worker_thread(q)
    <3>1. /\ WorkQuiet /\ \E w \in Workers : worker[w].pc = "none" /\ worker'[w].pc = "run"
          /\ pool'.cs = q.cs /\ pool'.num_workers = q.num_workers + 1 /\ pool'.objcount = q.objcount
          /\ pool'.shutdown = q.shutdown /\ q.num_workers \in Int
      BY <1>1, <1>8, <2>1, NewWorkerDoes
    <3> QED BY <3>1
  <2>2. CASE pool' = q /\ RtlWakeConditionVariable
    <3>1. /\ WorkQuiet
          /\ Sleepers = {} \/ \E w \in Workers : worker[w].pc = "asleep" /\ worker'[w].pc = "run"
      BY <1>1, <2>2, WakeDoes
    <3>2. q.num_workers \in Int
      BY <1>8 DEF PoolRec
    <3> QED BY <2>2, <3>1, <3>2
  <2> QED BY <1>9, <2>1, <2>2
<1>11. SubmitStep
  BY <1>4, <1>5, <1>8, <1>10 DEF SubmitStep, SamePool
<1>12. Busier(obj[o], obj'[o])
  BY <1>2, <1>5 DEF ItemSubmits, Busier
<1> QED BY <1>4, <1>11, <1>12, BusierOne

(* A submission under pool->cs, the pool being as it is. *)
LEMMA SubmitFree ==
  ASSUME BaseInv, BaseInv', CoreInv, NEW o \in Objects, obj[o].life = "live", obj[o].shutdown = FALSE,
         Type[o] = "simple" => CN(o).sub > 0, NEW f, Ready(obj[o], f), tp_object_submit(o, f, pool),
         CsFree, ioq'.pc = "again" => ioq.pc = "again", ioq.pc = "again" => pool.cs = "io", SubQuiet
  PROVE  SubmitStep /\ \A x \in Objects : Busier(obj[x], obj'[x])
<1>1. pool \in PoolRec /\ SamePool(pool, pool) /\ pool.cs \in {Nil, "io"}
  BY DEF BaseInv, Shape, SamePool, CsFree
<1> QED BY <1>1, SubmitDoes

(* The I/O thread keeps pool->cs between its submissions. *)
AgainHolds == ioq.pc = "again" => pool.cs = "io"

(* The worker that runs o, and o. *)
LEMMA CallbackIs ==
  ASSUME BaseInv, CoreInv, NEW w \in Workers, InCallback(w), NEW o, o = worker[w].obj
  PROVE  /\ o \in Objects /\ WN(o).run > 0 /\ Known(o) /\ obj[o] \in ObjRec
         /\ obj[o].life = "live" /\ obj[o].shutdown \in BOOLEAN /\ worker[w] \in WorkerRec
<1>1. Shape
  BY DEF BaseInv
<1>2. o \in Objects /\ WN(o).run > 0
  BY <1>1, RunsIs DEF InCallback
<1>3. Known(o) /\ worker[w] \in WorkerRec
  BY <1>1, <1>2, KnownIs DEF Shape, WorkerSet
<1> QED BY <1>2, <1>3, ItemFacts, AliveIf DEF Known

(* A callback is disassociated: those who wait for it only are woken. *)
LEMMA DisassociateDoes ==
  ASSUME BaseInv, CoreInv, NEW w \in Workers, TpDisassociateCallback(w), ioq' = ioq
  PROVE  Gentle /\ WakeStep
<1>0. Shape
  BY DEF BaseInv
<1>1. PICK o : o = worker[w].obj
  OBVIOUS
<1>2. PICK e : e = [obj[o] EXCEPT !.associated = @ - 1]
  OBVIOUS
<1>3. /\ InCallback(w) /\ obj' = [obj EXCEPT ![o] = e] /\ WakeWaiters(o, e, {"sleep"})
      /\ worker' = [worker EXCEPT ![w].associated = FALSE] /\ pool' = pool
  BY <1>1, <1>2 DEF TpDisassociateCallback
<1>4. o \in Objects /\ obj[o] \in ObjRec /\ worker[w] \in WorkerRec
  BY <1>1, <1>3, CallbackIs
<1>5. /\ e.pending = obj[o].pending /\ e.running = obj[o].running /\ e.ops = obj[o].ops
      /\ obj[o].pending \in Int
  BY <1>2, <1>4 DEF ObjRec
<1>6. KeptObj(o) /\ obj'[o] = e
  BY <1>0, <1>3, <1>4 DEF KeptObj, Shape
<1>7. PendFalls
  BY <1>0, <1>4, <1>5, <1>6, FallsOne
<1>8. PICK events \in SUBSET {"sleep", "gsleep"} : events = {"sleep"}
  OBVIOUS
<1>9. SubQuiet
  BY <1>0, <1>3, <1>8, CallWoken
<1>10. WorkQuiet
  <2>1. PICK r : r = [worker[w] EXCEPT !.associated = FALSE]
    OBVIOUS
  <2>2. r.pc = worker[w].pc /\ worker' = [worker EXCEPT ![w] = r]
    BY <1>3, <1>4, <2>1 DEF WorkerRec
  <2> QED BY <1>0, <2>2, WorkUpOne DEF WorkUp
<1>11. Gentle
  BY <1>0, <1>3, <1>7, <1>9, <1>10, PoolStill, AgainStill DEF Gentle
<1>12. SameDuty(e, obj'[o]) /\ (Finished(e) => Finished(obj[o]))
  BY <1>5, <1>6 DEF SameDuty, Finished
<1>13. WakeStep
  BY <1>3, <1>4, <1>6, <1>8, <1>12 DEF WakeStep
<1> QED BY <1>11, <1>13

(* A callback says that it may run long: a worker may be started. *)
LEMMA MayRunLongCalm ==
  ASSUME BaseInv, CoreInv, NEW w \in Workers, TpCallbackMayRunLong(w), ioq' = ioq
  PROVE  Calm
<1>0. Shape /\ pool \in PoolRec /\ worker \in [Workers -> WorkerSet]
  BY DEF BaseInv, Shape
<1>1. InCallback(w) /\ obj' = obj /\ caller' = caller
  BY DEF TpCallbackMayRunLong
<1>2. worker[w] \in WorkerRec /\ worker[w].pc = "callback"
  BY <1>1, CallbackIs DEF InCallback
<1>3. PICK r : r = [worker[w] EXCEPT !.may_run_long = TRUE]
  OBVIOUS
<1>4. r.pc = worker[w].pc
  BY <1>2, <1>3 DEF WorkerRec
<1>5. PoolQuiet /\ WorkQuiet
  <2>1. CASE worker' = [worker EXCEPT ![w].may_run_long = TRUE] /\ pool' = pool
    <3>1. worker' = [worker EXCEPT ![w] = r]
      BY <1>3, <2>1
    <3> QED BY <1>0, <1>4, <2>1, <3>1, WorkUpOne, PoolStill DEF WorkUp
  <2>2. CASE /\ Spare # {}
             /\ worker' = [worker EXCEPT ![NewWorker] = [NoWorker EXCEPT !.pc = "run"],
                                         ![w].may_run_long = TRUE]
             /\ pool' = [pool EXCEPT !.refcount = @ + 1, !.num_workers = @ + 1]
    <3>1. PICK n : n = NewWorker
      OBVIOUS
    <3>2. n \in Workers /\ worker[n].pc = "none"
      BY <2>2, <3>1 DEF NewWorker, Spare
    <3>3. n # w
      BY <1>2, <3>2
    <3>4. PICK s : s = [NoWorker EXCEPT !.pc = "run"]
      OBVIOUS
    <3>5. s.pc = "run"
      BY <3>4 DEF NoWorker
    <3>6. worker' = [worker EXCEPT ![n] = s, ![w] = r]
      BY <1>0, <1>3, <2>2, <3>1, <3>3, <3>4
    <3>7. worker'[n] = s /\ worker'[w] = r /\ \A x \in Workers \ {n, w} : worker'[x] = worker[x]
      BY <1>0, <3>2, <3>3, <3>6
    <3>8. WorkQuiet
      BY <1>4, <3>2, <3>5, <3>7 DEF WorkQuiet, WorkUp
    <3>9. PoolQuiet
      BY <1>0, <2>2 DEF PoolQuiet, PoolRec
    <3> QED BY <3>8, <3>9
  <2> QED BY <2>1, <2>2 DEF TpCallbackMayRunLong
<1> QED BY <1>1, <1>5, DutyStill, CallStill, AgainStill DEF Calm

(* A callback releases its object. *)
LEMMA CallbackReleasesCalm ==
  ASSUME BaseInv, CoreInv, NEW w \in Workers, CallbackReleases(w), ioq' = ioq
  PROVE  Calm
<1>0. Shape
  BY DEF BaseInv
<1>1. PICK o : o = worker[w].obj
  OBVIOUS
<1>2. /\ InCallback(w) /\ UNCHANGED <<pool, worker, caller>>
      /\ obj' = [obj EXCEPT ![o] = Closed(@, 1, IF @.owner = "user" THEN "none" ELSE @.owner)]
  BY <1>1 DEF CallbackReleases
<1>3. o \in Objects /\ obj[o] \in ObjRec
  BY <1>1, <1>2, CallbackIs
<1>4. PICK own \in {"none", "user", "group"} : own = IF obj[o].owner = "user" THEN "none" ELSE obj[o].owner
  <2>1. obj[o].owner \in {"none", "user", "group"}
    BY <1>3 DEF ObjRec
  <2> QED BY <2>1
<1>5. PICK e : e = Closed(obj[o], 1, own)
  OBVIOUS
<1>6. obj' = [obj EXCEPT ![o] = e]
  BY <1>2, <1>4, <1>5
<1>7. ReleasedIs(obj[o], e, 1, own)
  BY <1>3, <1>5, ReleaseIs
<1>8. SameDuty(obj[o], e)
  BY <1>7 DEF ReleasedIs, SameDuty
<1>9. DutyKept
  BY <1>0, <1>3, <1>6, <1>8, DutyTo
<1> QED BY <1>0, <1>2, <1>9, PoolStill, WorkUpStill, CallStill, AgainStill DEF Calm

(* A callback posts its object again. *)
LEMMA CallbackPostsDoes ==
  ASSUME BaseInv, BaseInv', CoreInv, AgainHolds, NEW w \in Workers, CallbackPosts(w), ioq' = ioq
  PROVE  SubmitStep /\ Restful
<1>0. Shape
  BY DEF BaseInv
<1>1. PICK o : o = worker[w].obj
  OBVIOUS
<1>2. PICK f : f = Counted(o)
  OBVIOUS
<1>3. /\ InCallback(w) /\ Type[o] = "work" /\ ~obj[o].shutdown /\ tp_object_submit(o, f, pool)
      /\ CsFree /\ caller' = caller
  BY <1>1, <1>2 DEF CallbackPosts
<1>4. /\ o \in Objects /\ obj[o].life = "live" /\ obj[o].shutdown \in BOOLEAN /\ Known(o)
      /\ obj[o] \in ObjRec
  BY <1>1, <1>3, CallbackIs
<1>5. obj[o].shutdown = FALSE
  BY <1>3, <1>4
<1>6. Ready(obj[o], f)
  BY <1>0, <1>2, <1>4, CountedIs, TypedIs DEF Ready, ObjOK, CountPart, ObjRec, Known
<1>7. SubQuiet /\ SleepQuiet
  BY <1>3, CallStill
<1>8. Type[o] # "simple" /\ (ioq'.pc = "again" => ioq.pc = "again") /\ (ioq.pc = "again" => pool.cs = "io")
  BY <1>3 DEF AgainHolds
<1>9. SubmitStep /\ \A x \in Objects : Busier(obj[x], obj'[x])
  BY <1>3, <1>4, <1>5, <1>6, <1>7, <1>8, SubmitFree
<1> QED BY <1>7, <1>9 DEF Restful

(* What callbacks call. *)
LEMMA CallbackCallsDo ==
  ASSUME BaseInv, BaseInv', CoreInv, AgainHolds, NEW w \in Workers, CallbackCalls(w)
  PROVE  /\ Gentle \/ SubmitStep
         /\ Restful \/ WakeStep
<1>0. Shape
  BY DEF BaseInv
<1>1. CASE InPool(TpDisassociateCallback(w))
  BY <1>1, DisassociateDoes DEF InPool, queueVars, ioVars
<1>2. CASE InPool(TpCallbackMayRunLong(w))
  BY <1>0, <1>2, MayRunLongCalm, CalmIs DEF InPool, queueVars, ioVars
<1>3. CASE InPool(CallbackPosts(w))
  BY <1>3, CallbackPostsDoes DEF InPool, queueVars, ioVars
<1>4. CASE CallbackReleasesObject(w)
  BY <1>0, <1>4, CallbackReleasesCalm, CalmIs
     DEF CallbackReleasesObject, tp_object_prepare_shutdown, ioVars
<1>5. CASE \E at \in Timeouts : CallbackSetsTimer(w, at)
  BY <1>0, <1>5, CalmStill, AgainStill, CalmIs DEF CallbackSetsTimer, ioVars
<1> QED BY <1>1, <1>2, <1>3, <1>4, <1>5 DEF CallbackCalls

(* A caller submits: it had set a timer to zero, or posted a simple object. *)
LEMMA CallerSubmitDoes ==
  ASSUME BaseInv, BaseInv', CoreInv, AgainHolds, NEW t \in Callers, CallerSubmit(t), ioq' = ioq
  PROVE  SubmitStep /\ Restful
<1>0. Shape /\ CallersInv
  BY DEF BaseInv, CoreInv
<1>1. PICK o : o = caller[t].obj
  OBVIOUS
<1>2. caller[t].pc = "submit" /\ tp_object_submit(o, obj[o], pool) /\ CsFree
  BY <1>1 DEF CallerSubmit
<1>3. o \in Objects /\ caller[t] \in CallerRec
  BY <1>0, <1>1, <1>2, InCallIs DEF CallerSet
<1>4. CN(o).sub > 0
  BY <1>0, <1>1, <1>2, AtPoint DEF CN
<1>5. Known(o)
  BY <1>3, KnownIs
<1>6. obj[o].life = "live" /\ obj[o].shutdown = FALSE
  BY <1>3, <1>4, <1>5, AliveIf DEF Known, ObjOK, UsePart, UserPart, SimplePart
<1>7. SubQuiet /\ SleepQuiet
  <2>1. PICK pc \in {"join", "release"} : pc = IF obj[o].grouped THEN "join" ELSE "release"
    OBVIOUS
  <2>2. PICK s : s = [caller[t] EXCEPT !.pc = pc]
    OBVIOUS
  <2>3. PICK c : c = IF Type[o] # "simple" THEN Idle ELSE s
    OBVIOUS
  <2>4. caller' = [caller EXCEPT ![t] = c]
    BY <1>1, <2>1, <2>2, <2>3 DEF CallerSubmit, Goto
  <2>5. s.pc = pc /\ Idle.pc = "idle"
    BY <1>3, <2>2 DEF CallerRec, Idle
  <2>6. c.pc \in {"idle", "join", "release"}
    BY <2>1, <2>3, <2>5
  <2> QED BY <1>0, <2>4, <2>6, CallOne
<1>8. Ready(obj[o], obj[o])
  BY <1>3, <1>5, ReadyIs
<1>9. (ioq'.pc = "again" => ioq.pc = "again") /\ (ioq.pc = "again" => pool.cs = "io")
  BY DEF AgainHolds
<1>10. SubmitStep /\ \A x \in Objects : Busier(obj[x], obj'[x])
  BY <1>2, <1>3, <1>4, <1>6, <1>7, <1>8, <1>9, SubmitFree
<1> QED BY <1>7, <1>10 DEF Restful

(* The other steps of TpSimpleTryPost, and the end of an object. *)
LEMMA CallerEndCalm ==
  ASSUME BaseInv, BaseInv', CoreInv, NEW t \in Callers, ioq' = ioq,
         SimpleJoin(t) \/ SimpleRelease(t) \/ CallerDestroy(t)
  PROVE  Calm
<1>0. Shape /\ CallersInv
  BY DEF BaseInv, CoreInv
<1>1. PICK o : o = caller[t].obj
  OBVIOUS
<1>a. caller[t] \in CallerRec
  BY <1>0 DEF Shape, CallerSet
<1>2. CASE SimpleJoin(t)
  <2>1. PICK e : e = [obj[o] EXCEPT !.member = TRUE]
    OBVIOUS
  <2>2. PICK c : c = [caller[t] EXCEPT !.pc = "release"]
    OBVIOUS
  <2>3. /\ caller[t].pc = "join" /\ obj' = [obj EXCEPT ![o] = e] /\ caller' = [caller EXCEPT ![t] = c]
        /\ pool' = pool /\ worker' = worker
    BY <1>1, <1>2, <2>1, <2>2 DEF SimpleJoin, Goto
  <2>4. o \in Objects
    BY <1>0, <1>1, <2>3, InCallIs
  <2>5. obj[o] \in ObjRec
    BY <1>0, <2>4 DEF Shape
  <2>6. SameDuty(obj[o], e)
    BY <2>1, <2>5 DEF ObjRec, SameDuty
  <2>7. c.pc = "release"
    BY <1>a, <2>2 DEF CallerRec
  <2>8. SubQuiet /\ SleepQuiet
    BY <1>0, <2>3, <2>7, CallOne
  <2>9. DutyKept
    BY <1>0, <2>3, <2>4, <2>6, DutyTo
  <2> QED BY <1>0, <2>3, <2>8, <2>9, PoolStill, WorkUpStill, AgainStill DEF Calm
<1>3. CASE SimpleRelease(t)
  <2>1. PICK e : e = Dropped(obj[o], 1)
    OBVIOUS
  <2>a. PICK d : d = [caller[t] EXCEPT !.pc = "destroy"]
    OBVIOUS
  <2>b. PICK c : c = IF obj[o].refcount = 1 THEN d ELSE Idle
    OBVIOUS
  <2>2. /\ caller[t].pc = "release" /\ obj' = [obj EXCEPT ![o] = e] /\ caller' = [caller EXCEPT ![t] = c]
        /\ pool' = pool /\ worker' = worker
    BY <1>1, <1>3, <2>1, <2>a, <2>b DEF SimpleRelease, Goto
  <2>3. o \in Objects
    BY <1>0, <1>1, <2>2, InCallIs
  <2>4. obj[o] \in ObjRec
    BY <1>0, <2>3 DEF Shape
  <2>5. SameDuty(obj[o], e)
    BY <2>1, <2>4 DEF Dropped, ObjRec, SameDuty
  <2>6. d.pc = "destroy" /\ Idle.pc = "idle"
    BY <1>a, <2>a DEF CallerRec, Idle
  <2>7. c.pc \in {"destroy", "idle"}
    BY <2>b, <2>6
  <2>8. SubQuiet /\ SleepQuiet
    BY <1>0, <2>2, <2>7, CallOne
  <2>9. DutyKept
    BY <1>0, <2>2, <2>3, <2>5, DutyTo
  <2> QED BY <1>0, <2>2, <2>8, <2>9, PoolStill, WorkUpStill, AgainStill DEF Calm
<1>4. CASE CallerDestroy(t)
  <2>a. PICK pc \in {"idle", "gwait"} : pc = IF caller[t].list = <<>> THEN "idle" ELSE "gwait"
    OBVIOUS
  <2>b. PICK c : c = [caller[t] EXCEPT !.obj = Nil, !.pc = pc]
    OBVIOUS
  <2>1. /\ caller[t].pc = "destroy" /\ tp_object_destroy(o) /\ worker' = worker
        /\ caller' = [caller EXCEPT ![t] = c]
    BY <1>1, <1>4, <2>a, <2>b DEF CallerDestroy, Goto
  <2>2. o \in Objects
    BY <1>0, <1>1, <2>1 DEF Shape, CallerSet
  <2>3. CN(o).ends > 0
    BY <1>0, <1>1, <2>1, AtPoint DEF CN
  <2>4. obj[o].life = "dying"
    BY <1>0, <2>2, <2>3, DyingIs
  <2>5. DutyKept /\ PoolQuiet
    BY <2>1, <2>2, <2>4, DestroyCalm
  <2>6. c.pc = pc
    BY <1>a, <2>b DEF CallerRec
  <2>7. SubQuiet /\ SleepQuiet
    BY <1>0, <2>1, <2>6, CallOne
  <2> QED BY <2>1, <2>5, <2>7, WorkUpStill, AgainStill DEF Calm
<1> QED BY <1>2, <1>3, <1>4

(* A cancellation: the workers and the pool are left alone. *)
LEMMA CancelDoes ==
  ASSUME BaseInv, BaseInv', CoreInv, NEW o \in Objects, tp_object_cancel(o), pool' = pool,
         worker' = worker, SubQuiet, AgainQuiet
  PROVE  Gentle
<1>0. Shape
  BY DEF BaseInv
<1>1. ForgottenTo(obj[o], obj'[o]) /\ KeptObj(o)
  BY CancelEffect DEF BaseInv, CoreInv, KeptObj
<1>2. obj'[o].pending = 0 /\ obj[o].pending >= 0
  <2>1. ObjInv /\ IoShape
    BY DEF CoreInv
  <2>2. obj[o].pending \in Nat
    BY <1>0, <2>1, GoodTyped, ItemFacts
  <2> QED BY <1>1, <2>2 DEF ForgottenTo
<1>3. PendFalls
  BY <1>0, <1>1, <1>2, FallsOne
<1> QED BY <1>0, <1>3, PoolStill, WorkUpStill DEF Gentle

(* A group release cancels one of its objects. *)
LEMMA GroupCancelDoes ==
  ASSUME BaseInv, BaseInv', CoreInv, NEW t \in Callers, GroupCancel(t), ioq' = ioq
  PROVE  Gentle
<1>0. Shape /\ CallersInv /\ CallerGood(caller[t]) /\ caller[t] \in CallerRec
  BY DEF BaseInv, CoreInv, CallersInv, Shape, CallerSet
<1>1. caller[t].pc = "gcancel" /\ caller[t].todo \in Seq(Objects) /\ caller[t].todo # <<>>
  BY <1>0, CallerList DEF GroupCancel, CallersInv, CallerSet
<1>2. PICK o : o = Head(caller[t].todo)
  OBVIOUS
<1>3. o \in Objects
  BY <1>1, <1>2, TailIs
<1>4. tp_object_cancel(o) /\ pool' = pool /\ worker' = worker
  BY <1>2 DEF GroupCancel
<1>5. SubQuiet
  <2>1. PICK pc \in {"gwait", "gcancel"} : pc = IF Len(caller[t].todo) = 1 THEN "gwait" ELSE "gcancel"
    OBVIOUS
  <2>2. PICK c : c = [caller[t] EXCEPT !.todo = Tail(@), !.pc = pc]
    OBVIOUS
  <2>3. c.pc = pc /\ caller' = [caller EXCEPT ![t] = c]
    BY <1>0, <2>1, <2>2 DEF GroupCancel, Goto, CallerRec
  <2> QED BY <1>0, <2>3, CallOne
<1> QED BY <1>3, <1>4, <1>5, CancelDoes, AgainStill

(* A group release lets go of an object. *)
LEMMA GroupDropCalm ==
  ASSUME BaseInv, BaseInv', CoreInv, NEW t \in Callers, GroupDrop(t), ioq' = ioq
  PROVE  Calm
<1>0. Shape /\ CallersInv
  BY DEF BaseInv, CoreInv
<1>1. caller[t].list \in Seq(Objects) /\ caller[t].list # <<>>
  BY <1>0, CallerList DEF GroupDrop
<1>2. PICK o : o = Head(caller[t].list)
  OBVIOUS
<1>3. o \in Objects
  BY <1>1, <1>2, TailIs
<1>4. PICK n \in {1, 2} : n = IF ~obj[o].shutdown /\ Type[o] # "simple" THEN 2 ELSE 1
  OBVIOUS
<1>5. PICK e : e = Closed(obj[o], n, "none")
  OBVIOUS
<1>6. obj[o] \in ObjRec
  BY <1>0, <1>3 DEF Shape
<1>7. ReleasedIs(obj[o], e, n, "none")
  BY <1>4, <1>5, <1>6, ReleaseIs
<1>8. SameDuty(obj[o], e)
  BY <1>7 DEF ReleasedIs, SameDuty
<1>9. PICK d : d = [Idle EXCEPT !.pc = "destroy", !.obj = o, !.list = Tail(caller[t].list)]
  OBVIOUS
<1>10. PICK g : g = [Idle EXCEPT !.pc = "gwait", !.list = Tail(caller[t].list)]
  OBVIOUS
<1>11. PICK c : c = IF obj[o].refcount = n THEN d ELSE IF Tail(caller[t].list) = <<>> THEN Idle ELSE g
  OBVIOUS
<1>12. /\ obj' = [obj EXCEPT ![o] = e] /\ caller' = [caller EXCEPT ![t] = c]
       /\ pool' = pool /\ worker' = worker
  BY <1>2, <1>4, <1>5, <1>9, <1>10, <1>11 DEF GroupDrop, Goto
<1>13. d.pc = "destroy" /\ g.pc = "gwait" /\ Idle.pc = "idle"
  BY <1>9, <1>10 DEF Idle
<1>14. c.pc \in {"destroy", "gwait", "idle"}
  BY <1>11, <1>13
<1>15. SubQuiet /\ SleepQuiet
  BY <1>0, <1>12, <1>14, CallOne
<1>16. DutyKept
  BY <1>0, <1>3, <1>8, <1>12, DutyTo
<1> QED BY <1>0, <1>12, <1>15, <1>16, PoolStill, WorkUpStill, AgainStill DEF Calm

(* A caller waits. *)
LEMMA CallerWaitsDoes ==
  ASSUME BaseInv, NEW t \in Callers, tp_object_wait(t) \/ GroupWait(t), ioq' = ioq
  PROVE  Gentle /\ DozeStep
<1>0. Shape /\ caller[t] \in CallerRec
  BY DEF BaseInv, Shape, CallerSet
<1>1. obj' = obj /\ pool' = pool /\ worker' = worker
  BY DEF tp_object_wait, GroupWait
<1>2. SubQuiet
  <2>1. PICK c : c.pc # "submit" /\ caller' = [caller EXCEPT ![t] = c]
    <3>1. CASE tp_object_wait(t)
      <4>1. PICK s : s = [caller[t] EXCEPT !.pc = "sleep"]
        OBVIOUS
      <4>2. PICK c : c = IF object_is_finished(obj[caller[t].obj], FALSE) THEN Idle ELSE s
        OBVIOUS
      <4>3. caller' = [caller EXCEPT ![t] = c]
        BY <3>1, <4>1, <4>2 DEF tp_object_wait, Goto
      <4>4. s.pc = "sleep" /\ Idle.pc = "idle"
        BY <1>0, <4>1 DEF CallerRec, Idle
      <4> QED BY <4>2, <4>3, <4>4
    <3>2. CASE GroupWait(t)
      <4>1. PICK o : o = Head(caller[t].list)
        OBVIOUS
      <4>2. PICK pc \in {"gdrop", "gsleep"} :
              pc = IF object_is_finished(obj[o], TRUE) THEN "gdrop" ELSE "gsleep"
        OBVIOUS
      <4>3. PICK c : c = [caller[t] EXCEPT !.obj = o, !.pc = pc]
        OBVIOUS
      <4>4. caller' = [caller EXCEPT ![t] = c]
        BY <3>2, <4>1, <4>2, <4>3 DEF GroupWait, Goto
      <4>5. c.pc = pc
        BY <1>0, <4>3 DEF CallerRec
      <4> QED BY <4>4, <4>5
    <3> QED BY <3>1, <3>2
  <2>2. caller'[t] = c /\ \A x \in Callers \ {t} : caller'[x] = caller[x]
    BY <1>0, <2>1 DEF Shape
  <2> QED BY <2>1, <2>2 DEF SubQuiet
<1>3. PendFalls
  BY <1>0, <1>1, PendingIs DEF PendFalls
<1>4. Gentle
  BY <1>0, <1>1, <1>2, <1>3, PoolStill, WorkUpStill, AgainStill DEF Gentle
<1> QED BY <1>1, <1>4 DEF DozeStep

(* Callers inside of a call. *)
LEMMA CallerMovesDo ==
  ASSUME BaseInv, BaseInv', CoreInv, AgainHolds, NEW t \in Callers, CallerMoves(t)
  PROVE  /\ Gentle \/ SubmitStep
         /\ Restful \/ WakeStep \/ DozeStep \/ GroupCancel(t)
<1>0. Shape /\ ioq' = ioq
  BY DEF BaseInv, CallerMoves, InPool, queueVars, ioVars
<1>1. CASE CallerSubmit(t)
  BY <1>0, <1>1, CallerSubmitDoes
<1>2. CASE SimpleJoin(t) \/ SimpleRelease(t) \/ CallerDestroy(t)
  BY <1>0, <1>2, CallerEndCalm, CalmIs
<1>3. CASE tp_object_wait(t) \/ GroupWait(t)
  BY <1>0, <1>3, CallerWaitsDoes
<1>4. CASE GroupCancel(t)
  BY <1>0, <1>4, GroupCancelDoes
<1>5. CASE GroupDrop(t)
  BY <1>0, <1>5, GroupDropCalm, CalmIs
<1> QED BY <1>1, <1>2, <1>3, <1>4, <1>5 DEF CallerMoves, InPool, CallerStep

(* An object is allocated, with a worker for it. *)
OpenStep ==
    /\ \E o \in program.objects : KeptObj(o)
    /\ PendFalls /\ WorkQuiet /\ AgainQuiet
    /\ pool.shutdown = FALSE /\ pool'.shutdown = FALSE /\ pool'.cs = pool.cs
    /\ pool'.num_workers >= pool.num_workers /\ pool'.num_workers > 0

(* A timer is set to zero: its caller is about to submit it. *)
ZeroStep ==
    /\ UNCHANGED <<pool, obj, worker, ioq>>
    /\ \E o \in Objects : Usable(o)

(* The pool is released. *)
CloseStep ==
    /\ UNCHANGED <<obj, caller, ioq>> /\ WorkQuiet
    /\ pool'.cs = pool.cs /\ pool'.num_workers = pool.num_workers /\ pool'.objcount = pool.objcount
    /\ Can("releasepool") /\ (\A o \in Objects : obj[o].owner = "none")
    /\ pool.shutdown = FALSE /\ \A t \in Callers : caller[t].pc # "submit"

(* The queue of I/O objects has one more, or one less. *)
LEMMA IoLockAgain ==
  ASSUME IoShape, NEW o, tp_ioqueue_lock(o) \/ tp_ioqueue_unlock
  PROVE  AgainQuiet
<1>0. ioq \in IoqRec
  BY DEF IoShape, IoState
<1>1. ioq.pc # "again"
  BY DEF tp_ioqueue_lock, tp_ioqueue_unlock, IoCsFree
<1>2. CASE tp_ioqueue_lock(o)
  <2>1. PICK pc \in {"get", ioq.pc} :
          pc = IF ~thread_running \/ (ioq.pc = "idle" /\ ioq.objcount = 0) THEN "get" ELSE ioq.pc
    OBVIOUS
  <2>2. PICK q : q = [ioq EXCEPT !.objcount = @ + 1, !.pc = pc]
    OBVIOUS
  <2>3. q.pc = pc /\ ioq' = q
    BY <1>0, <1>2, <2>1, <2>2 DEF tp_ioqueue_lock, IoqRec
  <2> QED BY <1>1, <2>1, <2>3 DEF AgainQuiet
<1>3. CASE tp_ioqueue_unlock
  <2>1. PICK q : q = [ioq EXCEPT !.objcount = @ - 1]
    OBVIOUS
  <2>2. q.pc = ioq.pc /\ ioq' = q
    BY <1>0, <1>3, <2>1 DEF tp_ioqueue_unlock, IoqRec
  <2> QED BY <2>2 DEF AgainQuiet
<1> QED BY <1>2, <1>3

(* An object is allocated. *)
LEMMA AllocDoes ==
  ASSUME BaseInv, BaseInv', CoreInv, CountInv, NEW t \in Callers, NEW o \in Objects, o \in program.objects,
         NEW grp \in BOOLEAN, TpAlloc(t, o, grp) \/ TpSimpleTryPost(t, o, grp), AgainQuiet
  PROVE  OpenStep /\ Restful
<1>0. Shape /\ pool \in PoolRec
  BY DEF BaseInv, Shape
<1>1. /\ obj[o].life = "none" /\ ~pool.shutdown /\ tp_threadpool_lock
      /\ obj' = [obj EXCEPT ![o] = tp_object_initialize(o, grp)]
  BY DEF TpAlloc, TpSimpleTryPost
<1>2. PICK e : e = tp_object_initialize(o, grp)
  OBVIOUS
<1>3. InitializedTo(o, e, grp)
  BY <1>2, InitializeIs DEF InitializedTo
<1>4. KeptObj(o) /\ obj'[o] = e
  BY <1>0, <1>1, <1>2 DEF KeptObj, Shape
<1>5. Known(o)
  BY KnownIs
<1>6. /\ obj[o].pending = 0 /\ obj[o].running = 0 /\ obj[o].ops = 0 /\ obj[o].associated = 0
  <2>1. Typed(obj[o], WN(o), CN(o), HN(o), PN(o), InService(o))
    BY <1>5 DEF Known
  <2>2. /\ WN(o).run \in Nat /\ WN(o).linked \in Nat /\ WN(o).linked <= WN(o).run
    BY <2>1, TypedIs
  <2>3. /\ obj[o].pending = 0 /\ WN(o).run = 0 /\ obj[o].ops = 0
        /\ obj[o].running = WN(o).run /\ obj[o].associated = WN(o).linked
    BY <1>1, <1>5 DEF Known, ObjOK, DeadPart, Unused, CountPart
  <2> QED BY <2>2, <2>3
<1>7. e.pending = 0 /\ e.running = 0 /\ e.ops = 0 /\ e.associated = 0
  BY <1>3 DEF InitializedTo
<1>8. PendFalls
  BY <1>0, <1>4, <1>6, <1>7, FallsOne
<1>9. pool.num_workers \in Nat /\ pool.shutdown = FALSE
  <2>1. pool.num_workers = StayW /\ StayW \in Nat
    BY <1>0, WorkersAre DEF CountInv, PoolBal, PoolOK
  <2>2. pool.shutdown \in BOOLEAN
    BY <1>0 DEF PoolRec
  <2> QED BY <1>1, <2>1, <2>2
<1>10. /\ WorkQuiet /\ pool'.shutdown = pool.shutdown /\ pool'.cs = pool.cs
       /\ pool'.num_workers >= pool.num_workers /\ pool'.num_workers > 0
  <2>a. PICK k \in Int, n \in Int : k = pool.refcount + 1 /\ n = pool.objcount + 1
    BY <1>0 DEF PoolRec
  <2>b. PICK p : p = [pool EXCEPT !.refcount = k, !.objcount = n]
    OBVIOUS
  <2>1. p = [pool EXCEPT !.refcount = @ + 1, !.objcount = @ + 1]
    BY <2>a, <2>b
  <2>2. p \in PoolRec /\ p.cs = pool.cs /\ p.num_workers = pool.num_workers /\ p.shutdown = pool.shutdown
    BY <1>0, <2>b DEF PoolRec
  <2>3. CASE pool.num_workers > 0
    <3>1. pool' = p /\ worker' = worker
      BY <1>1, <2>1, <2>3 DEF tp_threadpool_lock
    <3> QED BY <1>9, <2>2, <2>3, <3>1, WorkUpStill
  <2>4. CASE ~(pool.num_workers > 0)
    <3>1. tp_new_worker_thread(p)
      BY <1>1, <2>1, <2>4 DEF tp_threadpool_lock
    <3>2. /\ WorkQuiet /\ pool'.cs = p.cs /\ pool'.num_workers = p.num_workers + 1
          /\ pool'.shutdown = p.shutdown
      BY <1>0, <2>2, <3>1, NewWorkerDoes
    <3> QED BY <1>9, <2>2, <3>2
  <2> QED BY <2>3, <2>4
<1>11. OpenStep
  BY <1>4, <1>8, <1>9, <1>10 DEF OpenStep
<1>12. SleepQuiet
  <2>1. CASE caller' = caller
    BY <2>1, CallStill
  <2>2. CASE TpSimpleTryPost(t, o, grp)
    <3>1. PICK c : c = [Idle EXCEPT !.pc = "submit", !.obj = o]
      OBVIOUS
    <3>2. c.pc = "submit" /\ caller' = [caller EXCEPT ![t] = c]
      BY <2>2, <3>1 DEF TpSimpleTryPost, Goto, Idle
    <3>3. caller'[t] = c /\ \A x \in Callers \ {t} : caller'[x] = caller[x]
      BY <1>0, <3>2 DEF Shape
    <3> QED BY <3>2, <3>3 DEF SleepQuiet
  <2> QED BY <2>1, <2>2 DEF TpAlloc
<1>13. Busier(obj[o], obj'[o])
  BY <1>4, <1>6 DEF Busier
<1> QED BY <1>4, <1>11, <1>12, <1>13, BusierOne DEF Restful

(* Work is posted. *)
LEMMA PostDoes ==
  ASSUME BaseInv, BaseInv', CoreInv, AgainHolds, NEW t \in Callers, NEW o \in Objects, TpPostWork(t, o),
         ioq' = ioq
  PROVE  SubmitStep /\ Restful
<1>0. Shape
  BY DEF BaseInv
<1>1. PICK f : f = Counted(o)
  OBVIOUS
<1>2. Usable(o) /\ tp_object_submit(o, f, pool) /\ CsFree /\ caller' = caller
  BY <1>1 DEF TpPostWork
<1>3. obj[o].life = "live" /\ obj[o].shutdown = FALSE /\ obj[o] \in ObjRec /\ Known(o) /\ Type[o] # "simple"
  BY <1>2, UsableIs
<1>4. Ready(obj[o], f)
  BY <1>0, <1>1, <1>3, CountedIs, TypedIs DEF Known, Ready, ObjOK, CountPart, ObjRec
<1>5. SubQuiet /\ SleepQuiet
  BY <1>2, CallStill
<1>6. (ioq'.pc = "again" => ioq.pc = "again") /\ (ioq.pc = "again" => pool.cs = "io")
  BY DEF AgainHolds
<1>7. SubmitStep /\ \A x \in Objects : Busier(obj[x], obj'[x])
  BY <1>2, <1>3, <1>4, <1>5, <1>6, SubmitFree
<1> QED BY <1>5, <1>7 DEF Restful

(* A caller waits, and may cancel before. *)
LEMMA WaitForDoes ==
  ASSUME BaseInv, BaseInv', CoreInv, NEW t \in Callers, NEW o \in Objects, NEW cancel \in BOOLEAN,
         TpWaitFor(t, o, cancel), ioq' = ioq
  PROVE  Gentle /\ (cancel = FALSE => Restful)
<1>0. Shape
  BY DEF BaseInv
<1>1. pool' = pool /\ worker' = worker
  BY DEF TpWaitFor
<1>2. SubQuiet /\ SleepQuiet
  <2>1. PICK c : c = [Idle EXCEPT !.pc = "wait", !.obj = o]
    OBVIOUS
  <2>2. c.pc = "wait" /\ caller' = [caller EXCEPT ![t] = c]
    BY <2>1 DEF TpWaitFor, Goto, Idle
  <2> QED BY <1>0, <2>2, CallOne
<1>3. CASE cancel = TRUE
  <2>1. tp_object_cancel(o)
    BY <1>3 DEF TpWaitFor
  <2> QED BY <1>1, <1>2, <1>3, <2>1, CancelDoes, AgainStill
<1>4. CASE cancel = FALSE
  <2>1. obj' = obj
    BY <1>4 DEF TpWaitFor
  <2>2. Calm
    BY <1>0, <1>1, <1>2, <2>1, DutyStill, PoolStill, WorkUpStill, AgainStill DEF Calm
  <2> QED BY <1>0, <2>2, CalmIs
<1> QED BY <1>3, <1>4

(* An object is released by its owner. *)
LEMMA ReleaseCalm ==
  ASSUME BaseInv, BaseInv', CoreInv, NEW t \in Callers, NEW o \in Objects, TpRelease(t, o), AgainQuiet
  PROVE  Calm
<1>0. Shape
  BY DEF BaseInv
<1>1. PICK e : e = Closed(obj[o], 1, "none")
  OBVIOUS
<1>2. PICK d : d = [Idle EXCEPT !.pc = "destroy", !.obj = o]
  OBVIOUS
<1>3. PICK c : c = IF obj[o].refcount = 1 THEN d ELSE caller[t]
  OBVIOUS
<1>4. /\ obj' = [obj EXCEPT ![o] = e] /\ caller' = [caller EXCEPT ![t] = c]
      /\ pool' = pool /\ worker' = worker
  BY <1>1, <1>2, <1>3 DEF TpRelease, Goto
<1>5. d.pc = "destroy"
  BY <1>2 DEF Idle
<1>6. SubQuiet /\ SleepQuiet
  BY <1>0, <1>3, <1>4, <1>5, CallOne
<1>7. obj[o] \in ObjRec
  BY <1>0 DEF Shape
<1>8. ReleasedIs(obj[o], e, 1, "none")
  BY <1>1, <1>7, ReleaseIs
<1>9. SameDuty(obj[o], e)
  BY <1>8 DEF ReleasedIs, SameDuty
<1>10. DutyKept
  BY <1>0, <1>4, <1>9, DutyTo
<1> QED BY <1>0, <1>4, <1>6, <1>10, PoolStill, WorkUpStill DEF Calm

(* A timer is set. *)
LEMMA SetTimerDoes ==
  ASSUME BaseInv, NEW t \in Callers, NEW o \in Objects, NEW at, NEW p, NEW n, TpSetTimer(t, o, at, p, n)
  PROVE  (Gentle \/ ZeroStep) /\ Restful
<1>0. Shape
  BY DEF BaseInv
<1>1. UNCHANGED <<pool, obj, worker, ioq>> /\ Usable(o)
  BY DEF TpSetTimer, ioVars
<1>2. ZeroStep
  BY <1>1 DEF ZeroStep
<1>3. SleepQuiet
  <2>1. CASE caller' = caller
    BY <2>1, CallStill
  <2>2. CASE caller' = [caller EXCEPT ![t] = [Idle EXCEPT !.pc = "submit", !.obj = o]]
    <3>1. PICK c : c = [Idle EXCEPT !.pc = "submit", !.obj = o]
      OBVIOUS
    <3>2. c.pc = "submit" /\ caller' = [caller EXCEPT ![t] = c]
      BY <2>2, <3>1 DEF Idle
    <3>3. caller'[t] = c /\ \A x \in Callers \ {t} : caller'[x] = caller[x]
      BY <1>0, <3>2 DEF Shape
    <3> QED BY <3>2, <3>3 DEF SleepQuiet
  <2> QED BY <2>1, <2>2 DEF TpSetTimer
<1>4. \A x \in Objects : Busier(obj[x], obj'[x])
  BY <1>1 DEF Busier
<1> QED BY <1>2, <1>3, <1>4 DEF Restful

(* The calls for I/O. *)
LEMMA StartIoDoes ==
  ASSUME BaseInv, CoreInv, NEW t \in Callers, NEW o \in Objects, TpStartAsyncIoOperation(t, o)
  PROVE  Gentle /\ Restful
<1>0. Shape /\ obj[o] \in ObjRec
  BY DEF BaseInv, Shape
<1>1. PICK e : e = [obj[o] EXCEPT !.ops = @ + 1]
  OBVIOUS
<1>2. /\ obj' = [obj EXCEPT ![o] = e] /\ pool' = pool /\ worker' = worker /\ caller' = caller
      /\ ioq' = ioq
  BY <1>1 DEF TpStartAsyncIoOperation, Starts
<1>3. KeptObj(o) /\ obj'[o] = e
  BY <1>0, <1>2 DEF KeptObj, Shape
<1>4. e.pending = obj[o].pending /\ e.ops = obj[o].ops + 1 /\ obj[o].pending \in Int /\ obj[o].ops \in Int
  BY <1>0, <1>1 DEF ObjRec
<1>5. obj[o].ops >= 0
  <2>1. Known(o)
    BY KnownIs
  <2> QED BY <2>1 DEF Known, ObjOK, CountPart
<1>6. PendFalls
  BY <1>0, <1>3, <1>4, FallsOne
<1>7. e.ops # 0
  BY <1>4, <1>5
<1>8. \A x \in Objects : Busier(obj[x], obj'[x])
  BY <1>3, <1>7, BusierOne DEF Busier
<1>9. SubQuiet /\ SleepQuiet
  BY <1>2, CallStill
<1> QED BY <1>0, <1>2, <1>6, <1>8, <1>9, PoolStill, WorkUpStill, AgainStill DEF Gentle, Restful

(* An operation is taken back. *)
LEMMA TakeBackDoes ==
  ASSUME BaseInv, CoreInv, NEW t \in Callers, NEW o \in Objects, TpCancelAsyncIoOperation(t, o)
  PROVE  Gentle /\ WakeStep
<1>0. Shape /\ obj[o] \in ObjRec
  BY DEF BaseInv, Shape
<1>1. PICK e : e = [obj[o] EXCEPT !.ops = @ - 1]
  OBVIOUS
<1>2. PICK events \in SUBSET {"sleep", "gsleep"} : events = {"sleep", "gsleep"}
  OBVIOUS
<1>3. /\ obj' = [obj EXCEPT ![o] = e] /\ pool' = pool /\ worker' = worker
      /\ WakeWaiters(o, e, events) /\ ioq' = ioq
  BY <1>1, <1>2 DEF TpCancelAsyncIoOperation, TakesBack
<1>4. KeptObj(o) /\ obj'[o] = e
  BY <1>0, <1>3 DEF KeptObj, Shape
<1>5. e.pending = obj[o].pending /\ obj[o].pending \in Int
  BY <1>0, <1>1 DEF ObjRec
<1>6. PendFalls
  BY <1>0, <1>4, <1>5, FallsOne
<1>7. SubQuiet
  BY <1>0, <1>3, CallWoken
<1>8. Gentle
  BY <1>0, <1>3, <1>6, <1>7, PoolStill, WorkUpStill, AgainStill DEF Gentle
<1>9. "gsleep" \in events /\ "sleep" \in events
  BY <1>2
<1>10. SameDuty(e, obj'[o])
  BY <1>4 DEF SameDuty
<1>11. WakeStep
  BY <1>3, <1>4, <1>9, <1>10 DEF WakeStep
<1> QED BY <1>8, <1>11

(* An I/O object is released, or left to the I/O thread. *)
LEMMA ReleaseIoCalm ==
  ASSUME BaseInv, BaseInv', CoreInv, NEW t \in Callers, NEW o \in Objects, TpReleaseIoCompletion(t, o)
  PROVE  Calm
<1>0. Shape /\ obj[o] \in ObjRec /\ IoShape
  BY DEF BaseInv, Shape, CoreInv
<1>1. CASE TpRelease(t, o) /\ tp_ioqueue_unlock
  <2>1. AgainQuiet
    BY <1>0, <1>1, IoLockAgain
  <2> QED BY <1>1, <2>1, ReleaseCalm
<1>2. CASE obj' = [obj EXCEPT ![o].owner = "none"] /\ UNCHANGED <<pool, pools, group, worker, caller, ioq, port>>
  <2>1. PICK e : e = [obj[o] EXCEPT !.owner = "none"]
    OBVIOUS
  <2>2. obj' = [obj EXCEPT ![o] = e]
    BY <1>2, <2>1
  <2>3. SameDuty(obj[o], e)
    BY <1>0, <2>1 DEF ObjRec, SameDuty
  <2>4. DutyKept
    BY <1>0, <2>2, <2>3, DutyTo
  <2> QED BY <1>0, <1>2, <2>4, PoolStill, WorkUpStill, CallStill, AgainStill DEF Calm
<1> QED BY <1>1, <1>2 DEF TpReleaseIoCompletion

(* The calls on an object. *)
LEMMA ObjectCallsDo ==
  ASSUME BaseInv, BaseInv', CoreInv, CountInv, AgainHolds, NEW t \in Callers, NEW o \in Objects,
         o \in program.objects, ObjectCalls(t, o)
  PROVE  /\ Gentle \/ SubmitStep \/ OpenStep \/ ZeroStep
         /\ Restful \/ WakeStep \/ (Can("cancel") /\ TpWaitFor(t, o, TRUE))
<1> DEFINE grp == o \in program.grouped
<1>1. grp \in BOOLEAN /\ FALSE \in BOOLEAN /\ TRUE \in BOOLEAN
  OBVIOUS
<1> HIDE DEF grp
<1>0. Shape /\ IoShape
  BY DEF BaseInv, CoreInv
<1>3. CASE \/ TpAllocWork(t, o, grp) \/ TpAllocTimer(t, o, grp) \/ TpAllocWait(t, o, grp)
           \/ TpAllocIoCompletion(t, o)
  <2>1. PICK g \in BOOLEAN : TpAlloc(t, o, g) /\ (ioq' = ioq \/ tp_ioqueue_lock(o))
    BY <1>1, <1>3 DEF TpAllocWork, TpAllocTimer, TpAllocWait, TpAllocIoCompletion, queueVars, ioVars
  <2>2. AgainQuiet
    BY <1>0, <2>1, IoLockAgain, AgainStill
  <2> QED BY <2>1, <2>2, AllocDoes
<1>4. CASE InPool(TpSimpleTryPost(t, o, grp))
  BY <1>1, <1>4, AllocDoes, AgainStill DEF InPool, queueVars, ioVars
<1>5. CASE InPool(TpPostWork(t, o))
  BY <1>5, PostDoes DEF InPool, queueVars, ioVars
<1>6. CASE InPool(TpWaitFor(t, o, FALSE))
  BY <1>1, <1>6, WaitForDoes DEF InPool, queueVars, ioVars
<1>7. CASE Can("cancel") /\ InPool(TpWaitFor(t, o, TRUE))
  BY <1>1, <1>7, WaitForDoes DEF InPool, queueVars, ioVars
<1>8. CASE TpReleaseObject(t, o)
  BY <1>0, <1>8, ReleaseCalm, AgainStill, CalmIs DEF TpReleaseObject, tp_object_prepare_shutdown, ioVars
<1>9. CASE \E at \in Timeouts, p \in Periods, n \in UsedWindows : TpSetTimer(t, o, at, p, n)
  BY <1>9, SetTimerDoes
<1>10. ASSUME NEW h, NEW d, TpSetWait(t, o, h, d)
       PROVE  /\ Gentle \/ SubmitStep \/ OpenStep \/ ZeroStep
              /\ Restful \/ WakeStep \/ (Can("cancel") /\ TpWaitFor(t, o, TRUE))
  BY <1>0, <1>10, CalmStill, AgainStill, CalmIs DEF TpSetWait, ioVars
<1>11. CASE InIo(\/ TpStartAsyncIoOperation(t, o)
                 \/ Can("cancelio") /\ TpCancelAsyncIoOperation(t, o)
                 \/ Can("release") /\ TpReleaseIoCompletion(t, o))
  BY <1>0, <1>11, StartIoDoes, TakeBackDoes, ReleaseIoCalm, CalmIs DEF InIo
<1> QED
  BY <1>3, <1>4, <1>5, <1>6, <1>7, <1>8, <1>9, <1>10, <1>11 DEF ObjectCalls, grp

(* The members of the group are taken over. *)
LEMMA MembersCalm ==
  ASSUME BaseInv, NEW t \in Callers, NEW cancel \in BOOLEAN, ReleaseGroupMembers(t, cancel)
  PROVE  Calm
<1>0. obj \in [Objects -> ObjRec] /\ Shape
  BY DEF BaseInv, Shape
<1>1. /\ obj' = [o \in Objects |-> IF o \in MarkedSet THEN Taken(obj[o])
                                   ELSE [obj[o] EXCEPT !.member = FALSE]]
      /\ pool' = pool /\ worker' = worker /\ ioq' = ioq
  BY DEF ReleaseGroupMembers, TpReleaseCleanupGroupMembers, Taken, tp_object_prepare_shutdown, ioVars
<1>2. ASSUME NEW o \in Objects PROVE SameDuty(obj[o], obj'[o])
  <2>1. obj[o] \in ObjRec
    BY <1>0, <1>2
  <2>2. CASE o \in MarkedSet
    <3>1. PICK e : e = Taken(obj[o])
      OBVIOUS
    <3>2. TakenIs(obj[o], e) /\ obj'[o] = e
      BY <1>1, <1>2, <2>1, <2>2, <3>1, TakeIs
    <3> QED BY <3>2 DEF TakenIs, SameDuty
  <2>3. CASE o \notin MarkedSet
    <3>1. PICK e : e = [obj[o] EXCEPT !.member = FALSE]
      OBVIOUS
    <3>2. obj'[o] = e
      BY <1>1, <1>2, <2>3, <3>1
    <3>3. SameDuty(obj[o], e)
      BY <2>1, <3>1 DEF ObjRec, SameDuty
    <3> QED BY <3>2, <3>3
  <2> QED BY <2>2, <2>3
<1>3. DutyKept
  BY <1>2 DEF DutyKept
<1>4. SubQuiet /\ SleepQuiet
  <2>0. PICK pc \in {"gcancel", "gwait"} : pc = IF cancel THEN "gcancel" ELSE "gwait"
    OBVIOUS
  <2>1. PICK l : l = IF cancel THEN Marked ELSE <<>>
    OBVIOUS
  <2>2. PICK d : d = [Idle EXCEPT !.list = Marked, !.todo = l, !.pc = pc]
    OBVIOUS
  <2>3. PICK c : c = IF Marked = <<>> THEN Idle ELSE d
    OBVIOUS
  <2>4. caller' = [caller EXCEPT ![t] = c]
    BY <2>0, <2>1, <2>2, <2>3 DEF ReleaseGroupMembers, TpReleaseCleanupGroupMembers, Goto
  <2>5. d.pc = pc /\ Idle.pc = "idle"
    BY <2>2 DEF Idle
  <2>6. c.pc \in {"gcancel", "gwait", "idle"}
    BY <2>0, <2>3, <2>5
  <2> QED BY <1>0, <2>4, <2>6, CallOne
<1> QED BY <1>0, <1>1, <1>3, <1>4, PoolStill, WorkUpStill, AgainStill DEF Calm

(* The number of threads is set. *)
LEMMA LimitsCalm ==
  ASSUME BaseInv, NEW t \in Callers, NEW n, TpSetPoolMaxThreads(t, n) \/ TpSetPoolMinThreads(t, n), ioq' = ioq
  PROVE  Calm
<1>0. Shape /\ pool \in PoolRec
  BY DEF BaseInv, Shape
<1>1. obj' = obj /\ caller' = caller
  BY DEF TpSetPoolMaxThreads, TpSetPoolMinThreads
<1>2. CASE TpSetPoolMaxThreads(t, n)
  <2>1. /\ pool'.cs = pool.cs /\ pool'.num_workers = pool.num_workers /\ pool'.objcount = pool.objcount
        /\ pool'.shutdown = pool.shutdown /\ pool.num_workers \in Int /\ pool.objcount \in Int
    BY <1>0, <1>2 DEF TpSetPoolMaxThreads, PoolRec
  <2>2. PoolQuiet /\ worker' = worker
    BY <1>2, <2>1 DEF PoolQuiet, TpSetPoolMaxThreads
  <2> QED BY <1>1, <2>2, DutyStill, WorkUpStill, CallStill, AgainStill DEF Calm
<1>3. CASE TpSetPoolMinThreads(t, n)
  <2>1. PICK S \in SUBSET Spare :
          /\ worker' = [w \in Workers |-> IF w \in S THEN [NoWorker EXCEPT !.pc = "run"] ELSE worker[w]]
          /\ LET k == pool.num_workers + Cardinality(S)
                 p == [pool EXCEPT !.refcount = @ + Cardinality(S), !.num_workers = k]
             IN pool' = IF k < n THEN p
                        ELSE [p EXCEPT !.min_workers = n, !.max_workers = IF @ > n THEN @ ELSE n]
    BY <1>3 DEF TpSetPoolMinThreads
  <2>2. Cardinality(S) \in Nat
    <3>1. IsFiniteSet(Workers) /\ S \subseteq Workers
      BY PoolConstants DEF Spare
    <3> QED BY <3>1, FS_Subset, FS_CardinalityType
  <2>3. PICK c \in Nat : c = Cardinality(S)
    BY <2>2
  <2>4. PICK p : p = [pool EXCEPT !.refcount = @ + c, !.num_workers = pool.num_workers + c]
    OBVIOUS
  <2>5. /\ p.cs = pool.cs /\ p.num_workers = pool.num_workers + c /\ p.objcount = pool.objcount
        /\ p.shutdown = pool.shutdown /\ pool.num_workers \in Int /\ pool.objcount \in Int
        /\ DOMAIN p = DOMAIN pool
    BY <1>0, <2>4 DEF PoolRec
  <2>6. pool' = p \/ pool' = [p EXCEPT !.min_workers = n, !.max_workers = IF @ > n THEN @ ELSE n]
    BY <2>1, <2>3, <2>4
  <2>7. PICK m : pool' = p \/ pool' = [p EXCEPT !.min_workers = n, !.max_workers = m]
    BY <2>6
  <2>8. /\ pool'.cs = p.cs /\ pool'.num_workers = p.num_workers /\ pool'.objcount = p.objcount
        /\ pool'.shutdown = p.shutdown
    BY <1>0, <2>4, <2>7 DEF PoolRec
  <2>9. PoolQuiet
    BY <2>5, <2>8 DEF PoolQuiet
  <2>10. WorkQuiet
    <3>1. PICK r : r = [NoWorker EXCEPT !.pc = "run"]
      OBVIOUS
    <3>2. r.pc = "run"
      BY <3>1 DEF NoWorker
    <3>3. ASSUME NEW w \in Workers PROVE WorkUp(worker[w], worker'[w])
      <4>1. CASE w \in S
        <5>1. worker[w].pc = "none" /\ worker'[w] = r
          BY <2>1, <3>1, <3>3, <4>1 DEF Spare
        <5> QED BY <3>2, <5>1 DEF WorkUp
      <4>2. CASE w \notin S
        <5>1. worker'[w] = worker[w]
          BY <2>1, <3>3, <4>2
        <5> QED BY <5>1 DEF WorkUp
      <4> QED BY <4>1, <4>2
    <3> QED BY <3>3 DEF WorkQuiet
  <2> QED BY <1>1, <2>9, <2>10, DutyStill, CallStill, AgainStill DEF Calm
<1> QED BY <1>2, <1>3

(* The pool is released. *)
LEMMA ReleasePoolDoes ==
  ASSUME BaseInv, NEW t \in Callers, TpReleasePool(t), Can("releasepool"), ioq' = ioq
  PROVE  CloseStep /\ Restful
<1>0. Shape /\ pool \in PoolRec
  BY DEF BaseInv, Shape
<1>1. /\ obj' = obj /\ caller' = caller /\ (\A o \in Objects : obj[o].owner = "none")
      /\ \A u \in Callers : caller[u].pc # "submit"
  BY DEF TpReleasePool
<1>2. PICK p : p = [pool EXCEPT !.shutdown = TRUE]
  OBVIOUS
<1>3. p.cs = pool.cs /\ p.num_workers = pool.num_workers /\ p.objcount = pool.objcount
  BY <1>0, <1>2 DEF PoolRec
<1>4. pool' = tp_threadpool_release(p) /\ p \in PoolRec
  BY <1>0, <1>2 DEF TpReleasePool, PoolRec
<1>5. pool'.cs = p.cs /\ pool'.num_workers = p.num_workers /\ pool'.objcount = p.objcount
  BY <1>4 DEF tp_threadpool_release, PoolRec
<1>6. WorkQuiet
  <2>1. ASSUME NEW w \in Workers PROVE WorkUp(worker[w], worker'[w])
    <3>1. worker' = [x \in Workers |-> IF x \in Sleepers THEN [worker[x] EXCEPT !.pc = "run"] ELSE worker[x]]
      BY DEF TpReleasePool
    <3>2. worker[w] \in WorkerRec
      BY <1>0, <2>1 DEF Shape, WorkerSet
    <3>3. CASE w \in Sleepers
      <4>1. PICK r : r = [worker[w] EXCEPT !.pc = "run"]
        OBVIOUS
      <4>2. worker'[w] = r /\ worker[w].pc = "asleep"
        BY <2>1, <3>1, <3>3, <4>1 DEF Sleepers
      <4>3. r.pc = "run"
        BY <3>2, <4>1 DEF WorkerRec
      <4> QED BY <4>2, <4>3 DEF WorkUp
    <3>4. CASE w \notin Sleepers
      <4>1. worker'[w] = worker[w]
        BY <2>1, <3>1, <3>4
      <4> QED BY <4>1 DEF WorkUp
    <3> QED BY <3>3, <3>4
  <2> QED BY <2>1 DEF WorkQuiet
<1>7. CloseStep
  <2>1. pool.shutdown = FALSE
    <3>1. ~pool.shutdown /\ pool.shutdown \in BOOLEAN
      BY <1>0 DEF TpReleasePool, PoolRec
    <3> QED BY <3>1
  <2> QED BY <1>1, <1>3, <1>5, <1>6, <2>1 DEF CloseStep
<1>8. Restful
  BY <1>1, CallStill DEF Restful, Busier
<1> QED BY <1>7, <1>8

(* The calls on pool and group. *)
LEMMA PoolCallsDo ==
  ASSUME BaseInv, BaseInv', CoreInv, NEW t \in Callers, PoolCalls(t)
  PROVE  (Gentle \/ CloseStep) /\ Restful
<1>0. Shape /\ pool \in PoolRec
  BY DEF BaseInv, Shape
<1>1. CASE InPool(TpAllocFails(t))
  <2>1. tp_new_worker_thread(pool) /\ obj' = obj /\ caller' = caller /\ ioq' = ioq
    BY <1>1 DEF InPool, TpAllocFails, queueVars, ioVars
  <2>2. /\ WorkQuiet /\ pool'.cs = pool.cs /\ pool'.num_workers = pool.num_workers + 1
        /\ pool'.objcount = pool.objcount /\ pool'.shutdown = pool.shutdown /\ pool.num_workers \in Int
    BY <1>0, <2>1, NewWorkerDoes
  <2>3. pool.objcount \in Int
    BY <1>0 DEF PoolRec
  <2>4. PoolQuiet
    BY <2>2, <2>3 DEF PoolQuiet
  <2>5. Calm
    BY <2>1, <2>2, <2>4, DutyStill, CallStill, AgainStill DEF Calm
  <2> QED BY <1>0, <2>5, CalmIs
<1>2. CASE Can("releasepool") /\ InPool(TpReleasePool(t))
  BY <1>2, ReleasePoolDoes DEF InPool, queueVars, ioVars
<1>3. CASE \E n \in Limits : InPool(TpSetPoolMaxThreads(t, n) \/ TpSetPoolMinThreads(t, n))
  BY <1>0, <1>3, LimitsCalm, CalmIs DEF InPool, queueVars, ioVars
<1>4. CASE InPool(TpReleaseCleanupGroup(t))
  <2>1. obj' = obj /\ caller' = caller /\ pool' = pool /\ worker' = worker /\ ioq' = ioq
    BY <1>4 DEF InPool, TpReleaseCleanupGroup, queueVars, ioVars
  <2>2. Calm
    BY <1>0, <2>1, DutyStill, PoolStill, WorkUpStill, CallStill, AgainStill DEF Calm
  <2> QED BY <1>0, <2>2, CalmIs
<1>5. CASE \E c \in BOOLEAN : ReleaseGroupMembers(t, c)
  BY <1>0, <1>5, MembersCalm, CalmIs
<1> QED BY <1>1, <1>2, <1>3, <1>4, <1>5 DEF PoolCalls

(* A service thread submits an object that it looks after. *)
LEMMA ServedDoes ==
  ASSUME BaseInv, BaseInv', CoreInv, AgainHolds, NEW o \in Objects, InService(o) = TRUE, NEW f,
         Ready(obj[o], f), tp_object_submit(o, f, pool), CsFree, caller' = caller, ioq' = ioq
  PROVE  SubmitStep /\ Restful
<1>1. Known(o)
  BY KnownIs
<1>2. obj[o].life = "live"
  BY ServedIs DEF BaseInv
<1>3. obj[o].shutdown = FALSE /\ obj[o].owner = "user"
  BY <1>1 DEF Known, ObjOK, UsePart, UserPart
<1>4. Type[o] # "simple"
  BY <1>1, <1>3 DEF Known, ObjOK, UsePart, SimplePart
<1>5. SubQuiet /\ SleepQuiet
  BY CallStill
<1>6. (ioq'.pc = "again" => ioq.pc = "again") /\ (ioq.pc = "again" => pool.cs = "io")
  BY DEF AgainHolds
<1>7. SubmitStep /\ \A x \in Objects : Busier(obj[x], obj'[x])
  BY <1>2, <1>3, <1>4, <1>5, <1>6, SubmitFree
<1> QED BY <1>5, <1>7 DEF Restful

(* The timer thread. *)
LEMMA TimerThreadDoes ==
  ASSUME BaseInv, BaseInv', CoreInv, AgainHolds, TimerThread
  PROVE  (Gentle \/ SubmitStep) /\ Restful
<1>0. Shape /\ TimerInv
  BY DEF BaseInv
<1>1. CASE TimerExpires
  <2>1. PICK o : o = ExpiredTimer
    OBVIOUS
  <2>2. AnyExpired /\ tp_object_submit(o, obj[o], pool) /\ CsFree /\ caller' = caller /\ ioq' = ioq
    BY <1>1, <2>1 DEF TimerExpires, submit_expired_timers, ioVars
  <2>3. o \in Timers /\ timer[o].pending
    BY <1>0, <2>1, <2>2, ExpiredIs
  <2>4. timer[o].initialized = TRUE
    BY <1>0, <2>3 DEF TimerInv, CountOK, TimerRec
  <2>5. o \in Objects /\ InService(o) = TRUE
    BY <2>3, <2>4, KindsOfObjects DEF InService
  <2>6. Ready(obj[o], obj[o])
    BY <1>0, <2>5, ServedIs
  <2> QED BY <2>2, <2>5, <2>6, ServedDoes
<1>2. CASE UNCHANGED poolVars /\ ioq' = ioq
  BY <1>0, <1>2, CalmStill, AgainStill, CalmIs
<1> QED BY <1>1, <1>2 DEF TimerThread, ioVars

(* A reference that a wait thread holds is released. *)
LEMMA ReleaseHeldCalm ==
  ASSUME BaseInv, BaseInv', CoreInv, NEW b \in Buckets, ReleaseHeld(b), ioq' = ioq
  PROVE  Calm
<1>0. Shape /\ WaitInv
  BY DEF BaseInv
<1>1. PICK o : o = LastHeld(b)
  OBVIOUS
<1>2. bucket[b].held # <<>> /\ worker' = worker /\ caller' = caller
  BY DEF ReleaseHeld
<1>3. o \in Objects
  BY <1>0, <1>1, <1>2, LastHeldIs
<1>4. CASE obj[o].life = "dying"
  <2>1. tp_object_destroy(o)
    BY <1>1, <1>4 DEF ReleaseHeld
  <2>2. DutyKept /\ PoolQuiet
    BY <1>3, <1>4, <2>1, DestroyCalm
  <2> QED BY <1>2, <2>2, WorkUpStill, CallStill, AgainStill DEF Calm
<1>5. CASE obj[o].life # "dying"
  <2>1. PICK e : e = Dropped(obj[o], 1)
    OBVIOUS
  <2>2. obj' = [obj EXCEPT ![o] = e] /\ pool' = pool
    BY <1>1, <1>5, <2>1 DEF ReleaseHeld
  <2>3. obj[o] \in ObjRec
    BY <1>0, <1>3 DEF Shape
  <2>4. GivenBack(obj[o], e, 1)
    BY <2>1, <2>3, DropGives
  <2>5. SameDuty(obj[o], e)
    BY <2>4 DEF GivenBack, SameDuty
  <2>6. DutyKept
    BY <1>0, <1>3, <2>2, <2>5, DutyTo
  <2> QED BY <1>0, <1>2, <2>2, <2>6, PoolStill, WorkUpStill, CallStill, AgainStill DEF Calm
<1> QED BY <1>4, <1>5

(* The thread of a bucket takes references. *)
LEMMA HoldCalm ==
  ASSUME BaseInv, NEW b \in Buckets, HoldObjects(b), ioq' = ioq
  PROVE  Calm
<1>0. obj \in [Objects -> ObjRec] /\ Shape
  BY DEF BaseInv, Shape
<1>1. /\ obj' = [o \in Objects |->
                 IF \E i \in DOMAIN bucket[b].waiting : bucket[b].waiting[i] = o
                   THEN [obj[o] EXCEPT !.refcount = @ + 1] ELSE obj[o]]
      /\ pool' = pool /\ worker' = worker /\ caller' = caller
  BY DEF HoldObjects
<1>2. ASSUME NEW o \in Objects PROVE SameDuty(obj[o], obj'[o])
  <2>1. obj[o] \in ObjRec
    BY <1>0, <1>2
  <2>2. PICK e : e = [obj[o] EXCEPT !.refcount = @ + 1]
    OBVIOUS
  <2>3. SameDuty(obj[o], e) /\ SameDuty(obj[o], obj[o])
    BY <2>1, <2>2 DEF ObjRec, SameDuty
  <2>4. obj'[o] = e \/ obj'[o] = obj[o]
    BY <1>1, <1>2, <2>2
  <2> QED BY <2>3, <2>4
<1>3. DutyKept
  BY <1>2 DEF DutyKept
<1> QED BY <1>0, <1>1, <1>3, PoolStill, WorkUpStill, CallStill, AgainStill DEF Calm

(* The threads of the buckets. *)
LEMMA WaitThreadDoes ==
  ASSUME BaseInv, BaseInv', CoreInv, AgainHolds, NEW b \in Buckets, WaitThread(b)
  PROVE  (Gentle \/ SubmitStep) /\ Restful
<1>0. Shape /\ WaitInv /\ ioq' = ioq
  BY DEF BaseInv, WaitThread, ioVars
<1>1. ASSUME NEW o \in Waits, wait[o].bucket = b
      PROVE  o \in Objects /\ InService(o) = TRUE /\ obj[o] \in ObjRec /\ Ready(obj[o], obj[o])
             /\ obj[o].signaled \in Nat
  <2>1. o \in Objects /\ InService(o) = TRUE
    BY <1>1, WaitConstants, KindsOfObjects DEF InService
  <2> QED BY <1>0, <2>1, ServedIs
<1>2. CASE SubmitElapsed(b)
  <2>1. PICK o : o = ElapsedWait(b)
    OBVIOUS
  <2>2. WaitElapses(b) /\ tp_object_submit(o, obj[o], pool) /\ CsFree /\ caller' = caller
    BY <1>2, <2>1 DEF SubmitElapsed
  <2>3. o \in Waits /\ wait[o].bucket = b
    BY <1>0, <2>1, <2>2, ElapsesKeeps
  <2>4. o \in Objects /\ InService(o) = TRUE /\ Ready(obj[o], obj[o])
    BY <1>1, <2>3
  <2> QED BY <1>0, <2>2, <2>4, ServedDoes
<1>3. CASE SubmitSignaled(b)
  <2>1. PICK o : o = HitObject(b)
    OBVIOUS
  <2>2. PICK f : f = [obj[o] EXCEPT !.signaled = @ + 1]
    OBVIOUS
  <2>3. WaitFires(b) /\ tp_object_submit(o, f, pool) /\ CsFree /\ caller' = caller
    BY <1>3, <2>1, <2>2 DEF SubmitSignaled
  <2>4. o \in Waits /\ wait[o].bucket = b
    BY <1>0, <2>1, <2>3, FiresKeeps
  <2>5. o \in Objects /\ InService(o) = TRUE /\ obj[o] \in ObjRec /\ Ready(obj[o], obj[o]) /\ obj[o].signaled \in Nat
    BY <1>1, <2>4
  <2>6. Ready(obj[o], f)
    BY <2>2, <2>5, SignaledIs DEF Ready
  <2> QED BY <1>0, <2>3, <2>5, <2>6, ServedDoes
<1>4. CASE HoldObjects(b)
  BY <1>0, <1>4, HoldCalm, CalmIs
<1>5. CASE ReleaseHeld(b)
  BY <1>0, <1>5, ReleaseHeldCalm, CalmIs
<1>6. CASE WaitThreadStep(b) /\ UNCHANGED poolVars
  BY <1>0, <1>6, CalmStill, AgainStill, CalmIs
<1> QED BY <1>2, <1>3, <1>4, <1>5, <1>6 DEF WaitThread

(* The I/O thread submits. *)
LEMMA IoSubmitDoes ==
  ASSUME BaseInv, BaseInv', CoreInv, AgainHolds, NEW o \in Ios, IoSubmits(o) \/ IoSubmitsAgain(o)
  PROVE  SubmitStep /\ Restful
<1>0. Shape /\ IoShape /\ pool \in PoolRec /\ ioq \in IoqRec
  BY DEF BaseInv, Shape, CoreInv, IoShape, IoState
<1>1. PICK n \in {0, 1} :
        /\ ioq.key = o /\ ioq.pc \in {"packet", "again"} /\ (n = 1 => obj[o].ops > 0)
        /\ n = 1 => /\ tp_object_submit(o, Stores(o, [obj[o] EXCEPT !.ops = @ - 1]), [pool EXCEPT !.cs = "io"])
                    /\ IoGoto("again") /\ CsFree
        /\ n = 0 => /\ tp_object_submit(o, Stores(o, obj[o]), [pool EXCEPT !.cs = Nil])
                    /\ IoGoto("tail") /\ (ioq.pc = "again" \/ CsFree)
  BY DEF IoSubmits, IoSubmitsAgain, HasPacket
<1>2. /\ o \in Objects /\ Type[o] = "io" /\ obj[o].life = "live" /\ obj[o].shutdown = FALSE
      /\ obj[o] \in ObjRec /\ obj[o].ops \in Nat
  BY <1>1, PacketIs
<1>3. obj[o] = [obj[o] EXCEPT !.ops = @ - 0]
  BY <1>2 DEF ObjRec
<1>4. PICK f : f = Stores(o, [obj[o] EXCEPT !.ops = @ - n])
  OBVIOUS
<1>5. PICK cs \in {Nil, "io"} : cs = IF n = 1 THEN "io" ELSE Nil
  OBVIOUS
<1>6. PICK p : p = [pool EXCEPT !.cs = cs]
  OBVIOUS
<1>7. tp_object_submit(o, f, p)
  <2>1. CASE n = 1
    BY <1>1, <1>4, <1>5, <1>6, <2>1
  <2>2. CASE n = 0
    BY <1>1, <1>3, <1>4, <1>5, <1>6, <2>2
  <2> QED BY <2>1, <2>2
<1>8. p \in PoolRec /\ SamePool(pool, p) /\ p.cs = cs
  BY <1>0, <1>5, <1>6 DEF PoolRec, SamePool
<1>9. n <= obj[o].ops
  BY <1>1, <1>2
<1>10. Ready(obj[o], f)
  BY <1>1, <1>4, <1>9, StoredIs
<1>11. pool.cs \in {Nil, "io"}
  BY <1>1 DEF CsFree, AgainHolds
<1>12. ioq'.pc = "again" => p.cs = "io"
  <2>1. CASE n = 1
    BY <1>5, <1>8, <2>1
  <2>2. CASE n = 0
    <3>1. ioq' = [ioq EXCEPT !.pc = "tail"]
      BY <1>1, <2>2 DEF IoGoto
    <3>2. ioq'.pc = "tail"
      BY <1>0, <3>1 DEF IoqRec
    <3> QED BY <3>2
  <2> QED BY <2>1, <2>2
<1>13. SubQuiet /\ SleepQuiet
  BY CallStill DEF IoSubmits, IoSubmitsAgain
<1>14. SubmitStep /\ \A x \in Objects : Busier(obj[x], obj'[x])
  BY <1>2, <1>7, <1>8, <1>10, <1>11, <1>12, <1>13, SubmitDoes
<1> QED BY <1>13, <1>14 DEF Restful

(* The I/O thread has no memory for a completion. *)
LEMMA IoLacksDoes ==
  ASSUME BaseInv, CoreInv, NEW o \in Ios, IoLacksMemory(o)
  PROVE  Gentle
<1>0. Shape /\ IoShape /\ ioq \in IoqRec
  BY DEF BaseInv, CoreInv, IoShape, IoState
<1>1. o \in Objects /\ obj[o] \in ObjRec
  BY <1>0, KindsOfObjects DEF Shape
<1>2. PICK e : e = [obj[o] EXCEPT !.ops = @ - 1]
  OBVIOUS
<1>3. /\ obj' = [obj EXCEPT ![o] = e] /\ ioq' = [ioq EXCEPT !.pc = "get"]
      /\ pool' = pool /\ worker' = worker /\ caller' = caller
  BY <1>2 DEF IoLacksMemory, IoGoto
<1>4. KeptObj(o) /\ obj'[o] = e
  BY <1>0, <1>1, <1>3 DEF KeptObj, Shape
<1>5. e.pending = obj[o].pending /\ obj[o].pending \in Int
  BY <1>1, <1>2 DEF ObjRec
<1>6. PendFalls
  BY <1>0, <1>1, <1>4, <1>5, FallsOne
<1>7. AgainQuiet
  BY <1>0, <1>3 DEF AgainQuiet, IoqRec
<1> QED BY <1>0, <1>3, <1>6, <1>7, PoolStill, WorkUpStill, CallStill DEF Gentle

(* The I/O thread skips a packet, or releases an object. *)
LEMMA IoDropsCalm ==
  ASSUME BaseInv, CoreInv, NEW o \in Ios, IoSkips(o) \/ IoReleases(o)
  PROVE  Calm
<1>0. Shape /\ IoShape /\ ioq \in IoqRec
  BY DEF BaseInv, CoreInv, IoShape, IoState
<1>1. o \in Objects /\ obj[o] \in ObjRec
  BY <1>0, KindsOfObjects DEF Shape
<1>2. pool' = pool /\ worker' = worker /\ caller' = caller
  BY DEF IoSkips, IoReleases
<1>3. CASE IoSkips(o)
  <2>1. PICK e : e = [obj[o] EXCEPT !.skipped = @ - 1]
    OBVIOUS
  <2>2. obj' = [obj EXCEPT ![o] = e] /\ ioq' = [ioq EXCEPT !.pc = "get"]
    BY <1>3, <2>1 DEF IoSkips, IoGoto
  <2>3. SameDuty(obj[o], e)
    BY <1>1, <2>1 DEF ObjRec, SameDuty
  <2>4. DutyKept
    BY <1>0, <1>1, <2>2, <2>3, DutyTo
  <2>5. AgainQuiet
    BY <1>0, <2>2 DEF AgainQuiet, IoqRec
  <2> QED BY <1>0, <1>2, <2>4, <2>5, PoolStill, WorkUpStill, CallStill DEF Calm
<1>4. CASE IoReleases(o)
  <2>1. PICK own \in {"none", "user", "group"} : own = obj[o].owner
    BY <1>1 DEF ObjRec
  <2>2. PICK c : c = Closed(obj[o], 1, own)
    OBVIOUS
  <2>3. ReleasedIs(obj[o], c, 1, own)
    BY <1>1, <2>2, ReleaseIs
  <2>4. c \in ObjRec /\ SameDuty(obj[o], c)
    BY <2>3 DEF ReleasedIs, SameDuty
  <2>5. PICK e : e = [c EXCEPT !.skipped = 0]
    OBVIOUS
  <2>6. SameDuty(c, e)
    BY <2>4, <2>5 DEF ObjRec, SameDuty
  <2>7. PICK pc \in {"destroy", "tail"} : pc = IF obj[o].refcount = 1 THEN "destroy" ELSE "tail"
    OBVIOUS
  <2>8. obj' = [obj EXCEPT ![o] = e] /\ ioq' = [ioq EXCEPT !.objcount = @ - 1, !.pc = pc]
    BY <1>4, <2>1, <2>2, <2>5, <2>7 DEF IoReleases
  <2>9. DutyKept
    <3>1. SameDuty(obj[o], e)
      BY <2>4, <2>6 DEF SameDuty
    <3> QED BY <1>0, <1>1, <2>8, <3>1, DutyTo
  <2>10. AgainQuiet
    BY <1>0, <2>8 DEF AgainQuiet, IoqRec
  <2> QED BY <1>0, <1>2, <2>9, <2>10, PoolStill, WorkUpStill, CallStill DEF Calm
<1> QED BY <1>3, <1>4

(* The I/O thread destroys an object. *)
LEMMA IoDestroysCalm ==
  ASSUME BaseInv, BaseInv', CoreInv, NEW o \in Ios, IoDestroys(o)
  PROVE  Calm
<1>0. Shape /\ IoShape /\ ioq \in IoqRec
  BY DEF BaseInv, CoreInv, IoShape, IoState
<1>1. /\ ioq.pc = "destroy" /\ ioq.key = o /\ tp_object_destroy(o) /\ o \in Objects
      /\ worker' = worker /\ caller' = caller /\ ioq' = [ioq EXCEPT !.pc = "tail"]
  BY KindsOfObjects DEF IoDestroys, IoGoto
<1>2. PN(o).ends > 0
  <2>1. PacketFacts(ioq, port, io, o)
    BY PacketsAre DEF CoreInv, IoShape
  <2>2. One(ioq.pc = "destroy" /\ ioq.key = o) = 1
    BY <1>1 DEF One
  <2> QED BY <2>1, <2>2 DEF PacketFacts, PN
<1>3. obj[o].life = "dying"
  BY <1>0, <1>1, <1>2, DyingIs
<1>4. DutyKept /\ PoolQuiet
  BY <1>1, <1>3, DestroyCalm
<1>5. AgainQuiet
  BY <1>0, <1>1 DEF AgainQuiet, IoqRec
<1> QED BY <1>1, <1>4, <1>5, WorkUpStill, CallStill DEF Calm

(* The I/O thread alone. *)
LEMMA IoStepAgain ==
  ASSUME CoreInv, IoThreadStep
  PROVE  AgainQuiet
<1>0. ioq \in IoqRec
  BY DEF CoreInv, IoShape, IoState
<1>1. CASE NtRemoveIoCompletion
  <2>1. PICK k : ioq' = [ioq EXCEPT !.pc = "packet", !.key = k]
    BY <1>1 DEF NtRemoveIoCompletion
  <2> QED BY <1>0, <2>1 DEF AgainQuiet, IoqRec
<1>2. CASE \E pc \in {"tail", "idle", "get", "late", "exit", "none"} : IoGoto(pc)
  <2>1. PICK pc \in {"tail", "idle", "get", "late", "exit", "none"} : ioq' = [ioq EXCEPT !.pc = pc]
    BY <1>2 DEF IoGoto
  <2>2. ioq'.pc = pc
    BY <1>0, <2>1 DEF IoqRec
  <2> QED BY <2>2 DEF AgainQuiet
<1> QED BY <1>1, <1>2 DEF IoThreadStep, IoThreadGoesOn, IoThreadTimesOut, IoThreadEnds

(* The I/O thread. *)
LEMMA IoThreadDoes ==
  ASSUME BaseInv, BaseInv', CoreInv, AgainHolds, IoThread
  PROVE  /\ Gentle \/ SubmitStep
         /\ Restful \/ \E o \in Ios : IoLacksMemory(o)
<1>0. Shape
  BY DEF BaseInv
<1>1. CASE IoThreadStep /\ UNCHANGED poolVars
  BY <1>0, <1>1, IoStepAgain, CalmStill, CalmIs
<1>2. ASSUME NEW o \in Ios, IoSkips(o) \/ IoReleases(o) \/ IoDestroys(o)
      PROVE  Gentle /\ Restful
  BY <1>0, <1>2, IoDropsCalm, IoDestroysCalm, CalmIs
<1> QED BY <1>1, <1>2, IoSubmitDoes, IoLacksDoes DEF IoThread, InIo

(* Those who change what there is to wait for, and wake nobody. *)
OddStep ==
    \/ \E t \in program.callers :
         \/ GroupCancel(t)
         \/ \E o \in program.objects : Can("cancel") /\ TpWaitFor(t, o, TRUE)
    \/ \E o \in Ios : IoLacksMemory(o)

(* Every step, for the workers and for those who wait. *)
LEMMA StepDoes ==
  ASSUME BaseInv, BaseInv', CoreInv, CountInv, AgainHolds, program \in Programs, [Next]_vars
  PROVE  /\ Gentle \/ TakeStep \/ IdleStep \/ SubmitStep \/ OpenStep \/ ZeroStep \/ CloseStep
         /\ Restful \/ WakeStep \/ DozeStep \/ OddStep
<1>0. Shape
  BY DEF BaseInv
<1>1. CASE UNCHANGED poolVars /\ ioq' = ioq
  BY <1>0, <1>1, CalmStill, AgainStill, CalmIs
<1>2. CASE Next
  <2>1. program.callers \subseteq Callers /\ program.objects \subseteq Objects
    BY CallsOfPrograms
  <2>2. CASE ServiceMoves
    <3>1. Tick => UNCHANGED poolVars /\ ioq' = ioq
      BY DEF Tick, queueVars, ioVars
    <3>2. \A o \in Ios : IoCompletes(o) => UNCHANGED poolVars /\ ioq' = ioq
      BY DEF IoCompletes, InIo, Completes
    <3>3. CASE IoThread
      BY <3>3, IoThreadDoes DEF OddStep
    <3>4. CASE TimerThread \/ \E b \in Buckets : WaitThread(b)
      BY <3>4, TimerThreadDoes, WaitThreadDoes
    <3> QED BY <1>1, <2>2, <3>1, <3>2, <3>3, <3>4 DEF ServiceMoves
  <2>3. CASE \E h \in Handles : Signal(h)
    BY <1>1, <2>3 DEF Signal, ioVars
  <2>4. CASE \E w \in Workers : WorkerMoves(w) \/ CallbackCalls(w)
    BY <2>4, WorkerMovesDo, CallbackCallsDo
  <2>5. ASSUME NEW t \in program.callers, CallerMoves(t)
        PROVE  (Gentle \/ SubmitStep) /\ (Restful \/ WakeStep \/ DozeStep \/ OddStep)
    BY <2>1, <2>5, CallerMovesDo DEF OddStep
  <2>6. ASSUME NEW t \in program.callers, PoolCalls(t)
        PROVE  (Gentle \/ CloseStep) /\ Restful
    BY <2>1, <2>6, PoolCallsDo
  <2>7. ASSUME NEW t \in program.callers, NEW o \in program.objects, ObjectCalls(t, o)
        PROVE  /\ Gentle \/ SubmitStep \/ OpenStep \/ ZeroStep
               /\ Restful \/ WakeStep \/ OddStep
    BY <2>1, <2>7, ObjectCallsDo DEF OddStep
  <2> QED BY <1>2, <2>2, <2>3, <2>4, <2>5, <2>6, <2>7 DEF Next
<1> QED BY <1>1, <1>2 DEF vars, queueVars, ioVars

-----------------------------------------------------------------------------
(* Workers without a callback.                                              *)

NoneDue == \A o \in Objects : obj[o].pending = 0

(* What is pending is on a list. *)
LEMMA DueIs ==
  ASSUME Shape, CoreInv
  PROVE  /\ Waiting <=> ~NoneDue
         /\ \A o \in Objects : obj[o].pending \in Nat
<1>1. ListedOK /\ ObjInv /\ IoShape
  BY DEF CoreInv
<1>2. \A o \in Objects : obj[o].pending \in Nat
  BY <1>1, GoodTyped, ItemFacts
<1>3. ASSUME NEW o \in Objects, obj[o].pending > 0 PROVE Waiting
  <2>1. PICK p \in 1..3 : p = Priority[o]
    BY PoolConstants
  <2>2. PICK s \in Seq(OfPriority(p)) : s = pools[p]
    BY <2>1 DEF Shape, PoolLists
  <2>3. o \in Rng(s)
    BY <1>1, <1>3, <2>1, <2>2 DEF ListedOK
  <2>4. s # <<>>
    BY <2>3 DEF Rng
  <2> QED BY <2>1, <2>2, <2>4 DEF Waiting
<1>4. ASSUME NEW p \in 1..3, pools[p] # <<>> PROVE \E o \in Objects : obj[o].pending > 0
  <2>2. PICK s \in Seq(OfPriority(p)) : s = pools[p]
    BY DEF Shape, PoolLists
  <2>3. PICK o : o = Head(s)
    OBVIOUS
  <2>4. o \in OfPriority(p) /\ o \in Rng(s)
    BY <1>4, <2>2, <2>3, TailIs
  <2>5. o \in Objects /\ Priority[o] = p
    BY <2>4 DEF OfPriority
  <2> QED BY <1>1, <2>2, <2>4, <2>5 DEF ListedOK
<1>5. Waiting => \E o \in Objects : obj[o].pending > 0
  BY <1>4 DEF Waiting
<1> QED BY <1>2, <1>3, <1>5 DEF NoneDue

(* A worker that finds nothing to do leaves, looks once more, or sleeps. *)
IdleLeave(w, r) ==
    /\ worker[w].pc \in {"run", "timedout"} /\ r.pc = "leave" /\ NoneDue
    /\ pool.cs \in {Nil, w} /\ pool'.cs = Nil /\ pool'.num_workers = pool.num_workers - 1
    /\ pool.shutdown = TRUE \/ pool.num_workers > 1 \/ pool.objcount = 0
IdleLook(w, r) ==
    /\ worker[w].pc = "run" /\ r.pc = "check" /\ NoneDue
    /\ pool.cs \in {Nil, w} /\ pool'.cs = w /\ pool'.num_workers = pool.num_workers
IdleSleep(w, r) ==
    /\ worker[w].pc = "check" /\ r.pc = "asleep"
    /\ pool'.cs = Nil /\ pool'.num_workers = pool.num_workers
IdleBack(w, r) ==
    /\ worker[w].pc = "timedout" /\ r.pc = "run"
    /\ pool.cs = Nil /\ pool'.cs = w /\ pool'.num_workers = pool.num_workers
IdleDone(w, r) ==
    /\ worker' = [worker EXCEPT ![w] = r]
    /\ pool'.objcount = pool.objcount /\ pool'.shutdown = pool.shutdown
    /\ UNCHANGED <<obj, caller, ioq>>
    /\ IdleLeave(w, r) \/ IdleLook(w, r) \/ IdleSleep(w, r) \/ IdleBack(w, r)

(* The steps of an idle worker. *)
LEMMA IdleDoes ==
  ASSUME BaseInv, CoreInv, IdleStep
  PROVE  \E w \in Workers : \E r : IdleDone(w, r)
<1>0. Shape /\ pool \in PoolRec
  BY DEF BaseInv, Shape
<1>1. Waiting <=> ~NoneDue
  BY <1>0, DueIs
<1>2. obj' = obj /\ caller' = caller /\ ioq' = ioq
  BY DEF IdleStep, WorkerCheck, WorkerSleep, WorkerTimedOut
<1>3. PICK w \in Workers : WorkerCheck(w) \/ WorkerSleep(w) \/ WorkerTimedOut(w)
  BY DEF IdleStep
<1>4. worker[w] \in WorkerRec
  BY <1>0 DEF Shape, WorkerSet
<1>5. ASSUME NEW pc
      PROVE  [worker[w] EXCEPT !.pc = pc].pc = pc
  BY <1>4 DEF WorkerRec
<1>6. pool.shutdown \in BOOLEAN /\ pool.num_workers \in Int /\ pool.min_workers \in Nat
  BY <1>0 DEF PoolRec
<1>7. CASE WorkerCheck(w)
  <2>1. worker[w].pc = "run" /\ pool.cs \in {Nil, w} /\ NoneDue
    BY <1>1, <1>7 DEF WorkerCheck, CsFreeFor
  <2>2. CASE pool.shutdown
    <3>1. PICK r : r = [worker[w] EXCEPT !.pc = "leave"]
      OBVIOUS
    <3>2. r.pc = "leave" /\ worker' = [worker EXCEPT ![w] = r]
      BY <1>5, <1>7, <2>2, <3>1 DEF WorkerCheck
    <3>3. pool' = [pool EXCEPT !.num_workers = @ - 1, !.cs = Nil]
      BY <1>7, <2>2 DEF WorkerCheck
    <3>4. /\ pool'.num_workers = pool.num_workers - 1 /\ pool'.cs = Nil /\ pool'.objcount = pool.objcount
          /\ pool'.shutdown = pool.shutdown
      BY <1>0, <3>3 DEF PoolRec
    <3> QED BY <1>2, <1>6, <2>1, <2>2, <3>2, <3>4 DEF IdleDone, IdleLeave
  <2>3. CASE ~pool.shutdown
    <3>1. PICK r : r = [worker[w] EXCEPT !.pc = "check"]
      OBVIOUS
    <3>2. r.pc = "check" /\ worker' = [worker EXCEPT ![w] = r]
      BY <1>5, <1>7, <2>3, <3>1 DEF WorkerCheck
    <3>3. pool' = [pool EXCEPT !.cs = w]
      BY <1>7, <2>3 DEF WorkerCheck
    <3>4. /\ pool'.num_workers = pool.num_workers /\ pool'.cs = w /\ pool'.objcount = pool.objcount
          /\ pool'.shutdown = pool.shutdown
      BY <1>0, <3>3 DEF PoolRec
    <3> QED BY <1>2, <2>1, <3>2, <3>4 DEF IdleDone, IdleLook
  <2> QED BY <2>2, <2>3
<1>8. CASE WorkerSleep(w)
  <2>1. PICK r : r = [worker[w] EXCEPT !.pc = "asleep"]
    OBVIOUS
  <2>2. r.pc = "asleep" /\ worker' = [worker EXCEPT ![w] = r] /\ worker[w].pc = "check"
    BY <1>5, <1>8, <2>1 DEF WorkerSleep
  <2>3. pool' = [pool EXCEPT !.cs = Nil]
    BY <1>8 DEF WorkerSleep
  <2>4. /\ pool'.num_workers = pool.num_workers /\ pool'.cs = Nil /\ pool'.objcount = pool.objcount
        /\ pool'.shutdown = pool.shutdown
    BY <1>0, <2>3 DEF PoolRec
  <2> QED BY <1>2, <2>2, <2>4 DEF IdleDone, IdleSleep
<1>9. CASE WorkerTimedOut(w)
  <2>1. worker[w].pc = "timedout" /\ pool.cs = Nil
    BY <1>9 DEF WorkerTimedOut, CsFree
  <2>2. CASE MayTerminate
    <3>1. PICK r : r = [worker[w] EXCEPT !.pc = "leave"]
      OBVIOUS
    <3>2. r.pc = "leave" /\ worker' = [worker EXCEPT ![w] = r]
      BY <1>5, <1>9, <2>2, <3>1 DEF WorkerTimedOut
    <3>3. pool' = [pool EXCEPT !.num_workers = @ - 1]
      BY <1>9, <2>2 DEF WorkerTimedOut
    <3>4. /\ pool'.num_workers = pool.num_workers - 1 /\ pool'.cs = pool.cs /\ pool'.objcount = pool.objcount
          /\ pool'.shutdown = pool.shutdown
      BY <1>0, <3>3 DEF PoolRec
    <3>5. NoneDue /\ (pool.num_workers > 1 \/ pool.objcount = 0)
      BY <1>1, <1>6, <2>2 DEF MayTerminate
    <3> QED BY <1>2, <2>1, <3>2, <3>4, <3>5 DEF IdleDone, IdleLeave
  <2>3. CASE ~MayTerminate
    <3>1. PICK r : r = [worker[w] EXCEPT !.pc = "run"]
      OBVIOUS
    <3>2. r.pc = "run" /\ worker' = [worker EXCEPT ![w] = r]
      BY <1>5, <1>9, <2>3, <3>1 DEF WorkerTimedOut
    <3>3. PICK l : pool' = [pool EXCEPT !.cs = w, !.late = l]
      BY <1>9, <2>3 DEF WorkerTimedOut
    <3>4. /\ pool'.num_workers = pool.num_workers /\ pool'.cs = w /\ pool'.objcount = pool.objcount
          /\ pool'.shutdown = pool.shutdown
      BY <1>0, <3>3 DEF PoolRec
    <3> QED BY <1>2, <2>1, <3>2, <3>4 DEF IdleDone, IdleBack
  <2> QED BY <2>2, <2>3
<1> QED BY <1>3, <1>7, <1>8, <1>9

(* A worker that is about to sleep has pool->cs, and found nothing. *)
CheckHolds == \A w \in Workers : worker[w].pc = "check" => pool.cs = w /\ NoneDue
HoldInv == AgainHolds /\ CheckHolds

(* What is pending is a number, after a step. *)
LEMMA DueNat ==
  ASSUME Shape', CoreInv', NEW o \in Objects
  PROVE  obj'[o].pending \in Nat
<1>1. obj'[o].pending >= 0
  BY DEF CoreInv, ObjInv, Good, ObjOK, CountPart
<1>2. obj'[o].pending \in Int
  BY DEF Shape, ObjRec
<1> QED BY <1>1, <1>2

(* With less to do there is still nothing. *)
LEMMA NoneStays ==
  ASSUME Shape, Shape', CoreInv', PendFalls, NoneDue
  PROVE  NoneDue'
<1>1. ASSUME NEW o \in Objects PROVE obj'[o].pending \in Nat
  BY <1>1, DueNat
<1>2. ASSUME NEW o \in Objects PROVE obj'[o].pending = 0
  <2>1. obj'[o].pending <= obj[o].pending /\ obj[o].pending = 0
    BY <1>2 DEF PendFalls, NoneDue
  <2> QED BY <1>1, <1>2, <2>1
<1> QED BY <1>2 DEF NoneDue

(* Who holds pool->cs, after a step. *)
LEMMA HoldStep ==
  ASSUME BaseInv, BaseInv', CoreInv, CoreInv', HoldInv,
         Gentle \/ TakeStep \/ IdleStep \/ SubmitStep \/ OpenStep \/ ZeroStep \/ CloseStep
  PROVE  HoldInv'
<1>0. Shape /\ Shape' /\ "io" \notin Workers \cup {Nil} /\ Nil \notin Workers
  BY PoolConstants DEF BaseInv
<1>1. ASSUME pool'.cs = pool.cs \/ pool.cs = Nil, AgainQuiet, WorkQuiet, NoneDue => NoneDue'
      PROVE  HoldInv'
  <2>1. AgainHolds'
    BY <1>0, <1>1 DEF HoldInv, AgainHolds, AgainQuiet
  <2>2. CheckHolds'
    BY <1>0, <1>1 DEF HoldInv, CheckHolds, WorkQuiet, WorkUp
  <2> QED BY <2>1, <2>2 DEF HoldInv
<1>2. CASE Gentle
  BY <1>0, <1>1, <1>2, NoneStays DEF Gentle, PoolQuiet
<1>3. CASE OpenStep
  BY <1>0, <1>1, <1>3, NoneStays DEF OpenStep
<1>4. CASE ZeroStep
  BY <1>1, <1>4, WorkUpStill, AgainStill DEF ZeroStep, NoneDue
<1>5. CASE CloseStep
  BY <1>1, <1>5, AgainStill DEF CloseStep, NoneDue
<1>6. CASE TakeStep
  <2>1. PICK w \in Workers, o \in Objects :
          /\ worker[w].pc = "run" /\ worker'[w].pc = "callback"
          /\ \A x \in Workers \ {w} : worker'[x] = worker[x]
          /\ obj[o].pending > 0 /\ pool.cs \in {Nil, w} /\ ioq' = ioq
    BY <1>6 DEF TakeStep
  <2>2. ioq'.pc # "again"
    BY <1>0, <2>1 DEF HoldInv, AgainHolds
  <2>3. ASSUME NEW x \in Workers PROVE worker'[x].pc # "check"
    BY <2>1, <2>3 DEF HoldInv, CheckHolds, NoneDue
  <2> QED BY <2>2, <2>3 DEF HoldInv, AgainHolds, CheckHolds
<1>7. CASE SubmitStep
  <2>1. pool.cs \in {Nil, "io"} /\ (ioq'.pc = "again" => pool'.cs = "io") /\ WorkQuiet
    BY <1>7 DEF SubmitStep
  <2>2. \A x \in Workers : worker'[x].pc # "check"
    BY <1>0, <2>1 DEF HoldInv, CheckHolds, WorkQuiet, WorkUp
  <2> QED BY <2>1, <2>2 DEF HoldInv, AgainHolds, CheckHolds
<1>8. CASE IdleStep
  <2>1. PICK w \in Workers : \E r : IdleDone(w, r)
    BY <1>8, IdleDoes
  <2>2. PICK r : IdleDone(w, r)
    BY <2>1
  <2>3. worker'[w] = r /\ (\A x \in Workers \ {w} : worker'[x] = worker[x]) /\ obj' = obj /\ ioq' = ioq
    BY <1>0, <2>2 DEF IdleDone, Shape
  <2>4. pool.cs \in {Nil, w}
    BY <2>2 DEF IdleDone, IdleLeave, IdleLook, IdleSleep, IdleBack, HoldInv, CheckHolds
  <2>5. ioq'.pc # "again"
    BY <1>0, <2>3, <2>4 DEF HoldInv, AgainHolds
  <2>6. ASSUME NEW x \in Workers \ {w} PROVE worker'[x].pc # "check"
    BY <1>0, <2>3, <2>4, <2>6 DEF HoldInv, CheckHolds
  <2>7. r.pc = "check" => pool'.cs = w /\ NoneDue
    BY <2>2 DEF IdleDone, IdleLeave, IdleLook, IdleSleep, IdleBack
  <2>8. r.pc = "check" => NoneDue'
    BY <2>3, <2>7 DEF NoneDue
  <2> QED BY <2>3, <2>5, <2>6, <2>7, <2>8 DEF HoldInv, AgainHolds, CheckHolds
<1> QED BY <1>2, <1>3, <1>4, <1>5, <1>6, <1>7, <1>8

(* Once the pool is released, nothing is open that could be submitted. *)
LateInv ==
    /\ \A o \in Objects \ program.objects : obj[o].life = "none"
    /\ pool.shutdown = TRUE =>
         /\ Can("releasepool")
         /\ \A o \in Objects : Type[o] # "simple" => ItemLife(obj[o]) # "open"
         /\ \A t \in Callers : caller[t].pc # "submit"

(* A program that releases the pool has no I/O objects: TpReleaseIoComple-  *)
(* tion leaves an object with operations under way to the I/O thread, and   *)
(* the program cannot tell when that is done with it.                       *)
NoIoAfterRelease == \A p \in Programs : "releasepool" \in p.calls => p.objects \cap Ios = {}

(* The number of objects says whether one was allocated. *)
LEMMA NoBirth ==
  ASSUME BaseInv, CoreInv, CountInv, CountInv', ItemsStep, pool'.objcount <= pool.objcount,
         NEW o \in Objects, obj[o].life = "none"
  PROVE  obj'[o].life = "none"
<1>0. Shape
  BY DEF BaseInv
<1>1. ItemLife(obj[o]) = "none" /\ obj[o].pending = 0 /\ obj[o].running = 0
  <2>1. Known(o)
    BY KnownIs
  <2>2. obj[o].pending = 0 /\ obj[o].running = 0
    BY <2>1, ItemFacts DEF Known
  <2> QED BY <2>2 DEF ItemLife
<1>2. ItemLife(obj'[o]) = "none" => obj'[o].life = "none"
  BY DEF ItemLife
<1>3. ASSUME KeptObj(o), ItemOpens(obj[o], obj'[o]) PROVE FALSE
  <2>1. Lives' = Lives \cup {o} /\ o \notin Lives
    <3>1. obj'[o].life = "live" /\ obj[o].life = "none"
      BY <1>3 DEF ItemOpens
    <3>2. \A x \in Objects \ {o} : obj'[x] = obj[x]
      BY <1>3 DEF KeptObj
    <3> QED BY <3>1, <3>2 DEF Lives, Alive
  <2>2. IsFiniteSet(Lives) /\ Cardinality(Lives) \in Nat
    BY MarksAre
  <2>3. Cardinality(Lives') = Cardinality(Lives) + 1
    BY <2>1, <2>2, FS_AddElement
  <2>4. pool.objcount = Cardinality(Lives) /\ pool'.objcount = Cardinality(Lives')
    BY DEF CountInv, PoolBal, PoolOK
  <2> QED BY <2>2, <2>3, <2>4
<1>4. ASSUME ItemSame(obj[o], obj'[o]) PROVE obj'[o].life = "none"
  BY <1>1, <1>2, <1>4 DEF ItemSame
<1>5. ASSUME KeptObj(o), ItemMove(o, obj[o], CN(o), obj'[o]) PROVE obj'[o].life = "none"
  <2>1. ~ItemSubmits(o, obj[o], CN(o), obj'[o]) /\ ~ItemFinishes(obj[o], obj'[o]) /\ ~ItemStarts(obj[o], obj'[o])
    BY <1>1 DEF ItemSubmits, ItemFinishes, ItemStarts
  <2>2. ~ItemCancels(obj[o], obj'[o]) /\ ~ItemCloses(obj[o], obj'[o]) /\ ~ItemFrees(obj[o], obj'[o])
    BY DEF ItemCancels, ItemCloses, ItemFrees
  <2> QED BY <1>3, <1>4, <1>5, <2>1, <2>2 DEF ItemMove
<1>6. ASSUME NEW x \in Objects, x # o, KeptObj(x) PROVE obj'[o].life = "none"
  BY <1>6 DEF KeptObj
<1> QED BY <1>4, <1>5, <1>6 DEF ItemsStep

(* Only an object that is new or open is open. *)
LEMMA NotOpened ==
  ASSUME ItemsStep, NEW o \in Objects, ItemLife(obj[o]) # "open", ItemLife(obj'[o]) = "open"
  PROVE  obj[o].life = "none" /\ obj'[o].life # "none"
<1>1. \A x \in Objects : KeptObj(x) => x = o
  BY DEF KeptObj
<1>2. ~ItemSame(obj[o], obj'[o])
  BY DEF ItemSame
<1>3. ItemMove(o, obj[o], CN(o), obj'[o])
  BY <1>1, <1>2 DEF ItemsStep
<1>4. ~ItemSubmits(o, obj[o], CN(o), obj'[o]) /\ ~ItemStarts(obj[o], obj'[o]) /\ ~ItemFinishes(obj[o], obj'[o])
  BY DEF ItemSubmits, ItemFinishes, ItemStarts, ItemLife
<1>5. ~ItemCancels(obj[o], obj'[o]) /\ ~ItemCloses(obj[o], obj'[o]) /\ ~ItemFrees(obj[o], obj'[o])
  BY DEF ItemCancels, ItemCloses, ItemFrees, ItemLife
<1> QED BY <1>2, <1>3, <1>4, <1>5 DEF ItemMove, ItemOpens

(* Nothing is submitted to a pool that was released. *)
LEMMA SubmitsInTime ==
  ASSUME BaseInv, LateInv, NEW o \in Objects, ItemSubmits(o, obj[o], CN(o), obj'[o])
  PROVE  pool.shutdown = FALSE
<1>0. Shape /\ pool.shutdown \in BOOLEAN
  BY DEF BaseInv, Shape, PoolRec
<1>1. ItemLife(obj[o]) = "open" /\ (Type[o] = "simple" => CN(o).sub > 0)
  BY DEF ItemSubmits, ItemLife
<1>2. CASE Type[o] = "simple"
  <2>1. Cnt(caller, CallsAt(o, {"submit"})) > 0
    BY <1>1, <1>2 DEF CN
  <2>2. IsFiniteSet(Callers) /\ DOMAIN caller = Callers
    BY <1>0, PoolConstants DEF Shape
  <2>3. \E t \in Callers : caller[t] \in CallsAt(o, {"submit"})
    <3>1. PICK A : A = CallsAt(o, {"submit"})
      OBVIOUS
    <3>2. Cnt(caller, A) = 0 <=> \A x \in Callers : caller[x] \notin A
      BY <2>2, CntSome
    <3> QED BY <2>1, <3>1, <3>2
  <2>4. \E t \in Callers : caller[t].pc = "submit"
    BY <2>3 DEF CallsAt
  <2> QED BY <1>0, <2>4 DEF LateInv
<1> QED BY <1>0, <1>1, <1>2 DEF LateInv

(* An object that the program may use is open. *)
LEMMA UsedInTime ==
  ASSUME BaseInv, CoreInv, LateInv, NEW o \in Objects, Usable(o)
  PROVE  pool.shutdown = FALSE
<1>1. obj[o].life = "live" /\ obj[o].shutdown = FALSE /\ Type[o] # "simple"
  BY UsableIs
<1>2. ItemLife(obj[o]) = "open"
  BY <1>1 DEF ItemLife
<1>3. pool.shutdown \in BOOLEAN
  BY DEF BaseInv, Shape, PoolRec
<1> QED BY <1>1, <1>2, <1>3 DEF LateInv

(* Steps that leave the number of objects, and the pool open or closed. *)
LEMMA LateQuiet ==
  ASSUME BaseInv, CoreInv, CountInv, CountInv', ItemsStep, LateInv, program' = program,
         pool'.objcount <= pool.objcount, pool'.shutdown = pool.shutdown,
         SubQuiet \/ pool.shutdown = FALSE
  PROVE  LateInv'
<1>1. \A o \in Objects : obj[o].life = "none" => obj'[o].life = "none"
  BY NoBirth
<1>2. \A o \in Objects \ program'.objects : obj'[o].life = "none"
  BY <1>1 DEF LateInv
<1>3. ASSUME pool'.shutdown = TRUE
      PROVE  /\ Can("releasepool")'
             /\ \A o \in Objects : Type[o] # "simple" => ItemLife(obj'[o]) # "open"
             /\ \A t \in Callers : caller'[t].pc # "submit"
  <2>1. pool.shutdown = TRUE
    BY <1>3
  <2>2. Can("releasepool")'
    BY <2>1 DEF LateInv, Can
  <2>3. \A o \in Objects : Type[o] # "simple" => ItemLife(obj'[o]) # "open"
    BY <1>1, <2>1, NotOpened DEF LateInv
  <2>4. \A t \in Callers : caller'[t].pc # "submit"
    BY <2>1 DEF LateInv, SubQuiet
  <2> QED BY <2>2, <2>3, <2>4
<1> QED BY <1>2, <1>3 DEF LateInv

(* The pool is released: the program has nothing open any more. *)
LEMMA LateClose ==
  ASSUME NoIoAfterRelease, program \in Programs, BaseInv, CoreInv, LateInv, program' = program, CloseStep
  PROVE  LateInv'
<1>1. /\ obj' = obj /\ caller' = caller /\ Can("releasepool")
      /\ (\A o \in Objects : obj[o].owner = "none") /\ \A t \in Callers : caller[t].pc # "submit"
  BY DEF CloseStep
<1>2. ASSUME NEW o \in Objects, Type[o] # "simple" PROVE ItemLife(obj[o]) # "open"
  <2>1. SUFFICES ASSUME ItemLife(obj[o]) = "open" PROVE FALSE
    OBVIOUS
  <2>2. Known(o)
    BY <1>2, KnownIs
  <2>3. obj[o].life = "live" /\ obj[o].shutdown = FALSE
    <3>1. /\ obj[o].life \in {"none", "live", "dying", "gone"} /\ obj[o].shutdown \in BOOLEAN
          /\ obj[o].life = "dying" => obj[o].shutdown = TRUE
      BY <1>2, <2>2, ItemFacts DEF Known
    <3> QED BY <2>1, <3>1 DEF ItemLife
  <2>4. Type[o] = "io"
    BY <1>1, <1>2, <2>2, <2>3 DEF Known, ObjOK, LivePart
  <2>5. o \in program.objects /\ o \in Ios
    BY <1>2, <2>3, <2>4, KindsOfObjects DEF LateInv
  <2>6. program.objects \cap Ios = {}
    BY <1>1 DEF NoIoAfterRelease, Can
  <2> QED BY <2>5, <2>6
<1> QED BY <1>1, <1>2 DEF LateInv, Can

(* An object is allocated. *)
LEMMA LateOpen ==
  ASSUME LateInv, program' = program, OpenStep
  PROVE  LateInv'
<1>1. PICK o \in program.objects : KeptObj(o)
  BY DEF OpenStep
<1>2. \A x \in Objects \ program'.objects : obj'[x].life = "none"
  BY <1>1 DEF KeptObj, LateInv
<1>3. pool'.shutdown = FALSE
  BY DEF OpenStep
<1> QED BY <1>2, <1>3 DEF LateInv

(* After any step. *)
LEMMA LateStep ==
  ASSUME NoIoAfterRelease, program \in Programs, BaseInv, CoreInv, CountInv, CountInv', LateInv, ItemsStep,
         program' = program,
         Gentle \/ TakeStep \/ IdleStep \/ SubmitStep \/ OpenStep \/ ZeroStep \/ CloseStep
  PROVE  LateInv'
<1>0. Shape /\ pool.objcount \in Int
  BY DEF BaseInv, Shape, PoolRec
<1>1. CASE Gentle
  BY <1>1, LateQuiet DEF Gentle, PoolQuiet
<1>2. CASE TakeStep
  <2>1. pool'.objcount = pool.objcount /\ pool'.shutdown = pool.shutdown /\ caller' = caller
    BY <1>2 DEF TakeStep
  <2> QED BY <1>0, <2>1, CallStill, LateQuiet
<1>3. CASE IdleStep
  <2>1. pool'.objcount = pool.objcount /\ pool'.shutdown = pool.shutdown /\ caller' = caller
    BY <1>3, IdleDoes DEF IdleDone
  <2> QED BY <1>0, <2>1, CallStill, LateQuiet
<1>4. CASE SubmitStep
  BY <1>0, <1>4, LateQuiet DEF SubmitStep
<1>5. CASE OpenStep
  BY <1>5, LateOpen
<1>6. CASE ZeroStep
  <2>1. pool' = pool /\ \E o \in Objects : Usable(o)
    BY <1>6 DEF ZeroStep
  <2>2. pool.shutdown = FALSE
    BY <2>1, UsedInTime
  <2>3. pool'.objcount <= pool.objcount /\ pool'.shutdown = pool.shutdown
    BY <1>0, <2>1
  <2> QED BY <2>2, <2>3, LateQuiet
<1>7. CASE CloseStep
  BY <1>7, LateClose
<1> QED BY <1>1, <1>2, <1>3, <1>4, <1>5, <1>6, <1>7

(* The callbacks that are due, and the workers that will look for them. *)
Jobs == {j \in Objects \X Nat : j[2] < obj[j[1]].pending}
Up == {w \in Workers : worker[w].pc \in {"run", "timedout"}}

(* While anything is bound or due there is a worker; while one sleeps,      *)
(* there is one on its way for each callback that is due.                   *)
Manned == (pool.objcount > 0 /\ pool.shutdown = FALSE) \/ ~NoneDue => pool.num_workers > 0
JobsOK == IsFiniteSet(Jobs) /\ (Sleepers # {} => Cardinality(Jobs) <= Cardinality(Up))
StaffInv == Manned /\ JobsOK

(* Up is finite. *)
LEMMA UpIs == IsFiniteSet(Up) /\ Cardinality(Up) \in Nat
<1>1. IsFiniteSet(Workers) /\ Up \subseteq Workers
  BY PoolConstants DEF Up
<1> QED BY <1>1, FS_Subset, FS_CardinalityType

(* Less is due, and no worker that was up is not. *)
LEMMA JobsFall ==
  ASSUME Shape, Shape', JobsOK, PendFalls, WorkQuiet
  PROVE  JobsOK'
<1>1. Jobs' \subseteq Jobs
  <2>1. ASSUME NEW o \in Objects, NEW n \in Nat, n < obj'[o].pending PROVE n < obj[o].pending
    <3>1. obj[o].pending \in Int /\ obj'[o].pending \in Int
      BY DEF Shape, ObjRec
    <3>2. obj'[o].pending <= obj[o].pending
      BY DEF PendFalls
    <3> QED BY <2>1, <3>1, <3>2
  <2> QED BY <2>1 DEF Jobs
<1>2. Up \subseteq Up' /\ Sleepers' \subseteq Sleepers
  BY DEF Up, Sleepers, WorkQuiet, WorkUp
<1>3. PICK J, K, U, V : J = Jobs /\ K = Jobs' /\ U = Up /\ V = Up'
  OBVIOUS
<1>4. IsFiniteSet(J) /\ K \subseteq J
  BY <1>1, <1>3 DEF JobsOK
<1>5. IsFiniteSet(K) /\ Cardinality(K) <= Cardinality(J) /\ Cardinality(K) \in Nat /\ Cardinality(J) \in Nat
  BY <1>4, FS_Subset, FS_CardinalityType
<1>6. IsFiniteSet(Workers) /\ V \subseteq Workers /\ U \subseteq V
  BY <1>2, <1>3, PoolConstants DEF Up
<1>7. IsFiniteSet(V) /\ Cardinality(U) <= Cardinality(V) /\ Cardinality(U) \in Nat /\ Cardinality(V) \in Nat
  BY <1>6, FS_Subset, FS_CardinalityType
<1>8. Sleepers # {} => Cardinality(J) <= Cardinality(U)
  BY <1>3 DEF JobsOK
<1>9. Sleepers' # {} => Cardinality(K) <= Cardinality(V)
  BY <1>2, <1>5, <1>7, <1>8
<1> QED BY <1>3, <1>5, <1>9 DEF JobsOK

(* A worker takes a callback. *)
LEMMA JobsTake ==
  ASSUME BaseInv, BaseInv', CoreInv, JobsOK, TakeStep
  PROVE  JobsOK' /\ PendFalls
<1>0. Shape /\ Shape'
  BY DEF BaseInv
<1>1. PICK w \in Workers, o \in Objects :
        /\ worker[w].pc = "run" /\ worker'[w].pc = "callback"
        /\ \A x \in Workers \ {w} : worker'[x] = worker[x]
        /\ KeptObj(o) /\ obj[o].pending > 0 /\ obj'[o].pending = obj[o].pending - 1
  BY DEF TakeStep
<1>2. PICK n \in Nat : n = obj[o].pending - 1
  <2>1. obj[o].pending \in Nat
    BY <1>0, DueIs
  <2> QED BY <1>1, <2>1
<1>3. obj[o].pending = n + 1 /\ obj'[o].pending = n /\ \A x \in Objects \ {o} : obj'[x] = obj[x]
  <2>1. obj[o].pending \in Int
    BY <1>0, PendingIs
  <2> QED BY <1>1, <1>2, <2>1 DEF KeptObj
<1>4. <<o, n>> \in Jobs
  BY <1>3 DEF Jobs
<1>5. Jobs' = Jobs \ {<<o, n>>}
  <2>1. ASSUME NEW x \in Objects, NEW k \in Nat
        PROVE  k < obj'[x].pending <=> k < obj[x].pending /\ <<x, k>> # <<o, n>>
    <3>1. CASE x = o
      BY <1>3, <3>1
    <3>2. CASE x # o
      BY <1>3, <3>2
    <3> QED BY <3>1, <3>2
  <2>2. ASSUME NEW j \in Objects \X Nat
        PROVE  j \in Jobs' <=> j \in Jobs \ {<<o, n>>}
    <3>1. PICK x \in Objects, k \in Nat : j = <<x, k>>
      OBVIOUS
    <3>2. j[1] = x /\ j[2] = k
      BY <3>1
    <3> QED BY <2>1, <3>1, <3>2 DEF Jobs
  <2> QED BY <2>2 DEF Jobs
<1>6. w \in Up /\ Up' = Up \ {w} /\ Sleepers' = Sleepers
  BY <1>1 DEF Up, Sleepers
<1>7. PICK J, K, U, V : J = Jobs /\ K = Jobs' /\ U = Up /\ V = Up'
  OBVIOUS
<1>8. IsFiniteSet(J) /\ <<o, n>> \in J /\ K = J \ {<<o, n>>}
  BY <1>4, <1>5, <1>7 DEF JobsOK
<1>9. IsFiniteSet(K) /\ Cardinality(K) = Cardinality(J) - 1 /\ Cardinality(J) \in Nat
  BY <1>8, FS_RemoveElement, FS_CardinalityType
<1>10. IsFiniteSet(U) /\ w \in U /\ V = U \ {w}
  BY <1>6, <1>7, UpIs
<1>11. Cardinality(V) = Cardinality(U) - 1 /\ Cardinality(U) \in Nat
  BY <1>10, FS_RemoveElement, FS_CardinalityType
<1>12. Sleepers # {} => Cardinality(J) <= Cardinality(U)
  BY <1>7 DEF JobsOK
<1>13. Sleepers' # {} => Cardinality(K) <= Cardinality(V)
  BY <1>6, <1>9, <1>11, <1>12
<1>14. JobsOK'
  BY <1>7, <1>9, <1>13 DEF JobsOK
<1>15. PendFalls
  <2>1. KeptObj(o) /\ obj'[o].pending <= obj[o].pending
    BY <1>1, <1>3
  <2> QED BY <1>0, <2>1, FallsOne
<1> QED BY <1>14, <1>15

(* A callback is submitted. *)
LEMMA JobsSubmit ==
  ASSUME BaseInv, BaseInv', CoreInv, JobsOK, SubmitStep
  PROVE  JobsOK'
<1>0. Shape /\ Shape'
  BY DEF BaseInv
<1>1. PICK o \in Objects : ItemSubmits(o, obj[o], CN(o), obj'[o]) /\ KeptObj(o)
  BY DEF SubmitStep
<1>2. PICK n \in Nat : n = obj[o].pending
  BY <1>0, DueIs
<1>3. obj'[o].pending = n + 1 /\ \A x \in Objects \ {o} : obj'[x] = obj[x]
  BY <1>1, <1>2 DEF KeptObj, ItemSubmits
<1>4. Jobs' = Jobs \cup {<<o, n>>}
  <2>1. ASSUME NEW x \in Objects, NEW k \in Nat
        PROVE  k < obj'[x].pending <=> k < obj[x].pending \/ <<x, k>> = <<o, n>>
    <3>1. CASE x = o
      BY <1>2, <1>3, <3>1
    <3>2. CASE x # o
      BY <1>3, <3>2
    <3> QED BY <3>1, <3>2
  <2>2. ASSUME NEW j \in Objects \X Nat
        PROVE  j \in Jobs' <=> j \in Jobs \cup {<<o, n>>}
    <3>1. PICK x \in Objects, k \in Nat : j = <<x, k>>
      OBVIOUS
    <3>2. j[1] = x /\ j[2] = k
      BY <3>1
    <3> QED BY <2>1, <3>1, <3>2 DEF Jobs
  <2>3. <<o, n>> \in Objects \X Nat /\ Jobs \subseteq Objects \X Nat /\ Jobs' \subseteq Objects \X Nat
    BY DEF Jobs
  <2> QED BY <2>2, <2>3
<1>5. <<o, n>> \notin Jobs
  BY <1>2 DEF Jobs
<1>6. PICK J, K, U, V : J = Jobs /\ K = Jobs' /\ U = Up /\ V = Up'
  OBVIOUS
<1>7. IsFiniteSet(J) /\ <<o, n>> \notin J /\ K = J \cup {<<o, n>>}
  BY <1>4, <1>5, <1>6 DEF JobsOK
<1>8. IsFiniteSet(K) /\ Cardinality(K) = Cardinality(J) + 1 /\ Cardinality(J) \in Nat
  BY <1>7, FS_AddElement, FS_CardinalityType
<1>9. WorkQuiet /\ (Sleepers = {} \/ \E w \in Workers : worker[w].pc \notin {"run", "timedout"} /\ worker'[w].pc = "run")
  BY DEF SubmitStep
<1>10. Sleepers' \subseteq Sleepers /\ U \subseteq V
  BY <1>6, <1>9 DEF Sleepers, Up, WorkQuiet, WorkUp
<1>11. CASE Sleepers = {}
  BY <1>6, <1>8, <1>10, <1>11 DEF JobsOK
<1>12. CASE Sleepers # {}
  <2>1. PICK w \in Workers : worker[w].pc \notin {"run", "timedout"} /\ worker'[w].pc = "run"
    BY <1>9, <1>12
  <2>2. w \notin U /\ w \in V
    BY <1>6, <2>1 DEF Up
  <2>3. IsFiniteSet(Workers) /\ V \subseteq Workers
    BY <1>6, PoolConstants DEF Up
  <2>4. IsFiniteSet(V) /\ IsFiniteSet(U) /\ Cardinality(V) \in Nat /\ Cardinality(U) \in Nat
    BY <1>10, <2>3, FS_Subset, FS_CardinalityType
  <2>5. Cardinality(U \cup {w}) = Cardinality(U) + 1 /\ U \cup {w} \subseteq V
    BY <1>10, <2>2, <2>4, FS_AddElement
  <2>6. Cardinality(U \cup {w}) <= Cardinality(V)
    BY <2>4, <2>5, FS_Subset
  <2>7. Cardinality(J) <= Cardinality(U)
    BY <1>6, <1>12 DEF JobsOK
  <2>8. Cardinality(K) <= Cardinality(V)
    BY <1>8, <2>4, <2>5, <2>6, <2>7
  <2> QED BY <1>6, <1>8, <2>8 DEF JobsOK
<1> QED BY <1>11, <1>12

(* Nothing is due: there are no jobs. *)
LEMMA NoJobs ==
  ASSUME NoneDue, obj' = obj
  PROVE  JobsOK'
<1>1. Jobs' = {}
  <2>1. ASSUME NEW o \in Objects, NEW n \in Nat, n < obj'[o].pending PROVE FALSE
    BY <2>1 DEF NoneDue
  <2> QED BY <2>1 DEF Jobs
<1>2. PICK V : V = Up'
  OBVIOUS
<1>3. IsFiniteSet(Workers) /\ V \subseteq Workers
  BY <1>2, PoolConstants DEF Up
<1>4. Cardinality(V) \in Nat
  BY <1>3, FS_Subset, FS_CardinalityType
<1>5. IsFiniteSet({}) /\ Cardinality({}) = 0
  BY FS_EmptySet
<1>6. Cardinality({}) <= Cardinality(V)
  BY <1>4, <1>5
<1> QED BY <1>1, <1>2, <1>5, <1>6 DEF JobsOK

(* A worker finds nothing to do. *)
LEMMA StaffIdle ==
  ASSUME BaseInv, CoreInv, HoldInv, StaffInv, IdleStep
  PROVE  StaffInv'
<1>0. Shape /\ pool.num_workers \in Int /\ pool.objcount \in Int
  BY DEF BaseInv, Shape, PoolRec
<1>1. PICK w \in Workers : \E r : IdleDone(w, r)
  BY IdleDoes
<1>2. PICK r : IdleDone(w, r)
  BY <1>1
<1>3. /\ worker' = [worker EXCEPT ![w] = r] /\ pool'.objcount = pool.objcount
      /\ pool'.shutdown = pool.shutdown /\ obj' = obj
  BY <1>2 DEF IdleDone
<1>4. NoneDue' <=> NoneDue
  BY <1>3 DEF NoneDue
<1>5. CASE IdleLeave(w, r)
  <2>1. /\ NoneDue /\ pool'.num_workers = pool.num_workers - 1
        /\ pool.shutdown = TRUE \/ pool.num_workers > 1 \/ pool.objcount = 0
    BY <1>5 DEF IdleLeave
  <2>2. Manned'
    BY <1>0, <1>3, <1>4, <2>1 DEF Manned
  <2> QED BY <1>3, <2>1, <2>2, NoJobs DEF StaffInv
<1>6. CASE IdleLook(w, r) \/ IdleSleep(w, r)
  <2>1. NoneDue /\ pool'.num_workers = pool.num_workers
    BY <1>6 DEF IdleLook, IdleSleep, HoldInv, CheckHolds
  <2>2. Manned'
    BY <1>3, <1>4, <2>1 DEF StaffInv, Manned
  <2> QED BY <1>3, <2>1, <2>2, NoJobs DEF StaffInv
<1>7. CASE IdleBack(w, r)
  <2>1. worker[w].pc = "timedout" /\ r.pc = "run" /\ pool'.num_workers = pool.num_workers
    BY <1>7 DEF IdleBack
  <2>2. Manned'
    BY <1>3, <1>4, <2>1 DEF StaffInv, Manned
  <2>3. worker'[w] = r /\ \A x \in Workers \ {w} : worker'[x] = worker[x]
    BY <1>0, <1>3 DEF Shape
  <2>4. Up' = Up /\ Sleepers' = Sleepers /\ Jobs' = Jobs
    BY <1>3, <2>1, <2>3 DEF Up, Sleepers, Jobs
  <2>5. JobsOK'
    BY <2>4 DEF StaffInv, JobsOK
  <2> QED BY <2>2, <2>5 DEF StaffInv
<1> QED BY <1>2, <1>5, <1>6, <1>7 DEF IdleDone

(* Less is due, and no fewer workers: the invariant stays. *)
LEMMA StaffQuiet ==
  ASSUME Shape, Shape', CoreInv', StaffInv, PendFalls, WorkQuiet,
         pool'.num_workers >= pool.num_workers,
         pool'.num_workers > 0
           \/ (pool'.objcount <= pool.objcount /\ (pool'.shutdown = FALSE => pool.shutdown = FALSE))
  PROVE  StaffInv'
<1>0. /\ pool.num_workers \in Int /\ pool.objcount \in Int
      /\ pool'.num_workers \in Int /\ pool'.objcount \in Int
  BY DEF Shape, PoolRec
<1>1. JobsOK'
  BY JobsFall DEF StaffInv
<1>2. NoneDue => NoneDue'
  BY NoneStays
<1>3. Manned'
  BY <1>0, <1>2 DEF StaffInv, Manned
<1> QED BY <1>1, <1>3 DEF StaffInv

(* After any step. *)
LEMMA StaffStep ==
  ASSUME BaseInv, BaseInv', CoreInv, CoreInv', CountInv, HoldInv, LateInv, StaffInv,
         Gentle \/ TakeStep \/ IdleStep \/ SubmitStep \/ OpenStep \/ ZeroStep \/ CloseStep
  PROVE  StaffInv'
<1>0. /\ Shape /\ Shape' /\ pool.num_workers \in Int /\ pool.objcount \in Int
      /\ pool'.num_workers \in Int /\ pool'.objcount \in Int
  BY DEF BaseInv, Shape, PoolRec
<1>1. CASE Gentle
  BY <1>0, <1>1, StaffQuiet DEF Gentle, PoolQuiet
<1>2. CASE OpenStep
  BY <1>0, <1>2, StaffQuiet DEF OpenStep
<1>3. CASE TakeStep
  <2>1. JobsOK' /\ PendFalls
    BY <1>3, JobsTake DEF StaffInv
  <2>2. NoneDue => NoneDue'
    BY <1>0, <2>1, NoneStays
  <2>3. /\ pool'.num_workers = pool.num_workers /\ pool'.objcount = pool.objcount
        /\ pool'.shutdown = pool.shutdown
    BY <1>3 DEF TakeStep
  <2> QED BY <2>1, <2>2, <2>3 DEF StaffInv, Manned
<1>4. CASE IdleStep
  BY <1>4, StaffIdle
<1>5. CASE SubmitStep
  <2>1. JobsOK'
    BY <1>5, JobsSubmit DEF StaffInv
  <2>2. PICK o \in Objects : ItemSubmits(o, obj[o], CN(o), obj'[o])
    BY <1>5 DEF SubmitStep
  <2>3. pool.shutdown = FALSE /\ obj[o].life = "live"
    BY <2>2, SubmitsInTime DEF ItemSubmits
  <2>4. pool.objcount > 0
    BY <1>0, <2>3, PoolAlive DEF CountInv, Alive
  <2>5. pool.num_workers > 0
    BY <2>3, <2>4 DEF StaffInv, Manned
  <2>6. pool'.num_workers > 0
    BY <1>0, <1>5, <2>5 DEF SubmitStep
  <2> QED BY <2>1, <2>6 DEF StaffInv, Manned
<1>6. CASE ZeroStep
  <2>1. /\ pool'.num_workers = pool.num_workers /\ pool'.objcount = pool.objcount
        /\ pool'.shutdown = pool.shutdown /\ obj' = obj /\ worker' = worker
    BY <1>6 DEF ZeroStep
  <2>2. PendFalls /\ WorkQuiet
    BY <1>0, <2>1, PendingIs, WorkUpStill DEF PendFalls
  <2>3. /\ pool'.num_workers >= pool.num_workers /\ pool'.objcount <= pool.objcount
        /\ pool'.shutdown = FALSE => pool.shutdown = FALSE
    BY <1>0, <2>1
  <2> QED BY <1>0, <2>2, <2>3, StaffQuiet
<1>7. CASE CloseStep
  <2>1. /\ pool'.num_workers = pool.num_workers /\ pool'.objcount = pool.objcount
        /\ pool.shutdown = FALSE /\ obj' = obj /\ WorkQuiet
    BY <1>7 DEF CloseStep
  <2>2. PendFalls
    BY <1>0, <2>1, PendingIs DEF PendFalls
  <2>3. /\ pool'.num_workers >= pool.num_workers /\ pool'.objcount <= pool.objcount
        /\ pool'.shutdown = FALSE => pool.shutdown = FALSE
    BY <1>0, <2>1
  <2> QED BY <1>0, <2>1, <2>2, <2>3, StaffQuiet
<1> QED BY <1>1, <1>2, <1>3, <1>4, <1>5, <1>6, <1>7

(* Before the first step. *)
LEMMA StaffInit == Init => HoldInv /\ LateInv /\ StaffInv
<1> SUFFICES ASSUME Init PROVE HoldInv /\ LateInv /\ StaffInv
  OBVIOUS
<1>1. /\ \A o \in Objects : obj[o] = NoObject
      /\ \A w \in Workers : worker[w].pc = "none"
      /\ \A t \in Callers : caller[t].pc = "idle"
      /\ pool.shutdown = FALSE /\ pool.objcount = 0
  BY DEF Init, PoolInit, NoWorker, Idle, tp_threadpool_alloc
<1>2. ioq.pc # "again"
  BY DEF Init, IoInit
<1>3. \A o \in Objects : obj[o].life = "none" /\ obj[o].pending = 0
  BY <1>1 DEF NoObject
<1>4. HoldInv
  BY <1>1, <1>2 DEF HoldInv, AgainHolds, CheckHolds
<1>5. LateInv
  BY <1>1, <1>3 DEF LateInv
<1>6. NoneDue
  BY <1>3 DEF NoneDue
<1>7. Manned
  BY <1>1, <1>6 DEF Manned
<1>8. Jobs = {} /\ Sleepers = {}
  <2>1. ASSUME NEW o \in Objects, NEW n \in Nat, n < obj[o].pending PROVE FALSE
    BY <1>3, <2>1
  <2> QED BY <1>1, <2>1 DEF Jobs, Sleepers
<1>9. JobsOK
  BY <1>8, FS_EmptySet DEF JobsOK
<1> QED BY <1>4, <1>5, <1>7, <1>9 DEF StaffInv

(* What holds of the workers in every state. *)
WorkInv == BaseInv /\ CoreInv /\ CountInv /\ program \in Programs /\ HoldInv /\ LateInv /\ StaffInv

(* The invariant of the workers, for programs that release the pool only    *)
(* when nothing can still complete.                                         *)
LEMMA WorkAlways == NoIoAfterRelease => (Spec => []WorkInv)
<1> DEFINE C == BaseInv /\ CoreInv /\ CountInv /\ program \in Programs
<1> DEFINE H == HoldInv /\ LateInv /\ StaffInv
<1>1. Init => H
  BY StaffInit
<1>2. NoIoAfterRelease /\ C /\ C' /\ H /\ [Next]_vars => H'
  <2> SUFFICES ASSUME NoIoAfterRelease, C, C', H, [Next]_vars PROVE H'
    OBVIOUS
  <2>1. program' = program
    BY NextOK
  <2>2. Gentle \/ TakeStep \/ IdleStep \/ SubmitStep \/ OpenStep \/ ZeroStep \/ CloseStep
    BY StepDoes DEF HoldInv
  <2>3. ItemsStep
    BY ItemsNext
  <2>4. HoldInv'
    BY <2>2, HoldStep
  <2>5. LateInv'
    BY <2>1, <2>2, <2>3, LateStep
  <2>6. StaffInv'
    BY <2>2, StaffStep
  <2> QED BY <2>4, <2>5, <2>6
<1>3. Spec => []C
  BY CountAlways
<1>4. C /\ H <=> WorkInv
  BY DEF WorkInv
<1> HIDE DEF C, H
<1>5. ASSUME NoIoAfterRelease PROVE C /\ C' /\ H /\ [Next]_vars => H'
  BY <1>2, <1>5
<1>6. NoIoAfterRelease => [](NoIoAfterRelease)
  OBVIOUS
<1> QED BY <1>1, <1>2, <1>3, <1>4, <1>6, PTL DEF Spec

(* The invariant of the workers gives what the pool promises. *)
LEMMA ItemsHaveWorkersIf ==
  ASSUME WorkInv
  PROVE  ItemsHaveWorkers
<1>0. /\ Shape /\ CoreInv /\ Manned /\ JobsOK
      /\ pool.num_workers \in Int /\ pool.shutdown \in BOOLEAN
  BY DEF WorkInv, BaseInv, Shape, PoolRec, StaffInv
<1>1. Waiting <=> ~NoneDue
  BY <1>0, DueIs
<1>2. ASSUME (pool.objcount > 0 /\ ~pool.shutdown) \/ Waiting
      PROVE  \E w \in Workers : worker[w].pc \notin {"none", "leave"}
  <2>1. pool.num_workers > 0
    BY <1>0, <1>1, <1>2 DEF Manned
  <2>2. pool.num_workers = StayW
    BY DEF WorkInv, CountInv, PoolBal, PoolOK
  <2>3. IsFiniteSet(Workers) /\ DOMAIN worker = Workers
    BY <1>0, PoolConstants DEF Shape
  <2>4. PICK A : A = {r \in WorkerSet : r.pc \notin {"none", "leave"}}
    OBVIOUS
  <2>5. Cnt(worker, A) > 0
    BY <2>1, <2>2, <2>4 DEF StayW
  <2>6. Cnt(worker, A) = 0 <=> \A x \in Workers : worker[x] \notin A
    BY <2>3, CntSome
  <2>7. PICK w \in Workers : worker[w] \in A
    BY <2>5, <2>6
  <2> QED BY <2>4, <2>7
<1>3. ASSUME Waiting, Sleepers # {}
      PROVE  \E w \in Workers : worker[w].pc \in {"run", "timedout"}
  <2>1. PICK o \in Objects : obj[o].pending # 0
    BY <1>1, <1>3 DEF NoneDue
  <2>2. obj[o].pending \in Nat
    BY <1>0, DueIs
  <2>3. <<o, 0>> \in Jobs
    BY <2>1, <2>2 DEF Jobs
  <2>4. PICK J, U : J = Jobs /\ U = Up
    OBVIOUS
  <2>5. IsFiniteSet(J) /\ J # {} /\ Cardinality(J) <= Cardinality(U) /\ IsFiniteSet(U)
    BY <1>0, <1>3, <2>3, <2>4, UpIs DEF JobsOK
  <2>6. Cardinality(J) \in Nat /\ Cardinality(U) \in Nat /\ Cardinality(J) # 0
    BY <2>5, FS_CardinalityType, FS_EmptySet
  <2>7. U # {}
    BY <2>5, <2>6, FS_EmptySet
  <2> QED BY <2>4, <2>7 DEF Up
<1> QED BY <1>2, <1>3 DEF ItemsHaveWorkers, LastWorkerStays, NoSleepOverWork

(* "It is guaranteed that there is at least one worker thread": while       *)
(* objects are bound to the pool or callbacks are due, a worker stays; and  *)
(* while one sleeps over a callback that is due, another is on its way,     *)
(* time-outs of workers, limits and the release of the pool not withstand-  *)
(* ing.  For programs that do not use I/O and release the pool as well.     *)
THEOREM ItemsDoHaveWorkers == NoIoAfterRelease => (Spec => []ItemsHaveWorkers)
<1>1. WorkInv => ItemsHaveWorkers
  BY ItemsHaveWorkersIf
<1> QED BY <1>1, WorkAlways, PTL

(* Who submits finds object and pool alive, and neither shut down. *)
LEMMA SubmitsLiveIf ==
  ASSUME WorkInv, ItemsStep, NEW o \in Objects, obj'[o].pending > obj[o].pending
  PROVE  obj[o].life = "live" /\ ~obj[o].shutdown /\ pool.life = "live" /\ ~pool.shutdown
<1>0. /\ BaseInv /\ Shape /\ CoreInv /\ CountInv /\ LateInv /\ pool.life \in {"live", "gone"}
  BY DEF WorkInv, BaseInv, Shape, PoolRec
<1>1. obj[o].pending \in Nat
  BY <1>0, DueIs
<1>2. ItemSubmits(o, obj[o], CN(o), obj'[o])
  <2>1. ~ItemSame(obj[o], obj'[o])
    BY <1>1 DEF ItemSame
  <2>2. \A x \in Objects : KeptObj(x) => x = o
    BY <1>1 DEF KeptObj
  <2>3. ItemMove(o, obj[o], CN(o), obj'[o])
    BY <2>1, <2>2 DEF ItemsStep
  <2>4. /\ ~ItemFinishes(obj[o], obj'[o]) /\ ~ItemStarts(obj[o], obj'[o]) /\ ~ItemCancels(obj[o], obj'[o])
        /\ ~ItemCloses(obj[o], obj'[o]) /\ ~ItemFrees(obj[o], obj'[o])
    BY <1>1 DEF ItemFinishes, ItemStarts, ItemCancels, ItemCloses, ItemFrees
  <2>5. ~ItemOpens(obj[o], obj'[o])
    BY <1>1 DEF ItemOpens
  <2> QED BY <2>1, <2>3, <2>4, <2>5 DEF ItemMove
<1>3. obj[o].life = "live" /\ obj[o].shutdown = FALSE
  BY <1>2 DEF ItemSubmits
<1>4. pool.shutdown = FALSE
  BY <1>0, <1>2, SubmitsInTime
<1>5. pool.life # "gone"
  <2>1. PoolBal
    BY <1>0 DEF CountInv
  <2>2. pool.refcount \in Nat /\ pool.refcount > 0 /\ (pool.life = "gone" <=> pool.refcount = 0)
    BY <1>0, <1>4, <2>1, PoolAlive
  <2> QED BY <2>2
<1> QED BY <1>0, <1>3, <1>4, <1>5

(* The assertions of tp_object_submit: whoever submits, a caller, a call-   *)
(* back or a service thread, finds the object alive and neither it nor the  *)
(* pool shut down.  For programs that do not use I/O and release the pool.  *)
THEOREM SubmitsAreLive == NoIoAfterRelease => (Spec => SubmitsOnlyLive)
<1>1. WorkInv /\ WorkInv' /\ [Next]_vars =>
        [\A o \in Objects : obj'[o].pending > obj[o].pending =>
           obj[o].life = "live" /\ ~obj[o].shutdown /\ pool.life = "live" /\ ~pool.shutdown]_vars
  <2> SUFFICES ASSUME WorkInv, WorkInv', [Next]_vars, NEW o \in Objects, obj'[o].pending > obj[o].pending
               PROVE  obj[o].life = "live" /\ ~obj[o].shutdown /\ pool.life = "live" /\ ~pool.shutdown
    OBVIOUS
  <2>1. ItemsStep
    BY ItemsNext DEF WorkInv
  <2> QED BY <2>1, SubmitsLiveIf
<1> QED BY <1>1, WorkAlways, PTL DEF Spec, SubmitsOnlyLive
=============================================================================
