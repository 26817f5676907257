-------------------------- MODULE PoolObjectProofs --------------------------
(***************************************************************************)
(* The steps of the thread pool and what they keep, for any finite sets of *)
(* objects and threads: the record of each object agrees with the workers  *)
(* that run it, the callers and service threads that keep it and the       *)
(* packets that are on their way to it (CoreInv); and the counts of the    *)
(* pool, the cleanup group and the I/O queue balance (CountInv), for the   *)
(* workers and the calls on an object.                                     *)
(***************************************************************************)
EXTENDS PoolQueueProofs

-----------------------------------------------------------------------------
(* What a step leaves alone. *)

KeptObj(o) == \A x \in Objects \ {o} : obj'[x] = obj[x]
KeptWork(o) == \A x \in Objects \ {o} : WN(x)' = WN(x)
KeptCall(o) == \A x \in Objects \ {o} : CN(x)' = CN(x)
KeptHold(o) == \A x \in Objects \ {o} : HN(x)' = HN(x)
KeptPort(o) == \A x \in Objects \ {o} : PN(x)' = PN(x)
KeptServ(o) == \A x \in Objects \ {o} : InService(x)' = InService(x)

(* Only o changes. *)
Kept(o) ==
    /\ KeptObj(o) /\ KeptWork(o) /\ KeptCall(o) /\ KeptHold(o) /\ KeptPort(o) /\ KeptServ(o)

(* What is known of o after the step is what is known of the others still. *)
LEMMA OneGood ==
  ASSUME ObjInv, NEW o, Kept(o), o \in Objects => Good(o)'
  PROVE  ObjInv'
<1> SUFFICES ASSUME NEW x \in Objects PROVE Good(x)'
  BY DEF ObjInv
<1>1. CASE x = o
  BY <1>1
<1>2. CASE x # o
  <2>1. /\ obj'[x] = obj[x] /\ WN(x)' = WN(x) /\ CN(x)' = CN(x) /\ HN(x)' = HN(x)
        /\ PN(x)' = PN(x) /\ InService(x)' = InService(x)
    BY <1>2 DEF Kept, KeptObj, KeptWork, KeptCall, KeptHold, KeptPort, KeptServ
  <2>2. ObjOK(x, obj[x], WN(x), CN(x), HN(x), PN(x), InService(x))
    BY DEF ObjInv, Good
  <2>3. ObjOK(x, obj'[x], WN(x)', CN(x)', HN(x)', PN(x)', InService(x)')
    BY <2>1, <2>2
  <2> QED
    BY <2>3 DEF Good
<1> QED
  BY <1>1, <1>2

(* The numbers of an object are numbers. *)
LEMMA GoodTyped ==
  ASSUME Shape, IoShape, ObjInv, NEW o \in Objects
  PROVE  /\ Typed(obj[o], WN(o), CN(o), HN(o), PN(o), InService(o))
         /\ ObjOK(o, obj[o], WN(o), CN(o), HN(o), PN(o), InService(o))
         /\ obj[o] \in ObjRec /\ WN(o) \in WNum /\ CN(o) \in CNum /\ HN(o) \in Nat
         /\ PN(o) \in PNum /\ InService(o) \in BOOLEAN
<1>1. obj[o] \in ObjRec /\ worker \in [Workers -> WorkerSet] /\ caller \in [Callers -> CallerSet]
  BY DEF Shape
<1>2. WN(o) \in WNum
  BY <1>1, WorkNums DEF WN, WNum
<1>3. CN(o) \in CNum
  <2>1. DOMAIN caller = Callers /\ IsFiniteSet(Callers)
    BY <1>1, PoolConstants
  <2>2. \A A : Cnt(caller, A) \in Nat
    BY <2>1, CntSome
  <2> QED
    BY <2>2 DEF CN, CNum
<1>4. HN(o) \in Nat
  BY HeldFinite
<1>5. PN(o) \in PNum
  BY PacketNums DEF PN, IoShape
<1>6. InService(o) \in BOOLEAN
  BY DEF InService
<1>7. ObjOK(o, obj[o], WN(o), CN(o), HN(o), PN(o), InService(o))
  BY DEF ObjInv, Good
<1> QED
  BY <1>1, <1>2, <1>3, <1>4, <1>5, <1>6, <1>7 DEF Typed

(* A worker goes on that does not have o in hand. *)
LEMMA WorkOnly ==
  ASSUME Shape, Shape', NEW w \in Workers, \A x \in Workers \ {w} : SameWork(worker[x], worker'[x]),
         NEW o, ~Handles1(worker[w], o), ~Handles1(worker'[w], o)
  PROVE  WN(o)' = WN(o)
<1>1. DOMAIN worker = Workers /\ DOMAIN worker' = Workers
  BY DEF Shape
<1>2. \A x \in Workers : worker[x] \in WorkerSet /\ worker'[x] \in WorkerSet
  BY DEF Shape
<1>3. \A x \in Workers : /\ worker[x] \in RunsOf(o) <=> worker'[x] \in RunsOf(o)
                         /\ worker[x] \in LinksOf(o) <=> worker'[x] \in LinksOf(o)
                         /\ worker[x] \in EndsOf(o) <=> worker'[x] \in EndsOf(o)
  BY <1>2 DEF SameWork, RunsOf, LinksOf, EndsOf, Handles1
<1>4. /\ Cnt(worker', RunsOf(o)) = Cnt(worker, RunsOf(o))
      /\ Cnt(worker', LinksOf(o)) = Cnt(worker, LinksOf(o))
      /\ Cnt(worker', EndsOf(o)) = Cnt(worker, EndsOf(o))
  BY <1>1, <1>3, CntSame
<1> QED
  BY <1>4 DEF WN

(* A caller goes on that does not have o in hand. *)
LEMMA CallOnly ==
  ASSUME Shape, Shape', NEW t \in Callers, \A x \in Callers \ {t} : SameCall(caller[x], caller'[x]),
         NEW o, ~InHand(caller[t], o), ~InHand(caller'[t], o)
  PROVE  CN(o)' = CN(o)
<1>1. DOMAIN caller = Callers /\ DOMAIN caller' = Callers
  BY DEF Shape
<1>2. \A x \in Callers : caller[x] \in CallerSet /\ caller'[x] \in CallerSet
  BY DEF Shape
<1>3. ASSUME NEW P \in {{"submit"}, {"join"}, {"release"}, {"wait", "sleep"}, {"destroy"}}
      PROVE  Cnt(caller', CallsAt(o, P)) = Cnt(caller, CallsAt(o, P))
  <2>1. \A x \in Callers : caller[x] \in CallsAt(o, P) <=> caller'[x] \in CallsAt(o, P)
    BY <1>2 DEF SameCall, CallsAt, InHand
  <2> QED
    BY <1>1, <2>1, CntSame
<1>4. Cnt(caller', Keepers(o)) = Cnt(caller, Keepers(o))
  <2>1. \A x \in Callers : caller[x] \in Keepers(o) <=> caller'[x] \in Keepers(o)
    BY <1>2 DEF SameCall, Keepers, InHand
  <2> QED
    BY <1>1, <2>1, CntSame
<1> QED
  BY <1>3, <1>4 DEF CN

(* The queues stay. *)
LEMMA QueuesSame ==
  ASSUME UNCHANGED queueVars
  PROVE  /\ \A o : HN(o)' = HN(o) /\ PN(o)' = PN(o) /\ InService(o)' = InService(o)
         /\ IoShape => IoShape' /\ (KeyOK => KeyOK')
<1>1. /\ timer' = timer /\ wait' = wait /\ bucket' = bucket /\ ioq' = ioq /\ port' = port /\ io' = io
  BY DEF queueVars, timerVars, waitVars, ioVars
<1>2. \A o : HN(o)' = HN(o)
  BY <1>1 DEF HN, HeldBy
<1>3. \A o : PN(o)' = PN(o)
  BY <1>1 DEF PN
<1>4. \A o : InService(o)' = InService(o)
  BY <1>1 DEF InService
<1>5. IoShape => IoShape' /\ (KeyOK => KeyOK')
  BY <1>1 DEF IoShape, KeyOK
<1> QED
  BY <1>2, <1>3, <1>4, <1>5

(* The lists of the pool stay. *)
LEMMA ListedSame ==
  ASSUME ListedOK, pools' = pools, \A x \in Objects : obj'[x].pending = obj[x].pending
  PROVE  ListedOK'
  BY DEF ListedOK

(* The list of the group stays. *)
LEMMA MembersSame ==
  ASSUME MembersOK, group'.members = group.members,
         \A x \in Objects : obj'[x].member = obj[x].member
  PROVE  MembersOK'
  BY DEF MembersOK

(* One caller goes on. *)
LEMMA CallersStep ==
  ASSUME Shape, CallersInv, NEW t \in Callers, NEW c, CallerGood(c), caller' = [caller EXCEPT ![t] = c]
  PROVE  CallersInv'
<1>1. \A x \in Callers : caller'[x] = IF x = t THEN c ELSE caller[x]
  BY DEF Shape
<1> QED
  BY <1>1 DEF CallersInv

(* What is known after a step. *)
LEMMA CoreBecomes ==
  ASSUME ObjInv', CallersInv', ListedOK', MembersOK', IoShape', KeyOK'
  PROVE  CoreInv'
  BY DEF CoreInv

-----------------------------------------------------------------------------
(* Effects on workers, objects and lists. *)

(* A worker is started or woken: no number changes. *)
LEMMA NewWorkerSame ==
  ASSUME Shape, NEW p, tp_new_worker_thread(p)
  PROVE  \A x \in Workers : SameWork(worker[x], worker'[x])
<1>1. Spare # {} /\ worker' = [worker EXCEPT ![NewWorker] = [NoWorker EXCEPT !.pc = "run"]]
  BY DEF tp_new_worker_thread
<1>2. NewWorker \in Spare
  BY <1>1 DEF NewWorker
<1>3. NewWorker \in Workers /\ worker[NewWorker].pc = "none"
  BY <1>2 DEF Spare
<1>4. [NoWorker EXCEPT !.pc = "run"].pc = "run"
  BY DEF NoWorker
<1>5. \A x \in Workers : worker'[x] = IF x = NewWorker THEN [NoWorker EXCEPT !.pc = "run"] ELSE worker[x]
  BY <1>1 DEF Shape
<1> QED
  BY <1>3, <1>4, <1>5 DEF SameWork

(* So with the one that RtlWakeConditionVariable picks. *)
LEMMA WakeSame ==
  ASSUME Shape, RtlWakeConditionVariable
  PROVE  \A x \in Workers : SameWork(worker[x], worker'[x])
<1>1. CASE worker' = worker
  BY <1>1 DEF SameWork
<1>2. CASE \E w \in Sleepers : worker' = [worker EXCEPT ![w].pc = "run"]
  <2>1. PICK w \in Sleepers : worker' = [worker EXCEPT ![w].pc = "run"]
    BY <1>2
  <2>2. w \in Workers /\ worker[w].pc = "asleep" /\ worker[w] \in WorkerSet
    BY DEF Sleepers, Shape
  <2>3. worker'[w].pc = "run" /\ \A x \in Workers \ {w} : worker'[x] = worker[x]
    BY <2>1, <2>2 DEF Shape, WorkerSet, WorkerRec
  <2> QED
    BY <2>2, <2>3 DEF SameWork
<1> QED
  BY <1>1, <1>2 DEF RtlWakeConditionVariable

(* An object that becomes pending is put on its list. *)
LEMMA ListedMore ==
  ASSUME Shape, Shape', ListedOK, NEW o \in Objects, obj[o].pending = 0, obj'[o].pending > 0,
         pools' = [pools EXCEPT ![Priority[o]] = Append(@, o)],
         \A x \in Objects \ {o} : obj'[x].pending = obj[x].pending
  PROVE  ListedOK'
<1> DEFINE q == Priority[o]
           s == pools[q]
<1>1. q \in 1..3 /\ o \in OfPriority(q) /\ s \in Seq(OfPriority(q))
  BY ListOf DEF Shape
<1>2. o \notin Rng(s) /\ Once(s)
  BY <1>1 DEF ListedOK
<1>3. Rng(Append(s, o)) = Rng(s) \cup {o} /\ Once(Append(s, o))
  BY <1>1, <1>2, AppendIs
<1>4. pools'[q] = Append(s, o) /\ \A p \in 1..3 : p # q => pools'[p] = pools[p]
  BY <1>1 DEF Shape, PoolLists
<1>5. \A p \in 1..3 : Once(pools'[p])
  BY <1>3, <1>4 DEF ListedOK
<1> HIDE DEF q, s
<1>6. ASSUME NEW x \in Objects
      PROVE  x \in Rng(pools'[Priority[x]]) <=> obj'[x].pending > 0
  <2>0. Priority[x] \in 1..3
    BY PoolConstants
  <2>1. CASE x = o
    BY <1>3, <1>4, <2>1 DEF q
  <2>2. CASE x # o
    <3>1. Rng(pools'[Priority[x]]) \ {o} = Rng(pools[Priority[x]]) \ {o}
      BY <1>3, <1>4, <2>0 DEF s
    <3> QED
      BY <2>2, <3>1 DEF ListedOK
  <2> QED
    BY <2>1, <2>2
<1> QED
  BY <1>5, <1>6 DEF ListedOK

(* An object that is no longer pending leaves it. *)
LEMMA ListedLess ==
  ASSUME Shape, Shape', ListedOK, NEW o \in Objects, obj'[o].pending = 0,
         pools' = [pools EXCEPT ![Priority[o]] = Without(@, {o})],
         \A x \in Objects \ {o} : obj'[x].pending = obj[x].pending
  PROVE  ListedOK'
<1> DEFINE q == Priority[o]
           s == pools[q]
<1>1. q \in 1..3 /\ o \in OfPriority(q) /\ s \in Seq(OfPriority(q))
  BY ListOf DEF Shape
<1>2. Once(s)
  BY <1>1 DEF ListedOK
<1>3. Rng(Without(s, {o})) = Rng(s) \ {o} /\ Once(Without(s, {o}))
  BY <1>1, <1>2, WithoutIs
<1>4. pools'[q] = Without(s, {o}) /\ \A p \in 1..3 : p # q => pools'[p] = pools[p]
  BY <1>1 DEF Shape, PoolLists
<1>5. \A p \in 1..3 : Once(pools'[p])
  BY <1>3, <1>4 DEF ListedOK
<1> HIDE DEF q, s
<1>6. ASSUME NEW x \in Objects
      PROVE  x \in Rng(pools'[Priority[x]]) <=> obj'[x].pending > 0
  <2>0. Priority[x] \in 1..3
    BY PoolConstants
  <2>1. CASE x = o
    BY <1>3, <1>4, <2>1 DEF q
  <2>2. CASE x # o
    <3>1. Rng(pools'[Priority[x]]) \ {o} = Rng(pools[Priority[x]]) \ {o}
      BY <1>3, <1>4, <2>0 DEF s
    <3> QED
      BY <2>2, <3>1 DEF ListedOK
  <2> QED
    BY <2>1, <2>2
<1> QED
  BY <1>5, <1>6 DEF ListedOK

(* A submission: one callback and one reference more. *)
LEMMA SubmitEffect ==
  ASSUME Shape, Shape', ListedOK, NEW o \in Objects, NEW ob \in ObjRec, ob.pending = obj[o].pending,
         ob.pending >= 0, NEW p, tp_object_submit(o, ob, p)
  PROVE  /\ SubmittedTo(ob, obj'[o]) /\ obj'[o].ops = ob.ops /\ obj'[o].posts = ob.posts
         /\ obj'[o].signaled = ob.signaled /\ obj'[o].completions = ob.completions
         /\ \A x \in Objects \ {o} : obj'[x] = obj[x]
         /\ \A x \in Workers : SameWork(worker[x], worker'[x])
         /\ ListedOK'
<1> DEFINE e == [ob EXCEPT !.refcount = @ + 1, !.pending = @ + 1]
<1>1. obj' = [obj EXCEPT ![o] = e]
  BY DEF tp_object_submit
<1>2. obj'[o] = e /\ \A x \in Objects \ {o} : obj'[x] = obj[x]
  BY <1>1 DEF Shape
<1>3. /\ SubmittedTo(ob, e) /\ e.ops = ob.ops /\ e.posts = ob.posts
      /\ e.signaled = ob.signaled /\ e.completions = ob.completions
  <2>1. PICK n \in Int, m \in Int : n = ob.refcount + 1 /\ m = ob.pending + 1
    BY DEF ObjRec
  <2>2. e = [ob EXCEPT !.refcount = n, !.pending = m]
    BY <2>1
  <2>3. [ob EXCEPT !.refcount = n, !.pending = m] \in ObjRec
    BY DEF ObjRec
  <2> QED
    BY <2>1, <2>2, <2>3 DEF SubmittedTo, ObjRec
<1>4. e.pending = ob.pending + 1 /\ ob.pending \in Int
  BY DEF ObjRec
<1> HIDE DEF e
<1>5. \A x \in Workers : SameWork(worker[x], worker'[x])
  BY NewWorkerSame, WakeSame DEF tp_object_submit
<1>6. ListedOK'
  <2>1. CASE ob.pending = 0
    <3>1. pools' = [pools EXCEPT ![Priority[o]] = Append(@, o)]
      BY <2>1 DEF tp_object_submit
    <3>2. obj[o].pending = 0 /\ obj'[o].pending > 0
      BY <1>2, <1>4, <2>1
    <3> QED
      BY <1>2, <3>1, <3>2, ListedMore
  <2>2. CASE ob.pending # 0
    <3>1. pools' = pools
      BY <2>2 DEF tp_object_submit
    <3>2. obj[o].pending > 0 /\ obj'[o].pending > 0
      BY <1>2, <1>4, <2>2
    <3>3. \A x \in Objects : obj'[x].pending > 0 <=> obj[x].pending > 0
      BY <1>2, <3>2
    <3> QED
      BY <3>1, <3>3 DEF ListedOK
  <2> QED
    BY <2>1, <2>2
<1> QED
  BY <1>2, <1>3, <1>5, <1>6

(* A cancellation. *)
LEMMA CancelEffect ==
  ASSUME Shape, Shape', ListedOK, NEW o \in Objects, tp_object_cancel(o)
  PROVE  /\ ForgottenTo(obj[o], obj'[o]) /\ \A x \in Objects \ {o} : obj'[x] = obj[x]
         /\ ListedOK'
<1>1. obj[o] \in ObjRec /\ obj' = [obj EXCEPT ![o] = Forgotten(obj[o])]
      /\ pools' = [pools EXCEPT ![Priority[o]] = Without(@, {o})]
  BY DEF tp_object_cancel, Shape
<1>2. obj'[o] = Forgotten(obj[o]) /\ \A x \in Objects \ {o} : obj'[x] = obj[x]
  BY <1>1 DEF Shape
<1>3. ForgottenTo(obj[o], Forgotten(obj[o]))
  BY <1>1, ForgottenIs DEF ForgottenTo
<1>4. obj'[o].pending = 0
  BY <1>2, <1>3 DEF ForgottenTo
<1>5. ListedOK'
  BY <1>1, <1>2, <1>4, ListedLess
<1> QED
  BY <1>2, <1>3, <1>5

(* The waiters that are woken keep what they have in hand. *)
LEMMA WakeWaitersSame ==
  ASSUME Shape, CallersInv, NEW o, NEW ob, NEW events \in SUBSET {"sleep", "gsleep"},
         WakeWaiters(o, ob, events)
  PROVE  /\ \A x \in Callers : SameCall(caller[x], caller'[x])
         /\ CallersInv'
<1>1. ASSUME NEW x \in Callers
      PROVE  SameCall(caller[x], caller'[x]) /\ CallerGood(caller'[x])
  <2>1. caller[x] \in CallerRec /\ CallerGood(caller[x])
    BY DEF Shape, CallerSet, CallersInv
  <2>2. CASE caller'[x] = caller[x]
    BY <2>1, <2>2 DEF SameCall
  <2>3. CASE caller'[x] # caller[x]
    <3>1. /\ caller[x].pc \in events
          /\ caller'[x] = [caller[x] EXCEPT !.pc = IF @ = "gsleep" THEN "gwait" ELSE "wait"]
      BY <2>3 DEF WakeWaiters
    <3>2. caller'[x].obj = caller[x].obj /\ caller'[x].list = caller[x].list
      BY <2>1, <3>1 DEF CallerRec
    <3>3. CASE caller[x].pc = "gsleep"
      <4>1. caller'[x].pc = "gwait"
        BY <2>1, <3>1, <3>3 DEF CallerRec
      <4> QED
        BY <2>1, <3>2, <3>3, <4>1 DEF SameCall, CallerGood
    <3>4. CASE caller[x].pc = "sleep"
      <4>1. caller'[x].pc = "wait"
        BY <2>1, <3>1, <3>4 DEF CallerRec
      <4> QED
        BY <2>1, <3>2, <3>4, <4>1 DEF SameCall, CallerGood
    <3> QED
      BY <3>1, <3>3, <3>4
  <2> QED
    BY <2>2, <2>3
<1> QED
  BY <1>1 DEF CallersInv

(* The object is destroyed and leaves the group. *)
LEMMA DestroyEffect ==
  ASSUME Shape, Shape', MembersOK, ListedOK, NEW o \in Objects, obj[o].pending = 0,
         obj[o].member = TRUE => obj[o].grouped = TRUE, tp_object_destroy(o)
  PROVE  /\ DestroyedTo(obj[o], obj'[o]) /\ \A x \in Objects \ {o} : obj'[x] = obj[x]
         /\ MembersOK' /\ ListedOK'
<1> DEFINE e == [NoObject EXCEPT !.life = "gone", !.shutdown = obj[o].shutdown,
                                 !.grouped = obj[o].grouped]
<1>1. obj[o] \in ObjRec /\ obj' = [obj EXCEPT ![o] = e] /\ pools' = pools
  BY DEF tp_object_destroy, Shape
<1>2. obj'[o] = e /\ \A x \in Objects \ {o} : obj'[x] = obj[x]
  BY <1>1 DEF Shape
<1>3. DestroyedTo(obj[o], e)
  BY <1>1 DEF DestroyedTo, ObjRec, NoObject
<1> HIDE DEF e
<1>4. obj'[o].pending = 0 /\ obj'[o].member = FALSE
  BY <1>2, <1>3 DEF DestroyedTo
<1>5. ListedOK'
  <2>1. \A x \in Objects : obj'[x].pending = obj[x].pending
    BY <1>2, <1>4
  <2> QED
    BY <1>1, <2>1, ListedSame
<1>6. group \in GroupRec /\ group.members \in Seq(Objects)
  BY DEF Shape, GroupRec
<1>7. MembersOK'
  <2>1. CASE obj[o].member = TRUE
    <3>0. obj[o].grouped /\ obj[o].member
      BY <2>1
    <3>1. group' = tp_group_release([group EXCEPT !.members = Without(@, {o})])
      BY <3>0 DEF tp_object_destroy
    <3>2. Without(group.members, {o}) \in Seq(Objects)
      BY <1>6, WithoutIs
    <3>3. [group EXCEPT !.members = Without(@, {o})] \in GroupRec
      BY <1>6, <3>2 DEF GroupRec
    <3>4. group'.members = Without(group.members, {o})
      BY <1>6, <3>1, <3>3, GroupReleaseIs DEF GroupRec
    <3>5. /\ Once(group.members) => Once(Without(group.members, {o}))
          /\ Rng(Without(group.members, {o})) = Rng(group.members) \ {o}
      BY <1>6, WithoutIs
    <3> QED
      BY <1>2, <1>4, <3>4, <3>5 DEF MembersOK
  <2>2. CASE obj[o].member # TRUE
    <3>0. ~obj[o].member
      BY <1>1, <2>2 DEF ObjRec
    <3>1. group'.members = group.members
      <4>1. CASE ~obj[o].grouped
        BY <4>1 DEF tp_object_destroy
      <4>2. CASE obj[o].grouped
        <5>1. group' = tp_group_release(group)
          BY <3>0, <4>2 DEF tp_object_destroy
        <5> QED
          BY <1>6, <5>1, GroupReleaseIs
      <4> QED
        BY <4>1, <4>2
    <3>2. \A x \in Objects : obj'[x].member = obj[x].member
      BY <1>1, <1>2, <1>4, <3>0 DEF ObjRec
    <3> QED
      BY <3>1, <3>2, MembersSame
  <2> QED
    BY <2>1, <2>2
<1> QED
  BY <1>2, <1>3, <1>5, <1>7

-----------------------------------------------------------------------------
(* Steps of workers. *)

(* A step that leaves the queues and changes one object. *)
LEMMA InPoolOne ==
  ASSUME BaseInv, CoreInv, NEW o, UNCHANGED queueVars,
         KeptObj(o), KeptWork(o), KeptCall(o),
         o \in Objects => ObjOK(o, obj'[o], WN(o)', CN(o)', HN(o), PN(o), InService(o)),
         CallersInv', ListedOK', MembersOK'
  PROVE  CoreInv'
<1>1. /\ \A x : HN(x)' = HN(x) /\ PN(x)' = PN(x) /\ InService(x)' = InService(x)
      /\ IoShape' /\ KeyOK'
  BY QueuesSame DEF CoreInv
<1>2. Kept(o)
  BY <1>1 DEF Kept, KeptHold, KeptPort, KeptServ
<1>3. o \in Objects => Good(o)'
  BY <1>1 DEF Good
<1>4. ObjInv'
  BY <1>2, <1>3, OneGood DEF CoreInv
<1> QED
  BY <1>1, <1>4 DEF CoreInv

(* A step that leaves the queues and the objects. *)
LEMMA InPoolNone ==
  ASSUME BaseInv, CoreInv, UNCHANGED <<queueVars, obj, pools>>, group'.members = group.members,
         \A x : WN(x)' = WN(x), \A x : CN(x)' = CN(x), CallersInv'
  PROVE  CoreInv'
<1>1. obj' = obj /\ pools' = pools /\ UNCHANGED queueVars
  OBVIOUS
<1>2. ListedOK' /\ MembersOK'
  BY <1>1, ListedSame, MembersSame DEF CoreInv
<1>3. PICK o : o \notin Objects
  BY PoolConstants
<1>4. KeptObj(o) /\ KeptWork(o) /\ KeptCall(o)
  BY <1>1 DEF KeptObj, KeptWork, KeptCall
<1> QED
  BY <1>1, <1>2, <1>3, <1>4, InPoolOne

(* Callers that stay. *)
LEMMA CallersSame ==
  ASSUME CoreInv, caller' = caller
  PROVE  CallersInv' /\ \A x : CN(x)' = CN(x)
  BY DEF CoreInv, CallersInv, CN

(* Workers that stay. *)
LEMMA WorkersSame ==
  ASSUME worker' = worker
  PROVE  \A x : WN(x)' = WN(x)
  BY DEF WN

(* The numbers of o when worker w goes on, and those of the others. *)
LEMMA WorkerGoesOn ==
  ASSUME Shape, Shape', NEW w \in Workers, NEW r, worker' = [worker EXCEPT ![w] = r],
         NEW o, \A x : x # o => ~Handles1(worker[w], x) /\ ~Handles1(r, x)
  PROVE  WorkShift(o, worker[w], r) /\ KeptWork(o) /\ worker'[w] = r
<1>1. worker'[w] = r /\ \A x \in Workers \ {w} : worker'[x] = worker[x]
  BY DEF Shape
<1>2. \A x \in Workers \ {w} : SameWork(worker[x], worker'[x])
  BY <1>1 DEF SameWork
<1>3. WorkShift(o, worker[w], r)
  BY <1>1, <1>2, WorkStep
<1>4. \A x \in Objects \ {o} : WN(x)' = WN(x)
  BY <1>1, <1>2, WorkOnly
<1> QED
  BY <1>1, <1>3, <1>4 DEF KeptWork

(* The numbers of o when caller t goes on, and those of the others. *)
LEMMA CallerGoesOn ==
  ASSUME Shape, Shape', NEW t \in Callers, NEW c, caller' = [caller EXCEPT ![t] = c],
         NEW o, \A x : x # o => ~InHand(caller[t], x) /\ ~InHand(c, x)
  PROVE  CallShift(o, caller[t], c) /\ KeptCall(o) /\ caller'[t] = c
<1>1. caller'[t] = c /\ \A x \in Callers \ {t} : caller'[x] = caller[x]
  BY DEF Shape
<1>2. \A x \in Callers \ {t} : SameCall(caller[x], caller'[x])
  BY <1>1 DEF SameCall
<1>3. CallShift(o, caller[t], c)
  BY <1>1, <1>2, CallStep
<1>4. \A x \in Objects \ {o} : CN(x)' = CN(x)
  BY <1>1, <1>2, CallOnly
<1> QED
  BY <1>1, <1>3, <1>4 DEF KeptCall

(* A queued object moves to the end of its list, or leaves it. *)
LEMMA ListedTakes ==
  ASSUME Shape, Shape', ListedOK, NEW o \in Objects, pools[Priority[o]] # <<>>,
         Head(pools[Priority[o]]) = o, NEW again \in BOOLEAN, (obj'[o].pending > 0) <=> again,
         LET rest == [pools EXCEPT ![Priority[o]] = Tail(@)] IN
         pools' = IF again THEN [rest EXCEPT ![Priority[o]] = Append(@, o)] ELSE rest,
         \A x \in Objects \ {o} : obj'[x].pending = obj[x].pending
  PROVE  ListedOK' /\ o \in Rng(pools[Priority[o]])
<1> DEFINE q == Priority[o]
           s == pools[q]
           r == IF again THEN Append(Tail(s), o) ELSE Tail(s)
<1>1. q \in 1..3 /\ o \in OfPriority(q) /\ s \in Seq(OfPriority(q))
  BY ListOf DEF Shape
<1>2. Once(s) /\ s # <<>> /\ Head(s) = o
  BY <1>1 DEF ListedOK
<1> HIDE DEF s
<1>3. Tail(s) \in Seq(OfPriority(q)) /\ Rng(s) = {o} \cup Rng(Tail(s)) /\ Once(Tail(s)) /\ o \notin Rng(Tail(s))
  BY <1>1, <1>2, TailIs
<1>4. Rng(r) = (Rng(s) \ {o}) \cup (IF again THEN {o} ELSE {}) /\ Once(r)
  <2> DEFINE u == Tail(s)
  <2>0. u \in Seq(OfPriority(q)) /\ Once(u) /\ o \notin Rng(u)
    BY <1>3
  <2> HIDE DEF u
  <2>1. Rng(Append(u, o)) = Rng(u) \cup {o} /\ Once(Append(u, o))
    BY <1>1, <2>0, AppendIs
  <2> QED
    BY <1>3, <2>1 DEF u
<1>5. pools'[q] = r /\ \A p \in 1..3 : p # q => pools'[p] = pools[p]
  BY <1>1 DEF Shape, PoolLists, s
<1> HIDE DEF r
<1>6. \A p \in 1..3 : Once(pools'[p])
  BY <1>4, <1>5 DEF ListedOK
<1> HIDE DEF q
<1>7. ASSUME NEW x \in Objects
      PROVE  x \in Rng(pools'[Priority[x]]) <=> obj'[x].pending > 0
  <2>0. Priority[x] \in 1..3
    BY PoolConstants
  <2>1. CASE x = o
    BY <1>4, <1>5, <2>1 DEF q
  <2>2. CASE x # o
    <3>1. Rng(pools'[Priority[x]]) \ {o} = Rng(pools[Priority[x]]) \ {o}
      BY <1>4, <1>5, <2>0 DEF s
    <3> QED
      BY <2>2, <3>1 DEF ListedOK
  <2> QED
    BY <2>1, <2>2
<1>8. o \in Rng(pools[Priority[o]])
  BY <1>3 DEF q, s
<1> QED
  BY <1>6, <1>7, <1>8 DEF ListedOK

(* A worker takes an item. *)
LEMMA WorkerTakeCore ==
  ASSUME BaseInv, BaseInv', CoreInv, NEW w \in Workers, WorkerTake(w), UNCHANGED queueVars
  PROVE  CoreInv'
<1>0. Shape /\ Shape' /\ ObjInv /\ IoShape /\ ListedOK /\ MembersOK
  BY DEF BaseInv, CoreInv
<1>1. worker[w].pc = "run" /\ Waiting /\ group' = group /\ caller' = caller
  BY DEF WorkerTake
<1>2. PICK o \in Objects : o = threadpool_get_next_item
  BY <1>0, <1>1, NextItem
<1>3. pools[Priority[o]] # <<>> /\ Head(pools[Priority[o]]) = o
  BY <1>0, <1>1, <1>2, NextItem DEF threadpool_get_next_item
<1>4. PICK again \in BOOLEAN : again <=> obj[o].pending > 1
  <2>1. TRUE \in BOOLEAN /\ FALSE \in BOOLEAN
    OBVIOUS
  <2> QED
    BY <2>1, Zenon
<1> DEFINE r == [NoWorker EXCEPT !.pc = "callback", !.obj = o, !.associated = TRUE]
<1>5. /\ obj' = tp_object_execute(o) /\ worker' = [worker EXCEPT ![w] = r]
      /\ LET rest == [pools EXCEPT ![Priority[o]] = Tail(@)] IN
         pools' = IF again THEN [rest EXCEPT ![Priority[o]] = Append(@, o)] ELSE rest
  BY <1>2, <1>4 DEF WorkerTake
<1>6. PICK e : tp_object_execute(o) = [obj EXCEPT ![o] = e] /\ ExecutedIs(obj[o], e, Type[o] = "io")
  BY <1>0, <1>2, ExecuteIs
<1>7. obj'[o] = e /\ KeptObj(o)
  BY <1>0, <1>5, <1>6 DEF Shape, KeptObj
<1>8. /\ Typed(obj[o], WN(o), CN(o), HN(o), PN(o), InService(o))
      /\ ObjOK(o, obj[o], WN(o), CN(o), HN(o), PN(o), InService(o)) /\ obj[o] \in ObjRec
  BY <1>0, GoodTyped
<1>9. ListedOK' /\ o \in Rng(pools[Priority[o]])
  <2>0. obj'[o].pending > 0 <=> obj[o].pending > 1
    BY <1>6, <1>7, <1>8 DEF ExecutedIs, ObjRec
  <2>1. obj'[o].pending > 0 <=> again
    BY <1>4, <2>0
  <2>2. \A x \in Objects \ {o} : obj'[x].pending = obj[x].pending
    BY <1>7 DEF KeptObj
  <2> QED
    BY <1>0, <1>3, <1>5, <2>1, <2>2, ListedTakes
<1>10. obj[o].pending > 0
  BY <1>0, <1>9 DEF ListedOK
<1>11. r \in WorkerSet /\ r.pc = "callback" /\ r.obj = o /\ r.associated = TRUE
  BY WithObject DEF NoWorker
<1> HIDE DEF r
<1>12. \A x : x # o => ~Handles1(worker[w], x) /\ ~Handles1(r, x)
  BY <1>1, <1>11 DEF Handles1
<1>13. WorkShift(o, worker[w], r) /\ KeptWork(o)
  BY <1>0, <1>5, <1>12, WorkerGoesOn
<1>14. /\ One(r \in RunsOf(o)) = 1 /\ One(r \in LinksOf(o)) = 1 /\ One(r \in EndsOf(o)) = 0
       /\ One(worker[w] \in RunsOf(o)) = 0 /\ One(worker[w] \in LinksOf(o)) = 0
       /\ One(worker[w] \in EndsOf(o)) = 0
  BY <1>1, <1>11 DEF One, RunsOf, LinksOf, EndsOf
<1>15. /\ WN(o)' \in WNum /\ WN(o)'.run = WN(o).run + 1 /\ WN(o)'.linked = WN(o).linked + 1
       /\ WN(o)'.ends = WN(o).ends
  BY <1>13, <1>14 DEF WorkShift, WNum
<1>16. ObjOK(o, e, WN(o)', CN(o), HN(o), PN(o), InService(o))
  BY <1>6, <1>8, <1>10, <1>15, TakesOK
<1>17. CallersInv' /\ \A x : CN(x)' = CN(x)
  BY <1>1, CallersSame
<1>18. MembersOK'
  <2>1. \A x \in Objects : obj'[x].member = obj[x].member
    BY <1>6, <1>7 DEF ExecutedIs, KeptObj
  <2> QED
    BY <1>0, <1>1, <2>1, MembersSame
<1>19. ObjOK(o, obj'[o], WN(o)', CN(o)', HN(o), PN(o), InService(o)) /\ KeptCall(o)
  BY <1>7, <1>16, <1>17 DEF KeptCall
<1> QED
  BY <1>7, <1>9, <1>13, <1>17, <1>18, <1>19, InPoolOne

(* A worker in a callback of o counts. *)
LEMMA RunsIs ==
  ASSUME Shape, NEW w \in Workers, worker[w].pc = "callback", NEW o, worker[w].obj = o
  PROVE  /\ o \in Objects /\ WN(o).run > 0 /\ worker[w] \in RunsOf(o)
         /\ worker[w].associated \in BOOLEAN
<1>1. worker[w] \in WorkerSet /\ DOMAIN worker = Workers /\ IsFiniteSet(Workers)
  BY PoolConstants DEF Shape
<1>2. o \in Objects /\ worker[w] \in RunsOf(o) /\ worker[w].associated \in BOOLEAN
  BY <1>1 DEF WorkerSet, WorkerRec, RunsOf
<1>3. Cnt(worker, RunsOf(o)) \in Nat /\ Cnt(worker, RunsOf(o)) # 0
  BY <1>1, <1>2, CntSome
<1> QED
  BY <1>2, <1>3 DEF WN

(* No call is under way for o. *)
LEMMA NotInCallIs ==
  ASSUME Shape, NEW o, NotInCall(o)
  PROVE  CN(o).wait = 0 /\ CN(o).sub = 0
<1>1. DOMAIN caller = Callers /\ IsFiniteSet(Callers)
  BY PoolConstants DEF Shape
<1>2. \A x \in Callers : caller[x] \notin CallsAt(o, {"submit"}) /\ caller[x] \notin CallsAt(o, {"wait", "sleep"})
  BY DEF NotInCall, CallsAt
<1>3. Cnt(caller, CallsAt(o, {"submit"})) = 0 /\ Cnt(caller, CallsAt(o, {"wait", "sleep"})) = 0
  BY <1>1, <1>2, CntSome
<1> QED
  BY <1>3 DEF CN

(* A callback returns. *)
LEMMA WorkerReturnCore ==
  ASSUME BaseInv, BaseInv', CoreInv, NEW w \in Workers, WorkerReturn(w), UNCHANGED queueVars
  PROVE  CoreInv'
<1>0. Shape /\ Shape' /\ ObjInv /\ IoShape /\ ListedOK /\ MembersOK /\ CallersInv
  BY DEF BaseInv, CoreInv
<1>1. worker[w].pc = "callback" /\ pools' = pools /\ group' = group
  BY DEF WorkerReturn
<1>2. PICK o : o = worker[w].obj
  OBVIOUS
<1>3. o \in Objects /\ WN(o).run > 0 /\ worker[w] \in RunsOf(o)
  BY <1>0, <1>1, <1>2, RunsIs
<1>4. PICK a \in BOOLEAN : a = worker[w].associated
  BY <1>0, <1>1, <1>2, RunsIs
<1>5. PICK simple \in BOOLEAN : simple = (Type[o] = "simple")
  OBVIOUS
<1>6. /\ Typed(obj[o], WN(o), CN(o), HN(o), PN(o), InService(o))
      /\ ObjOK(o, obj[o], WN(o), CN(o), HN(o), PN(o), InService(o)) /\ obj[o] \in ObjRec
  BY <1>0, <1>3, GoodTyped
<1>7. PICK ob : ob = Returned(obj[o], a, simple)
  OBVIOUS
<1>8. ReturnedIs(obj[o], ob, a, Type[o] = "simple")
  <2>1. ReturnedIs(obj[o], ob, a, simple)
    BY <1>6, <1>7, ReturnIs
  <2> QED
    BY <1>5, <2>1
<1> DEFINE events == {"gsleep"} \cup (IF a THEN {"sleep"} ELSE {})
           r == IF ob.refcount = 1 THEN [NoWorker EXCEPT !.pc = "destroy", !.obj = o]
                                   ELSE [NoWorker EXCEPT !.pc = "run"]
<1>9. /\ obj' = [obj EXCEPT ![o] = Dropped(ob, 1)] /\ WakeWaiters(o, ob, events)
      /\ worker' = [worker EXCEPT ![w] = r]
  BY <1>2, <1>4, <1>5, <1>7 DEF WorkerReturn, Returned
<1>10. ob \in ObjRec /\ ob.refcount = obj[o].refcount
  BY <1>8 DEF ReturnedIs
<1>11. PICK e : e = Dropped(ob, 1)
  OBVIOUS
<1>12. GivenBack(ob, e, 1)
  BY <1>10, <1>11, DroppedIs DEF GivenBack
<1>13. obj'[o] = e /\ KeptObj(o)
  BY <1>0, <1>3, <1>9, <1>11 DEF Shape, KeptObj
<1>14. /\ \A x \in Callers : SameCall(caller[x], caller'[x])
       /\ CallersInv'
  <2>1. events \in SUBSET {"sleep", "gsleep"}
    OBVIOUS
  <2> HIDE DEF events
  <2> QED
    BY <1>0, <1>9, <2>1, WakeWaitersSame
<1>15. \A x : CN(x)' = CN(x)
  BY <1>0, <1>14, CallSame
<1>16. /\ obj[o].refcount = 1 => r.pc = "destroy" /\ r.obj = o /\ r \in WorkerSet
       /\ obj[o].refcount # 1 => r.pc = "run"
  BY <1>3, <1>10, WithObject DEF NoWorker
<1> HIDE DEF r, events
<1>17. \A x : x # o => ~Handles1(worker[w], x) /\ ~Handles1(r, x)
  BY <1>2, <1>16 DEF Handles1
<1>18. WorkShift(o, worker[w], r) /\ KeptWork(o)
  BY <1>0, <1>9, <1>17, WorkerGoesOn
<1>19. /\ One(r \in RunsOf(o)) = 0 /\ One(r \in LinksOf(o)) = 0
       /\ One(r \in EndsOf(o)) = One(obj[o].refcount = 1)
       /\ One(worker[w] \in RunsOf(o)) = 1 /\ One(worker[w] \in EndsOf(o)) = 0
       /\ a => One(worker[w] \in LinksOf(o)) = 1
       /\ ~a => One(worker[w] \in LinksOf(o)) = 0
  BY <1>1, <1>3, <1>4, <1>16 DEF One, RunsOf, LinksOf, EndsOf
<1>20. /\ WN(o)' \in WNum /\ WN(o)'.run = WN(o).run - 1
       /\ a => WN(o)'.linked = WN(o).linked - 1
       /\ ~a => WN(o)'.linked = WN(o).linked
       /\ WN(o)'.ends = WN(o).ends + One(obj[o].refcount = 1)
  <2>1. One(obj[o].refcount = 1) \in {0, 1}
    BY DEF One
  <2> QED
    BY <1>18, <1>19, <2>1 DEF WorkShift, WNum
<1>21. ObjOK(o, e, WN(o)', CN(o), HN(o), PN(o), InService(o))
  BY <1>3, <1>6, <1>8, <1>12, <1>20, ReturnsOK
<1>22. ListedOK' /\ MembersOK'
  <2>1. \A x \in Objects : obj'[x].pending = obj[x].pending /\ obj'[x].member = obj[x].member
    BY <1>8, <1>12, <1>13 DEF GivenBack, ReturnedIs, KeptObj
  <2> QED
    BY <1>0, <1>1, <2>1, ListedSame, MembersSame
<1>23. ObjOK(o, obj'[o], WN(o)', CN(o)', HN(o), PN(o), InService(o)) /\ KeptCall(o)
  BY <1>13, <1>15, <1>21 DEF KeptCall
<1> QED
  BY <1>13, <1>14, <1>18, <1>22, <1>23, InPoolOne

(* An object that is dying: nobody else uses it. *)
LEMMA DyingIs ==
  ASSUME Shape, CoreInv, NEW o \in Objects, WN(o).ends > 0 \/ CN(o).ends > 0 \/ PN(o).ends > 0
  PROVE  /\ obj[o].life = "dying" /\ obj[o].pending = 0
         /\ obj[o].member = TRUE => obj[o].grouped = TRUE
<1>1. /\ Typed(obj[o], WN(o), CN(o), HN(o), PN(o), InService(o))
      /\ ObjOK(o, obj[o], WN(o), CN(o), HN(o), PN(o), InService(o))
  BY GoodTyped DEF CoreInv
<1>2. Fields(obj[o], WN(o), CN(o), HN(o), PN(o), InService(o)) /\ WN(o).ends \in Nat
  BY <1>1, FieldsAre, TypedIs
<1>3. obj[o].life = "dying"
  BY <1>1, <1>2, TypedIs DEF ObjOK, DeadPart, LivePart, Enders
<1> QED
  BY <1>1, <1>3 DEF ObjOK, DeadPart, Unused, UsePart, GroupPart

(* The worker destroys it. *)
LEMMA WorkerDestroyCore ==
  ASSUME BaseInv, BaseInv', CoreInv, NEW w \in Workers, WorkerDestroy(w), UNCHANGED queueVars
  PROVE  CoreInv'
<1>0. Shape /\ Shape' /\ ObjInv /\ IoShape /\ ListedOK /\ MembersOK /\ CallersInv
  BY DEF BaseInv, CoreInv
<1>1. PICK o : o = worker[w].obj
  OBVIOUS
<1> DEFINE r == [NoWorker EXCEPT !.pc = "run"]
<1>2. /\ worker[w].pc = "destroy" /\ tp_object_destroy(o) /\ caller' = caller
      /\ worker' = [worker EXCEPT ![w] = r]
  BY <1>1 DEF WorkerDestroy
<1>3. o \in Objects /\ worker[w] \in EndsOf(o)
  BY <1>0, <1>1, <1>2 DEF Shape, WorkerSet, EndsOf
<1>4. r.pc = "run"
  BY DEF NoWorker
<1> HIDE DEF r
<1>5. \A x : x # o => ~Handles1(worker[w], x) /\ ~Handles1(r, x)
  BY <1>1, <1>4 DEF Handles1
<1>6. WorkShift(o, worker[w], r) /\ KeptWork(o)
  BY <1>0, <1>2, <1>5, WorkerGoesOn
<1>7. /\ One(r \in RunsOf(o)) = 0 /\ One(r \in LinksOf(o)) = 0 /\ One(r \in EndsOf(o)) = 0
      /\ One(worker[w] \in RunsOf(o)) = 0 /\ One(worker[w] \in LinksOf(o)) = 0
      /\ One(worker[w] \in EndsOf(o)) = 1
  BY <1>2, <1>3, <1>4 DEF One, RunsOf, LinksOf, EndsOf
<1>8. /\ WN(o)' \in WNum /\ WN(o) \in WNum /\ WN(o)'.run = WN(o).run /\ WN(o)'.linked = WN(o).linked
      /\ WN(o)'.ends = WN(o).ends - 1
  BY <1>6, <1>7 DEF WorkShift, WNum
<1>9. WN(o).ends > 0
  BY <1>8 DEF WNum
<1>10. /\ Typed(obj[o], WN(o), CN(o), HN(o), PN(o), InService(o))
       /\ ObjOK(o, obj[o], WN(o), CN(o), HN(o), PN(o), InService(o))
       /\ CN(o) \in CNum /\ PN(o) \in PNum /\ HN(o) \in Nat
  BY <1>0, <1>3, GoodTyped
<1>11. /\ obj[o].life = "dying" /\ obj[o].pending = 0
       /\ obj[o].member = TRUE => obj[o].grouped = TRUE
  BY <1>0, <1>3, <1>9, DyingIs
<1>12. /\ DestroyedTo(obj[o], obj'[o]) /\ \A x \in Objects \ {o} : obj'[x] = obj[x]
       /\ MembersOK' /\ ListedOK'
  BY <1>0, <1>2, <1>3, <1>11, DestroyEffect
<1>13. SameButEnds(WN(o), CN(o), PN(o), WN(o)', CN(o), PN(o))
  BY <1>8, <1>10 DEF SameButEnds
<1>14. Enders(WN(o)', CN(o), HN(o), PN(o)) = Enders(WN(o), CN(o), HN(o), PN(o)) - 1
  <2>1. WN(o).ends \in Nat /\ CN(o).ends \in Nat /\ PN(o).ends \in Nat /\ HN(o) \in Nat
    BY <1>8, <1>10 DEF WNum, CNum, PNum
  <2> QED
    BY <1>8, <2>1 DEF Enders
<1>15. ObjOK(o, obj'[o], WN(o)', CN(o), HN(o), PN(o), InService(o))
  BY <1>3, <1>10, <1>11, <1>12, <1>13, <1>14, DestroysOK
<1>16. CallersInv' /\ \A x : CN(x)' = CN(x)
  BY <1>2, CallersSame
<1>17. ObjOK(o, obj'[o], WN(o)', CN(o)', HN(o), PN(o), InService(o)) /\ KeptCall(o) /\ KeptObj(o)
  BY <1>12, <1>15, <1>16 DEF KeptCall, KeptObj
<1> QED
  BY <1>6, <1>12, <1>16, <1>17, InPoolOne

(* Workers that move without an object. *)
LEMMA WorkersOnly ==
  ASSUME BaseInv, BaseInv', CoreInv, UNCHANGED queueVars, obj' = obj, pools' = pools,
         group'.members = group.members, caller' = caller,
         \A x \in Workers : SameWork(worker[x], worker'[x])
  PROVE  CoreInv'
<1>1. \A x : WN(x)' = WN(x)
  BY WorkSame DEF BaseInv
<1>2. CallersInv' /\ \A x : CN(x)' = CN(x)
  BY CallersSame
<1> QED
  BY <1>1, <1>2, InPoolNone

(* One of them. *)
LEMMA OneWorkerSame ==
  ASSUME Shape, NEW w \in Workers, NEW r, worker' = [worker EXCEPT ![w] = r],
         worker[w].pc \notin {"callback", "destroy"}, r.pc \notin {"callback", "destroy"}
  PROVE  \A x \in Workers : SameWork(worker[x], worker'[x])
<1>1. \A x \in Workers : worker'[x] = IF x = w THEN r ELSE worker[x]
  BY DEF Shape
<1> QED
  BY <1>1 DEF SameWork

(* The other steps of a worker leave the objects alone. *)
LEMMA WorkerRestCore ==
  ASSUME BaseInv, BaseInv', CoreInv, NEW w \in Workers, UNCHANGED queueVars,
         \/ WorkerCheck(w) \/ WorkerSleep(w) \/ WorkerTimeout(w) \/ WorkerTimedOut(w) \/ WorkerLeave(w)
  PROVE  CoreInv'
<1>1. obj' = obj /\ pools' = pools /\ group'.members = group.members /\ caller' = caller
  BY DEF WorkerCheck, WorkerSleep, WorkerTimeout, WorkerTimedOut, WorkerLeave
<1>2. Shape /\ worker[w] \in WorkerRec
  BY DEF BaseInv, Shape, WorkerSet
<1>3. \E r : /\ worker' = [worker EXCEPT ![w] = r] /\ r.pc \notin {"callback", "destroy"}
             /\ worker[w].pc \notin {"callback", "destroy"}
  <2>1. \A pc \in {"run", "check", "asleep", "timedout", "leave"} :
          worker' = [worker EXCEPT ![w].pc = pc] =>
            \E r : worker' = [worker EXCEPT ![w] = r] /\ r.pc \notin {"callback", "destroy"}
    <3> SUFFICES ASSUME NEW pc \in {"run", "check", "asleep", "timedout", "leave"},
                        worker' = [worker EXCEPT ![w].pc = pc]
                 PROVE  \E r : worker' = [worker EXCEPT ![w] = r] /\ r.pc \notin {"callback", "destroy"}
      OBVIOUS
    <3>1. PICK r : r = [worker[w] EXCEPT !.pc = pc]
      OBVIOUS
    <3>2. worker' = [worker EXCEPT ![w] = r] /\ r.pc \notin {"callback", "destroy"}
      BY <1>2, <3>1 DEF WorkerRec
    <3> QED
      BY <3>2
  <2>2. NoWorker.pc \notin {"callback", "destroy"}
    BY DEF NoWorker
  <2>3. CASE WorkerLeave(w)
    BY <2>2, <2>3 DEF WorkerLeave
  <2>4. CASE WorkerCheck(w)
    BY <2>1, <2>4 DEF WorkerCheck
  <2>5. CASE WorkerSleep(w)
    BY <2>1, <2>5 DEF WorkerSleep
  <2>6. CASE WorkerTimeout(w)
    BY <2>1, <2>6 DEF WorkerTimeout
  <2>7. CASE WorkerTimedOut(w)
    BY <2>1, <2>7 DEF WorkerTimedOut
  <2> QED
    BY <2>3, <2>4, <2>5, <2>6, <2>7
<1>4. \A x \in Workers : SameWork(worker[x], worker'[x])
  BY <1>2, <1>3, OneWorkerSame
<1> QED
  BY <1>1, <1>4, WorkersOnly

-----------------------------------------------------------------------------
(* What callbacks call. *)

(* The I/O queue stays. *)
LEMMA IoSame ==
  ASSUME CoreInv, UNCHANGED ioVars
  PROVE  IoShape' /\ KeyOK' /\ \A x : PN(x)' = PN(x)
<1>1. ioq' = ioq /\ port' = port /\ io' = io
  BY DEF ioVars
<1> QED
  BY <1>1 DEF CoreInv, IoShape, KeyOK, PN

(* A step that changes one object and the queues. *)
LEMMA OneCore ==
  ASSUME CoreInv, NEW o, Kept(o), o \in Objects => Good(o)', CallersInv', ListedOK', MembersOK',
         IoShape', KeyOK'
  PROVE  CoreInv'
  BY OneGood DEF CoreInv

(* Objects leave their queues. *)
LEMMA ShutdownEffect ==
  ASSUME BaseInv, CoreInv, NEW S \in SUBSET Objects, tp_object_prepare_shutdown(S)
  PROVE  /\ IoShape' /\ KeyOK' /\ \A x : HN(x)' = HN(x) /\ PN(x)' = PN(x)
         /\ \A x \in S : InService(x)' = FALSE
         /\ \A x \in Objects \ S : InService(x)' = InService(x)
<1>1. /\ tp_timerqueue_unlock(S \cap Timers) /\ tp_waitqueue_unlock(S \cap Waits) /\ UNCHANGED ioVars
  BY DEF tp_object_prepare_shutdown
<1>2. IoShape' /\ KeyOK' /\ \A x : PN(x)' = PN(x)
  BY <1>1, IoSame
<1>3. /\ HeldKept /\ \A x \in S \cap Waits : wait'[x].bucket = NoBucket
      /\ \A x \in Waits \ (S \cap Waits) : wait'[x] = wait[x]
  <2>1. S \cap Waits \in SUBSET Waits /\ WaitInv
    BY DEF BaseInv
  <2> QED
    BY <1>1, <2>1, UnlockEffect
<1>4. \A x \in Timers : timer'[x] = IF x \in S \cap Timers THEN NoTimer ELSE timer[x]
  BY <1>1 DEF tp_timerqueue_unlock
<1>5. NoTimer.initialized = FALSE
  BY DEF NoTimer
<1>6. \A x : HN(x)' = HN(x)
  BY <1>3, HoldSame
<1>7. ASSUME NEW x \in Objects
      PROVE  /\ x \in S => InService(x)' = FALSE
             /\ x \notin S => InService(x)' = InService(x)
  <2>1. x \in Timers => timer'[x] = IF x \in S THEN NoTimer ELSE timer[x]
    BY <1>4
  <2>2. x \in Waits => (x \in S => wait'[x].bucket = NoBucket) /\ (x \notin S => wait'[x] = wait[x])
    BY <1>3
  <2> QED
    BY <1>5, <2>1, <2>2 DEF InService
<1> QED
  BY <1>2, <1>6, <1>7

(* A callback is disassociated. *)
LEMMA DisassociateCore ==
  ASSUME BaseInv, BaseInv', CoreInv, NEW w \in Workers, TpDisassociateCallback(w), UNCHANGED queueVars
  PROVE  CoreInv'
<1>0. Shape /\ Shape' /\ ObjInv /\ IoShape /\ ListedOK /\ MembersOK /\ CallersInv
  BY DEF BaseInv, CoreInv
<1>1. /\ worker[w].pc = "callback" /\ worker[w].associated /\ pools' = pools /\ group' = group
      /\ worker' = [worker EXCEPT ![w].associated = FALSE]
  BY DEF TpDisassociateCallback, InCallback
<1>2. PICK o : o = worker[w].obj
  OBVIOUS
<1>3. /\ o \in Objects /\ WN(o).run > 0 /\ worker[w] \in RunsOf(o) /\ worker[w].associated \in BOOLEAN
      /\ worker[w] \in WorkerSet
  BY <1>0, <1>1, <1>2, RunsIs DEF RunsOf
<1>4. /\ Typed(obj[o], WN(o), CN(o), HN(o), PN(o), InService(o))
      /\ ObjOK(o, obj[o], WN(o), CN(o), HN(o), PN(o), InService(o)) /\ obj[o] \in ObjRec
  BY <1>0, <1>3, GoodTyped
<1>5. PICK n \in Int : n = obj[o].associated - 1
  BY <1>4 DEF ObjRec
<1>6. PICK e : e = [obj[o] EXCEPT !.associated = n]
  OBVIOUS
<1>7. Plain(obj[o], e) /\ e.associated = obj[o].associated - 1 /\ e.ops = obj[o].ops /\ e.skipped = obj[o].skipped
  BY <1>4, <1>5, <1>6 DEF Plain, ObjRec
<1>8. obj' = [obj EXCEPT ![o] = e] /\ WakeWaiters(o, e, {"sleep"})
  BY <1>2, <1>5, <1>6 DEF TpDisassociateCallback
<1>9. obj'[o] = e /\ KeptObj(o)
  BY <1>0, <1>3, <1>8 DEF Shape, KeptObj
<1>10. /\ \A x \in Callers : SameCall(caller[x], caller'[x])
       /\ CallersInv'
  <2>1. {"sleep"} \in SUBSET {"sleep", "gsleep"}
    OBVIOUS
  <2> QED
    BY <1>0, <1>8, <2>1, WakeWaitersSame
<1>11. \A x : CN(x)' = CN(x)
  BY <1>0, <1>10, CallSame
<1>12. PICK r : r = [worker[w] EXCEPT !.associated = FALSE]
  OBVIOUS
<1>13. /\ worker' = [worker EXCEPT ![w] = r] /\ r.pc = "callback" /\ r.obj = o /\ r.associated = FALSE
       /\ r \in WorkerSet
  BY <1>1, <1>2, <1>3, <1>12 DEF WorkerSet, WorkerRec
<1>14. \A x : x # o => ~Handles1(worker[w], x) /\ ~Handles1(r, x)
  BY <1>2, <1>13 DEF Handles1
<1>15. WorkShift(o, worker[w], r) /\ KeptWork(o)
  BY <1>0, <1>13, <1>14, WorkerGoesOn
<1>16. /\ One(r \in RunsOf(o)) = 1 /\ One(r \in LinksOf(o)) = 0 /\ One(r \in EndsOf(o)) = 0
       /\ One(worker[w] \in RunsOf(o)) = 1 /\ One(worker[w] \in EndsOf(o)) = 0
       /\ One(worker[w] \in LinksOf(o)) = 1
  BY <1>1, <1>3, <1>13 DEF One, RunsOf, LinksOf, EndsOf
<1>17. /\ WN(o)' \in WNum /\ WN(o)'.run = WN(o).run /\ WN(o)'.linked = WN(o).linked - 1
       /\ WN(o)'.ends = WN(o).ends
  BY <1>15, <1>16 DEF WorkShift, WNum
<1>18. ObjOK(o, e, WN(o)', CN(o), HN(o), PN(o), InService(o))
  BY <1>3, <1>4, <1>7, <1>17, LinkOK
<1>19. ListedOK' /\ MembersOK'
  <2>1. \A x \in Objects : obj'[x].pending = obj[x].pending /\ obj'[x].member = obj[x].member
    BY <1>7, <1>9 DEF Plain, KeptObj
  <2> QED
    BY <1>0, <1>1, <2>1, ListedSame, MembersSame
<1>20. ObjOK(o, obj'[o], WN(o)', CN(o)', HN(o), PN(o), InService(o)) /\ KeptCall(o)
  BY <1>9, <1>11, <1>18 DEF KeptCall
<1> QED
  BY <1>9, <1>10, <1>15, <1>19, <1>20, InPoolOne

(* A callback says that it may run long. *)
LEMMA MayRunLongCore ==
  ASSUME BaseInv, BaseInv', CoreInv, NEW w \in Workers, TpCallbackMayRunLong(w), UNCHANGED queueVars
  PROVE  CoreInv'
<1>1. obj' = obj /\ pools' = pools /\ group'.members = group.members /\ caller' = caller
  BY DEF TpCallbackMayRunLong
<1>2. worker \in [Workers -> WorkerSet] /\ worker[w] \in WorkerRec
  BY DEF BaseInv, Shape, WorkerSet
<1>3. PICK r : r = [worker[w] EXCEPT !.may_run_long = TRUE]
  OBVIOUS
<1>4. r.pc = worker[w].pc /\ r.obj = worker[w].obj /\ r.associated = worker[w].associated
  BY <1>2, <1>3 DEF WorkerRec
<1>5. CASE worker' = [worker EXCEPT ![w].may_run_long = TRUE]
  <2>1. \A x \in Workers : worker'[x] = IF x = w THEN r ELSE worker[x]
    BY <1>2, <1>3, <1>5
  <2>2. \A x \in Workers : SameWork(worker[x], worker'[x])
    BY <1>4, <2>1 DEF SameWork
  <2> QED
    BY <1>1, <2>2, WorkersOnly
<1>6. CASE /\ Spare # {}
           /\ worker' = [worker EXCEPT ![NewWorker] = [NoWorker EXCEPT !.pc = "run"],
                                       ![w].may_run_long = TRUE]
  <2>1. NewWorker \in Workers /\ worker[NewWorker].pc = "none"
    BY <1>6 DEF NewWorker, Spare
  <2>2. NewWorker # w
    BY <2>1 DEF TpCallbackMayRunLong, InCallback
  <2>3. \A x \in Workers : worker'[x] = IF x = w THEN r
                                        ELSE IF x = NewWorker THEN [NoWorker EXCEPT !.pc = "run"]
                                        ELSE worker[x]
    BY <1>2, <1>3, <1>6, <2>1, <2>2
  <2>4. [NoWorker EXCEPT !.pc = "run"].pc = "run"
    BY DEF NoWorker
  <2>5. \A x \in Workers : SameWork(worker[x], worker'[x])
    BY <1>4, <2>1, <2>3, <2>4 DEF SameWork
  <2> QED
    BY <1>1, <2>5, WorkersOnly
<1> QED
  BY <1>5, <1>6 DEF TpCallbackMayRunLong

(* The record with which an object is submitted. *)
Ready(ob, f) ==
    /\ f \in ObjRec /\ f.life = ob.life /\ f.refcount = ob.refcount /\ f.owner = ob.owner
    /\ f.shutdown = ob.shutdown /\ f.grouped = ob.grouped /\ f.member = ob.member
    /\ f.pending = ob.pending /\ f.running = ob.running /\ f.associated = ob.associated
    /\ f.skipped = ob.skipped /\ f.ops \in 0..ob.ops /\ f.posts >= 0 /\ f.signaled >= 0
    /\ f.completions >= ob.completions
FewerSubs(c, d) ==
    /\ d \in CNum /\ d.sub <= c.sub /\ d.join = c.join /\ d.rel = c.rel /\ d.wait = c.wait
    /\ d.ends = c.ends /\ d.keep = c.keep

(* A live object that is not simple is submitted, by whoever. *)
LEMMA SubmitCore ==
  ASSUME BaseInv, BaseInv', CoreInv, NEW o \in Objects, Type[o] # "simple", obj[o].life = "live",
         NEW f, Ready(obj[o], f), Type[o] = "io" => f.completions = obj[o].completions + 1,
         NEW p, tp_object_submit(o, f, p), group' = group,
         FewerSubs(CN(o), CN(o)'), KeptCall(o), CallersInv',
         KeptPort(o), PN(o)' \in PNum, PN(o)'.ends = PN(o).ends, PN(o)'.closes = PN(o).closes,
         PN(o)'.packets <= f.ops + f.skipped,
         PN(o)'.again = TRUE => Type[o] = "io" /\ obj[o].shutdown = FALSE,
         \A x \in Objects : HN(x)' = HN(x), \A x \in Objects : InService(x)' = InService(x),
         IoShape', KeyOK'
  PROVE  CoreInv'
<1>0. Shape /\ Shape' /\ ObjInv /\ IoShape /\ ListedOK /\ MembersOK /\ CallersInv
  BY DEF BaseInv, CoreInv
<1>1. /\ Typed(obj[o], WN(o), CN(o), HN(o), PN(o), InService(o))
      /\ ObjOK(o, obj[o], WN(o), CN(o), HN(o), PN(o), InService(o)) /\ obj[o] \in ObjRec
  BY <1>0, GoodTyped
<1>2. f.pending = obj[o].pending /\ f.pending >= 0 /\ f \in ObjRec
  BY <1>1 DEF Ready, ObjOK, CountPart
<1>3. /\ SubmittedTo(f, obj'[o]) /\ obj'[o].ops = f.ops /\ obj'[o].posts = f.posts
      /\ obj'[o].signaled = f.signaled /\ obj'[o].completions = f.completions
      /\ \A x \in Objects \ {o} : obj'[x] = obj[x]
      /\ \A x \in Workers : SameWork(worker[x], worker'[x])
      /\ ListedOK'
  BY <1>0, <1>2, SubmitEffect
<1>4. \A x : WN(x)' = WN(x)
  BY <1>0, <1>3, WorkSame
<1>5. PICK e : e = obj'[o]
  OBVIOUS
<1>6. /\ SubmittedTo(obj[o], e) /\ e.ops \in 0..obj[o].ops /\ e.posts >= 0 /\ e.signaled >= 0
      /\ e.completions >= obj[o].completions
      /\ Type[o] = "io" => e.completions = obj[o].completions + 1
      /\ PN(o)'.packets <= e.ops + e.skipped
  BY <1>3, <1>5 DEF SubmittedTo, Ready
<1>7. /\ CN(o)' \in CNum /\ CN(o)'.sub <= CN(o).sub /\ CN(o)'.join = CN(o).join
      /\ CN(o)'.rel = CN(o).rel /\ CN(o)'.wait = CN(o).wait
      /\ CN(o)'.ends = CN(o).ends /\ CN(o)'.keep = CN(o).keep
  BY DEF FewerSubs
<1>8. ObjOK(o, e, WN(o), CN(o)', HN(o), PN(o)', InService(o))
  BY <1>1, <1>6, <1>7, SubmitsOK
<1>9. Good(o)'
  <2>1. HN(o)' = HN(o) /\ InService(o)' = InService(o) /\ WN(o)' = WN(o)
    BY <1>4
  <2>2. ObjOK(o, obj'[o], WN(o)', CN(o)', HN(o)', PN(o)', InService(o)')
    BY <1>5, <1>8, <2>1
  <2> QED
    BY <2>2 DEF Good
<1>10. MembersOK'
  <2>1. \A x \in Objects : obj'[x].member = obj[x].member
    BY <1>3, <1>5, <1>6 DEF SubmittedTo
  <2> QED
    BY <1>0, <2>1, MembersSame
<1>11. Kept(o)
  BY <1>3, <1>4 DEF Kept, KeptObj, KeptWork, KeptHold, KeptServ
<1> QED
  BY <1>3, <1>9, <1>10, <1>11, OneCore

(* The I/O queue and the callers stay. *)
LEMMA SubmitPlain ==
  ASSUME BaseInv, BaseInv', CoreInv, NEW o \in Objects, Type[o] \notin {"simple", "io"},
         obj[o].life = "live", NEW f, Ready(obj[o], f), f.ops = obj[o].ops,
         NEW p, tp_object_submit(o, f, p), group' = group, caller' = caller, UNCHANGED ioVars,
         \A x \in Objects : HN(x)' = HN(x), \A x \in Objects : InService(x)' = InService(x)
  PROVE  CoreInv'
<1>1. CallersInv' /\ \A x : CN(x)' = CN(x)
  BY CallersSame
<1>2. IoShape' /\ KeyOK' /\ \A x : PN(x)' = PN(x)
  BY IoSame
<1>3. /\ Typed(obj[o], WN(o), CN(o), HN(o), PN(o), InService(o))
      /\ ObjOK(o, obj[o], WN(o), CN(o), HN(o), PN(o), InService(o)) /\ obj[o] \in ObjRec
      /\ CN(o) \in CNum /\ PN(o) \in PNum
  BY GoodTyped DEF BaseInv, CoreInv
<1>4. FewerSubs(CN(o), CN(o)') /\ KeptCall(o)
  BY <1>1, <1>3 DEF FewerSubs, KeptCall, CNum
<1>5. PN(o).packets <= f.ops + f.skipped /\ (PN(o).again = TRUE => Type[o] = "io")
  BY <1>3 DEF ObjOK, CountPart, UsePart, IoPart, Ready
<1>6. /\ KeptPort(o) /\ PN(o)' \in PNum /\ PN(o)'.ends = PN(o).ends /\ PN(o)'.closes = PN(o).closes
      /\ PN(o)'.packets <= f.ops + f.skipped
      /\ PN(o)'.again = TRUE => Type[o] = "io" /\ obj[o].shutdown = FALSE
  BY <1>2, <1>3, <1>5 DEF KeptPort
<1> QED
  BY <1>1, <1>2, <1>4, <1>6, SubmitCore

(* A callback posts its object again. *)
LEMMA CallbackPostsCore ==
  ASSUME BaseInv, BaseInv', CoreInv, NEW w \in Workers, CallbackPosts(w), UNCHANGED queueVars
  PROVE  CoreInv'
<1>0. Shape /\ Shape' /\ ObjInv /\ IoShape
  BY DEF BaseInv, CoreInv
<1>1. PICK o : o = worker[w].obj
  OBVIOUS
<1>2. /\ worker[w].pc = "callback" /\ Type[o] = "work" /\ tp_object_submit(o, Counted(o), pool)
      /\ group' = group /\ caller' = caller
  BY <1>1 DEF CallbackPosts, InCallback
<1>3. o \in Objects /\ WN(o).run > 0
  BY <1>0, <1>1, <1>2, RunsIs
<1>4. /\ Typed(obj[o], WN(o), CN(o), HN(o), PN(o), InService(o))
      /\ ObjOK(o, obj[o], WN(o), CN(o), HN(o), PN(o), InService(o))
  BY <1>0, <1>3, GoodTyped
<1>5. obj[o].life = "live"
  BY <1>3, <1>4, AliveIf
<1>6. PICK f : f = Counted(o)
  OBVIOUS
<1>7. Ready(obj[o], f) /\ f.ops = obj[o].ops
  BY <1>0, <1>3, <1>4, <1>6, CountedIs, TypedIs DEF Ready, ObjOK, CountPart
<1>8. UNCHANGED ioVars /\ \A x : HN(x)' = HN(x) /\ InService(x)' = InService(x)
  BY QueuesSame DEF queueVars
<1> QED
  BY <1>2, <1>3, <1>5, <1>6, <1>7, <1>8, SubmitPlain

(* A callback releases its object. *)
LEMMA CallbackReleasesCore ==
  ASSUME BaseInv, BaseInv', CoreInv, NEW w \in Workers, CallbackReleasesObject(w)
  PROVE  CoreInv'
<1>0. Shape /\ Shape' /\ ObjInv /\ IoShape /\ ListedOK /\ MembersOK /\ CallersInv
  BY DEF BaseInv, CoreInv
<1>1. PICK o : o = worker[w].obj
  OBVIOUS
<1>2. /\ worker[w].pc = "callback" /\ Type[o] # "io" /\ obj[o].owner # "none" /\ ~obj[o].shutdown
      /\ NotInCall(o) /\ pools' = pools /\ group' = group /\ worker' = worker /\ caller' = caller
      /\ obj' = [obj EXCEPT ![o] = Closed(@, 1, IF @.owner = "user" THEN "none" ELSE @.owner)]
      /\ tp_object_prepare_shutdown({o})
  BY <1>1 DEF CallbackReleasesObject, CallbackReleases, InCallback
<1>3. o \in Objects /\ WN(o).run > 0
  BY <1>0, <1>1, <1>2, RunsIs
<1>4. /\ Typed(obj[o], WN(o), CN(o), HN(o), PN(o), InService(o))
      /\ ObjOK(o, obj[o], WN(o), CN(o), HN(o), PN(o), InService(o)) /\ obj[o] \in ObjRec
  BY <1>0, <1>3, GoodTyped
<1>5. PICK own \in {"none", "group"} : own = IF obj[o].owner = "user" THEN "none" ELSE obj[o].owner
  BY <1>2, <1>4 DEF ObjRec
<1>6. PICK e : e = Closed(obj[o], 1, own)
  OBVIOUS
<1>7. ReleasedIs(obj[o], e, 1, own)
  BY <1>4, <1>6, ReleaseIs
<1>8. obj'[o] = e /\ KeptObj(o)
  BY <1>0, <1>2, <1>3, <1>5, <1>6 DEF Shape, KeptObj
<1>9. CN(o).wait = 0 /\ CN(o).sub = 0 /\ obj[o].shutdown = FALSE
  BY <1>0, <1>2, <1>4, NotInCallIs DEF ObjRec
<1>10. ObjOK(o, e, WN(o), CN(o), HN(o), PN(o), FALSE)
  BY <1>2, <1>3, <1>4, <1>7, <1>9, CallbackReleaseOK
<1>11. {o} \in SUBSET Objects
  BY <1>3
<1>12. /\ IoShape' /\ KeyOK' /\ \A x : HN(x)' = HN(x) /\ PN(x)' = PN(x)
       /\ InService(o)' = FALSE
       /\ \A x \in Objects \ {o} : InService(x)' = InService(x)
  BY <1>2, <1>11, ShutdownEffect
<1>13. CallersInv' /\ \A x : CN(x)' = CN(x)
  BY <1>2, CallersSame
<1>14. \A x : WN(x)' = WN(x)
  BY <1>2, WorkersSame
<1>15. Good(o)'
  <2>1. ObjOK(o, obj'[o], WN(o)', CN(o)', HN(o)', PN(o)', InService(o)')
    BY <1>8, <1>10, <1>12, <1>13, <1>14
  <2> QED
    BY <2>1 DEF Good
<1>16. ListedOK' /\ MembersOK'
  <2>1. \A x \in Objects : obj'[x].pending = obj[x].pending /\ obj'[x].member = obj[x].member
    BY <1>7, <1>8 DEF ReleasedIs, KeptObj
  <2> QED
    BY <1>0, <1>2, <2>1, ListedSame, MembersSame
<1>17. Kept(o)
  BY <1>8, <1>12, <1>13, <1>14 DEF Kept, KeptWork, KeptCall, KeptHold, KeptPort, KeptServ
<1> QED
  BY <1>12, <1>13, <1>15, <1>16, <1>17, OneCore

(* The timers that are set, and those that are not, keep their place. *)
TimersKept == \A o \in Timers : timer'[o].initialized = timer[o].initialized

(* Timers that are set, expire or wait stay initialized. *)
LEMMA TimersKeptIf ==
  ASSUME TimerInv,
         \/ \E o \in Timers : \E at, p, n : TpSetTimerEx(o, at, p, n)
         \/ \E shut : submit_expired_timers(shut)
         \/ TimerThreadWaits \/ TimerThreadWakes \/ TimerThreadEnters
  PROVE  TimersKept
<1>0. timer \in [Timers -> TimerRec]
  BY DEF TimerInv
<1>1. CASE \E o \in Timers : \E at, p, n : TpSetTimerEx(o, at, p, n)
  <2>0. PICK o \in Timers : \E at, p, n : TpSetTimerEx(o, at, p, n)
    BY <1>1
  <2>1. PICK at, p, n : TpSetTimerEx(o, at, p, n)
    BY <2>0
  <2>2. PICK s, a, b, c, d :
          timer' = [timer EXCEPT ![o].set = s, ![o].pending = a, ![o].timeout = b, ![o].period = c,
                                 ![o].window = d]
    BY <2>1 DEF TpSetTimerEx
  <2>3. timer'[o].initialized = timer[o].initialized /\ \A x \in Timers \ {o} : timer'[x] = timer[x]
    BY <1>0, <2>2 DEF TimerRec
  <2> QED
    BY <2>3 DEF TimersKept
<1>2. CASE \E shut : submit_expired_timers(shut)
  <2>1. PICK shut : submit_expired_timers(shut)
    BY <1>2
  <2>2. PICK o : o = ExpiredTimer
    OBVIOUS
  <2>3. o \in Timers
    BY <2>1, <2>2, ExpiredIs DEF submit_expired_timers
  <2>4. PICK a, b : timer' = [timer EXCEPT ![o].pending = a, ![o].timeout = b]
    BY <2>1, <2>2 DEF submit_expired_timers
  <2>5. timer'[o].initialized = timer[o].initialized /\ \A x \in Timers \ {o} : timer'[x] = timer[x]
    BY <1>0, <2>3, <2>4 DEF TimerRec
  <2> QED
    BY <2>5 DEF TimersKept
<1>3. CASE TimerThreadWaits \/ TimerThreadWakes \/ TimerThreadEnters
  BY <1>3 DEF TimerThreadWaits, TimerThreadWakes, TimerThreadEnters, TimersKept
<1> QED
  BY <1>1, <1>2, <1>3

(* So do the objects in the queues. *)
LEMMA ServiceKept ==
  ASSUME TimersKept, QueuedKept
  PROVE  \A x : InService(x)' = InService(x)
  BY DEF TimersKept, QueuedKept, InService

(* The wait queue stays. *)
LEMMA WaitsSame ==
  ASSUME UNCHANGED waitVars
  PROVE  HeldKept /\ QueuedKept
  BY DEF waitVars, HeldKept, QueuedKept

(* The timer queue stays. *)
LEMMA TimersSame ==
  ASSUME UNCHANGED timerVars
  PROVE  TimersKept
  BY DEF timerVars, TimersKept

(* A step of the queues that leaves the pool alone. *)
LEMMA QueuesOnly ==
  ASSUME BaseInv, CoreInv, UNCHANGED poolVars, HeldKept, QueuedKept, TimersKept, UNCHANGED ioVars
  PROVE  CoreInv'
<1>1. obj' = obj /\ pools' = pools /\ group' = group /\ worker' = worker /\ caller' = caller
  BY DEF poolVars
<1>2. CallersInv' /\ \A x : CN(x)' = CN(x)
  BY <1>1, CallersSame
<1>3. \A x : WN(x)' = WN(x)
  BY <1>1, WorkersSame
<1>4. IoShape' /\ KeyOK' /\ \A x : PN(x)' = PN(x)
  BY IoSame
<1>5. \A x : HN(x)' = HN(x) /\ InService(x)' = InService(x)
  BY HoldSame, ServiceKept
<1>6. ListedOK' /\ MembersOK'
  BY <1>1, ListedSame, MembersSame DEF CoreInv
<1>7. PICK o : o \notin Objects
  BY PoolConstants
<1>8. Kept(o)
  BY <1>1, <1>2, <1>3, <1>4, <1>5 DEF Kept, KeptObj, KeptWork, KeptCall, KeptHold, KeptPort, KeptServ
<1> QED
  BY <1>2, <1>4, <1>6, <1>7, <1>8, OneCore

(* A callback sets its timer. *)
LEMMA CallbackSetsCore ==
  ASSUME BaseInv, CoreInv, NEW w \in Workers, NEW at, CallbackSetsTimer(w, at)
  PROVE  CoreInv'
<1>1. PICK o : o = worker[w].obj
  OBVIOUS
<1>2. /\ TpSetTimerEx(o, at, 0, 0) /\ Type[o] = "timer" /\ worker[w].pc = "callback"
      /\ UNCHANGED poolVars /\ UNCHANGED waitVars /\ UNCHANGED ioVars
  BY <1>1 DEF CallbackSetsTimer, InCallback
<1>3. o \in Timers
  BY <1>1, <1>2, RunsIs, KindsOfObjects DEF BaseInv
<1>4. TimersKept
  BY <1>2, <1>3, TimersKeptIf DEF BaseInv
<1> QED
  BY <1>2, <1>4, WaitsSame, QueuesOnly

(* Workers. *)
LEMMA WorkerMovesCore ==
  ASSUME BaseInv, BaseInv', CoreInv, NEW w \in Workers, WorkerMoves(w)
  PROVE  CoreInv'
<1>1. WorkerStep(w) /\ UNCHANGED queueVars
  BY DEF WorkerMoves, InPool
<1>2. CASE WorkerTake(w)
  BY <1>1, <1>2, WorkerTakeCore
<1>3. CASE WorkerReturn(w)
  BY <1>1, <1>3, WorkerReturnCore
<1>4. CASE WorkerDestroy(w)
  BY <1>1, <1>4, WorkerDestroyCore
<1>5. CASE WorkerCheck(w) \/ WorkerSleep(w) \/ WorkerTimeout(w) \/ WorkerTimedOut(w) \/ WorkerLeave(w)
  BY <1>1, <1>5, WorkerRestCore
<1> QED
  BY <1>1, <1>2, <1>3, <1>4, <1>5 DEF WorkerStep

(* What callbacks call. *)
LEMMA CallbackCallsCore ==
  ASSUME BaseInv, BaseInv', CoreInv, NEW w \in Workers, CallbackCalls(w)
  PROVE  CoreInv'
<1>1. CASE InPool(TpDisassociateCallback(w))
  BY <1>1, DisassociateCore DEF InPool
<1>2. CASE InPool(TpCallbackMayRunLong(w))
  BY <1>2, MayRunLongCore DEF InPool
<1>3. CASE InPool(CallbackPosts(w))
  BY <1>3, CallbackPostsCore DEF InPool
<1>4. CASE CallbackReleasesObject(w)
  BY <1>4, CallbackReleasesCore
<1>5. CASE \E at \in Timeouts : CallbackSetsTimer(w, at)
  BY <1>5, CallbackSetsCore
<1> QED
  BY <1>1, <1>2, <1>3, <1>4, <1>5 DEF CallbackCalls

-----------------------------------------------------------------------------
(* Steps of callers. *)

(* The empty list. *)
LEMMA NoList == Rng(<<>>) = {} /\ Once(<<>>)
<1>1. <<>> \in Seq(Objects)
  OBVIOUS
<1>2. Rng(<<>>) = {} /\ Len(<<>>) = 0
  BY <1>1, RngIs
<1> QED
  BY <1>2 DEF Once

(* A caller is in a call for o. *)
Calls(c, o) == c.pc \in {"submit", "join", "release", "wait", "sleep", "destroy"} /\ c.obj = o

(* The numbers of o when caller t goes on, and the same for the others: they *)
(* are kept by t, or not, as before.                                        *)
LEMMA CallerPasses ==
  ASSUME Shape, Shape', NEW t \in Callers, NEW c, caller' = [caller EXCEPT ![t] = c], NEW o,
         \A x \in Objects : x # o => ~Calls(caller[t], x) /\ ~Calls(c, x),
         \A x \in Objects : x # o => (x \in Rng(caller[t].list) <=> x \in Rng(c.list))
  PROVE  CallShift(o, caller[t], c) /\ KeptCall(o) /\ caller'[t] = c
<1>1. caller'[t] = c /\ \A x \in Callers \ {t} : caller'[x] = caller[x]
  BY DEF Shape
<1>2. \A x \in Callers \ {t} : SameCall(caller[x], caller'[x])
  BY <1>1 DEF SameCall
<1>3. CallShift(o, caller[t], c)
  BY <1>1, <1>2, CallStep
<1>4. DOMAIN caller = Callers /\ DOMAIN caller' = Callers
  BY DEF Shape
<1>5. \A y \in Callers : caller[y] \in CallerSet /\ caller'[y] \in CallerSet
  BY DEF Shape
<1>6. ASSUME NEW x \in Objects, x # o
      PROVE  CN(x)' = CN(x)
  <2>1. ASSUME NEW P \in {{"submit"}, {"join"}, {"release"}, {"wait", "sleep"}, {"destroy"}}
        PROVE  Cnt(caller', CallsAt(x, P)) = Cnt(caller, CallsAt(x, P))
    <3>1. caller[t] \notin CallsAt(x, P) /\ caller'[t] \notin CallsAt(x, P)
      BY <1>1, <1>6 DEF CallsAt, Calls
    <3>2. \A y \in Callers : caller[y] \in CallsAt(x, P) <=> caller'[y] \in CallsAt(x, P)
      BY <1>1, <3>1
    <3> QED
      BY ONLY <1>4, <3>2, CntSame
  <2>2. Cnt(caller', Keepers(x)) = Cnt(caller, Keepers(x))
    <3>1. caller[t] \in Keepers(x) <=> caller'[t] \in Keepers(x)
      BY <1>1, <1>5, <1>6 DEF Keepers
    <3>2. \A y \in Callers : caller[y] \in Keepers(x) <=> caller'[y] \in Keepers(x)
      BY <1>1, <3>1
    <3> QED
      BY ONLY <1>4, <3>2, CntSame
  <2> QED
    BY <2>1, <2>2 DEF CN
<1> QED
  BY <1>1, <1>3, <1>6 DEF KeptCall

(* A caller in a call: its object, and no list. *)
LEMMA InCallIs ==
  ASSUME Shape, CallersInv, NEW t \in Callers,
         caller[t].pc \in {"submit", "join", "release", "wait", "sleep"}
  PROVE  /\ caller[t] \in CallerSet /\ caller[t].obj \in Objects /\ caller[t].list = <<>>
         /\ \A x : x \notin Rng(caller[t].list)
<1>1. caller[t] \in CallerSet /\ CallerGood(caller[t])
  BY DEF Shape, CallersInv
<1>2. caller[t].list = <<>> /\ caller[t].obj \in Objects
  BY <1>1 DEF CallerGood, CallerSet
<1> QED
  BY <1>1, <1>2, NoList

(* A caller that is done, or goes on with its object. *)
LEMMA NextPoint ==
  ASSUME NEW c \in CallerSet, c.list = <<>>, NEW pc
  PROVE  LET d == [c EXCEPT !.pc = pc] IN
         /\ d.pc = pc /\ d.obj = c.obj /\ d.list = <<>>
         /\ pc \in {"submit", "join", "release", "wait", "sleep", "destroy"} => CallerGood(d)
<1>1. LET d == [c EXCEPT !.pc = pc] IN d.pc = pc /\ d.obj = c.obj /\ d.list = <<>>
  BY DEF CallerSet, CallerRec
<1> QED
  BY <1>1, NoList DEF CallerGood

(* Outside of the API. *)
LEMMA IdleIs ==
  /\ CallerGood(Idle) /\ Idle.list = <<>> /\ Idle.pc = "idle" /\ \A x : x \notin Rng(Idle.list)
  /\ \A x : ~InHand(Idle, x) /\ ~Calls(Idle, x)
<1>1. Idle.list = <<>> /\ Idle.pc = "idle"
  BY FreshRecords
<1> QED
  BY <1>1, NoList DEF CallerGood, InHand, Calls

(* One reference less. *)
LEMMA DropGives ==
  ASSUME NEW ob \in ObjRec
  PROVE  GivenBack(ob, Dropped(ob, 1), 1)
<1>1. PICK e : e = Dropped(ob, 1)
  OBVIOUS
<1>2. GivenBack(ob, e, 1)
  BY <1>1, DroppedIs DEF GivenBack
<1> QED
  BY <1>1, <1>2

(* The submission of a simple object, or of a timer. *)
LEMMA CallerSubmitCore ==
  ASSUME BaseInv, BaseInv', CoreInv, NEW t \in Callers, CallerSubmit(t), UNCHANGED queueVars
  PROVE  CoreInv'
<1>0. Shape /\ Shape' /\ ObjInv /\ IoShape /\ ListedOK /\ MembersOK /\ CallersInv
  BY DEF BaseInv, CoreInv
<1>1. PICK o : o = caller[t].obj
  OBVIOUS
<1> DEFINE c == IF Type[o] # "simple" THEN Idle
                ELSE [caller[t] EXCEPT !.pc = IF obj[o].grouped THEN "join" ELSE "release"]
<1>2. /\ caller[t].pc = "submit" /\ tp_object_submit(o, obj[o], pool) /\ group' = group
      /\ caller' = [caller EXCEPT ![t] = c]
  BY <1>1 DEF CallerSubmit, Goto
<1>3. /\ caller[t] \in CallerSet /\ o \in Objects /\ caller[t].list = <<>>
      /\ \A x : x \notin Rng(caller[t].list)
  BY <1>0, <1>1, <1>2, InCallIs
<1>4. /\ Typed(obj[o], WN(o), CN(o), HN(o), PN(o), InService(o))
      /\ ObjOK(o, obj[o], WN(o), CN(o), HN(o), PN(o), InService(o)) /\ obj[o] \in ObjRec
      /\ PN(o) \in PNum
  BY <1>0, <1>3, GoodTyped
<1>5. /\ Type[o] # "simple" => c = Idle
      /\ Type[o] = "simple" =>
           /\ c.obj = o /\ c.list = <<>> /\ CallerGood(c)
           /\ obj[o].grouped = TRUE => c.pc = "join"
           /\ obj[o].grouped # TRUE => c.pc = "release"
  <2>1. PICK pc \in {"join", "release"} : pc = IF obj[o].grouped THEN "join" ELSE "release"
    OBVIOUS
  <2>2. LET d == [caller[t] EXCEPT !.pc = pc] IN
        d.pc = pc /\ d.obj = o /\ d.list = <<>> /\ CallerGood(d)
    BY <1>1, <1>3, NextPoint
  <2>3. Type[o] = "simple" => c = [caller[t] EXCEPT !.pc = pc]
    BY <2>1
  <2>4. /\ obj[o].grouped = TRUE => pc = "join"
        /\ obj[o].grouped # TRUE => pc = "release"
    BY <1>4, <2>1 DEF ObjRec
  <2>5. Type[o] # "simple" => c = Idle
    OBVIOUS
  <2> HIDE DEF c
  <2> QED
    BY <2>2, <2>3, <2>4, <2>5
<1> HIDE DEF c
<1>6. CallerGood(c) /\ \A x : x # o => ~InHand(caller[t], x) /\ ~InHand(c, x)
  BY <1>1, <1>3, <1>5, IdleIs, NoList DEF InHand
<1>7. CallersInv'
  BY <1>0, <1>2, <1>6, CallersStep
<1>8. CallShift(o, caller[t], c) /\ KeptCall(o) /\ c \in CallerSet
  BY <1>0, <1>2, <1>6, CallerGoesOn DEF Shape
<1>9. /\ One(caller[t] \in CallsAt(o, {"submit"})) = 1 /\ One(caller[t] \in CallsAt(o, {"join"})) = 0
      /\ One(caller[t] \in CallsAt(o, {"release"})) = 0
      /\ One(caller[t] \in CallsAt(o, {"wait", "sleep"})) = 0
      /\ One(caller[t] \in CallsAt(o, {"destroy"})) = 0 /\ One(caller[t] \in Keepers(o)) = 0
  BY <1>1, <1>2, <1>3 DEF One, CallsAt, Keepers
<1>10. /\ One(c \in CallsAt(o, {"submit"})) = 0 /\ One(c \in CallsAt(o, {"wait", "sleep"})) = 0
       /\ One(c \in CallsAt(o, {"destroy"})) = 0 /\ One(c \in Keepers(o)) = 0
  BY <1>5, IdleIs, NoList DEF One, CallsAt, Keepers
<1>11. CN(o) \in CNum /\ CN(o)' \in CNum
  BY <1>8 DEF CallShift
<1>12. /\ CN(o)'.sub = CN(o).sub - 1 /\ CN(o)'.wait = CN(o).wait /\ CN(o)'.ends = CN(o).ends
       /\ CN(o)'.keep = CN(o).keep /\ CN(o).sub > 0
  BY <1>8, <1>9, <1>10, <1>11 DEF CallShift, CNum
<1>13. CASE Type[o] # "simple"
  <2>1. One(c \in CallsAt(o, {"join"})) = 0 /\ One(c \in CallsAt(o, {"release"})) = 0
    BY <1>5, <1>13, IdleIs DEF One, CallsAt
  <2>2. CN(o)'.join = CN(o).join /\ CN(o)'.rel = CN(o).rel
    BY <1>8, <1>9, <1>11, <2>1 DEF CallShift, CNum
  <2>3. FewerSubs(CN(o), CN(o)')
    BY <1>11, <1>12, <2>2 DEF FewerSubs, CNum
  <2>4. Type[o] = "timer" /\ obj[o].life = "live"
    BY <1>3, <1>4, <1>12, <1>13, AliveIf DEF ObjOK, UsePart, UserPart
  <2>5. Ready(obj[o], obj[o])
    BY <1>4, TypedIs DEF Ready, ObjOK, CountPart, ObjRec
  <2>6. /\ \A x : HN(x)' = HN(x) /\ PN(x)' = PN(x) /\ InService(x)' = InService(x)
        /\ IoShape' /\ KeyOK'
    BY QueuesSame DEF CoreInv
  <2>7. /\ PN(o)' \in PNum /\ PN(o)'.ends = PN(o).ends /\ PN(o)'.closes = PN(o).closes
        /\ PN(o)'.packets <= obj[o].ops + obj[o].skipped
        /\ PN(o)'.again = TRUE => Type[o] = "io" /\ obj[o].shutdown = FALSE
        /\ KeptPort(o)
    BY <1>4, <2>6 DEF ObjOK, CountPart, UsePart, IoPart, KeptPort
  <2>8. Type[o] = "io" => obj[o].completions = obj[o].completions + 1
    BY <2>4
  <2>9. /\ \A x \in Objects : HN(x)' = HN(x)
        /\ \A x \in Objects : InService(x)' = InService(x)
    BY <2>6
  <2> QED
    BY <1>2, <1>3, <1>7, <1>8, <1>13, <2>3, <2>4, <2>5, <2>6, <2>7, <2>8, <2>9, SubmitCore
<1>14. CASE Type[o] = "simple"
  <2>1. /\ obj[o].grouped = TRUE => One(c \in CallsAt(o, {"join"})) = 1
                                    /\ One(c \in CallsAt(o, {"release"})) = 0
        /\ obj[o].grouped # TRUE => One(c \in CallsAt(o, {"join"})) = 0
                                    /\ One(c \in CallsAt(o, {"release"})) = 1
    BY <1>5, <1>8, <1>14 DEF One, CallsAt
  <2>2. /\ obj[o].grouped = TRUE => CN(o)'.join = CN(o).join + 1 /\ CN(o)'.rel = CN(o).rel
        /\ obj[o].grouped # TRUE => CN(o)'.join = CN(o).join /\ CN(o)'.rel = CN(o).rel + 1
    <3>1. CASE obj[o].grouped = TRUE
      <4>1. One(c \in CallsAt(o, {"join"})) = 1 /\ One(c \in CallsAt(o, {"release"})) = 0
        BY <2>1, <3>1
      <4>2. CN(o)'.join = CN(o).join + 1 /\ CN(o)'.rel = CN(o).rel
        BY <1>8, <1>9, <1>11, <4>1 DEF CallShift, CNum
      <4> QED
        BY <3>1, <4>2
    <3>2. CASE obj[o].grouped # TRUE
      BY <1>8, <1>9, <1>11, <2>1, <3>2 DEF CallShift, CNum
    <3> QED
      BY <3>1, <3>2
  <2>3. obj[o].pending >= 0
    BY <1>4 DEF ObjOK, CountPart
  <2>4. /\ SubmittedTo(obj[o], obj'[o]) /\ obj'[o].ops = obj[o].ops /\ obj'[o].posts = obj[o].posts
        /\ obj'[o].signaled = obj[o].signaled /\ obj'[o].completions = obj[o].completions
        /\ KeptObj(o) /\ ListedOK'
        /\ \A x \in Workers : SameWork(worker[x], worker'[x])
    BY <1>0, <1>2, <1>3, <1>4, <2>3, SubmitEffect DEF KeptObj
  <2>5. \A x : WN(x)' = WN(x)
    BY <1>0, <2>4, WorkSame
  <2>6. ObjOK(o, obj'[o], WN(o), CN(o)', HN(o), PN(o), InService(o))
    BY <1>3, <1>4, <1>11, <1>12, <1>14, <2>2, <2>4, SimpleSubmitsOK
  <2>7. ObjOK(o, obj'[o], WN(o)', CN(o)', HN(o), PN(o), InService(o)) /\ KeptWork(o)
    BY <2>5, <2>6 DEF KeptWork
  <2>8. MembersOK'
    <3>1. \A x \in Objects : obj'[x].member = obj[x].member
      BY <2>4 DEF SubmittedTo, KeptObj
    <3> QED
      BY <1>0, <1>2, <3>1, MembersSame
  <2> QED
    BY <1>7, <1>8, <2>4, <2>7, <2>8, InPoolOne
<1> QED
  BY <1>13, <1>14

(* A simple object joins the group. *)
LEMMA SimpleJoinCore ==
  ASSUME BaseInv, BaseInv', CoreInv, NEW t \in Callers, SimpleJoin(t), UNCHANGED queueVars
  PROVE  CoreInv'
<1>0. Shape /\ Shape' /\ ObjInv /\ IoShape /\ ListedOK /\ MembersOK /\ CallersInv
  BY DEF BaseInv, CoreInv
<1>1. PICK o : o = caller[t].obj
  OBVIOUS
<1> DEFINE c == [caller[t] EXCEPT !.pc = "release"]
<1>2. /\ caller[t].pc = "join" /\ pools' = pools /\ worker' = worker
      /\ group' = [group EXCEPT !.refcount = @ + 1, !.members = Append(@, o)]
      /\ obj' = [obj EXCEPT ![o] = [obj[o] EXCEPT !.member = TRUE]]
      /\ caller' = [caller EXCEPT ![t] = c]
  BY <1>1 DEF SimpleJoin, Goto
<1>3. /\ caller[t] \in CallerSet /\ o \in Objects /\ caller[t].list = <<>>
      /\ \A x : x \notin Rng(caller[t].list)
  BY <1>0, <1>1, <1>2, InCallIs
<1>4. /\ Typed(obj[o], WN(o), CN(o), HN(o), PN(o), InService(o))
      /\ ObjOK(o, obj[o], WN(o), CN(o), HN(o), PN(o), InService(o)) /\ obj[o] \in ObjRec
  BY <1>0, <1>3, GoodTyped
<1>5. c.obj = o /\ c.list = <<>> /\ CallerGood(c) /\ c.pc = "release"
  BY <1>1, <1>3, NextPoint
<1> HIDE DEF c
<1>6. \A x : x # o => ~InHand(caller[t], x) /\ ~InHand(c, x)
  BY <1>1, <1>3, <1>5, NoList DEF InHand
<1>7. CallersInv'
  BY <1>0, <1>2, <1>5, CallersStep
<1>8. CallShift(o, caller[t], c) /\ KeptCall(o) /\ c \in CallerSet
  BY <1>0, <1>2, <1>6, CallerGoesOn DEF Shape
<1>9. /\ One(caller[t] \in CallsAt(o, {"submit"})) = 0 /\ One(caller[t] \in CallsAt(o, {"join"})) = 1
      /\ One(caller[t] \in CallsAt(o, {"release"})) = 0
      /\ One(caller[t] \in CallsAt(o, {"wait", "sleep"})) = 0
      /\ One(caller[t] \in CallsAt(o, {"destroy"})) = 0 /\ One(caller[t] \in Keepers(o)) = 0
  BY <1>1, <1>2, <1>3 DEF One, CallsAt, Keepers
<1>10. /\ One(c \in CallsAt(o, {"submit"})) = 0 /\ One(c \in CallsAt(o, {"wait", "sleep"})) = 0
       /\ One(c \in CallsAt(o, {"join"})) = 0 /\ One(c \in CallsAt(o, {"release"})) = 1
       /\ One(c \in CallsAt(o, {"destroy"})) = 0 /\ One(c \in Keepers(o)) = 0
  BY <1>5, <1>8, NoList DEF One, CallsAt, Keepers
<1>11. CN(o) \in CNum /\ CN(o)' \in CNum
  BY <1>8 DEF CallShift
<1>12. /\ CN(o)'.sub = CN(o).sub /\ CN(o)'.wait = CN(o).wait /\ CN(o)'.ends = CN(o).ends
       /\ CN(o)'.keep = CN(o).keep /\ CN(o)'.join = CN(o).join - 1 /\ CN(o)'.rel = CN(o).rel + 1
       /\ CN(o).join > 0
  BY <1>8, <1>9, <1>10, <1>11 DEF CallShift, CNum
<1>13. JoinedTo(obj[o], obj'[o], TRUE) /\ KeptObj(o)
  <2>1. obj'[o] = [obj[o] EXCEPT !.member = TRUE] /\ KeptObj(o)
    BY <1>0, <1>2, <1>3 DEF Shape, KeptObj
  <2> QED
    BY <1>4, <2>1 DEF JoinedTo, ObjRec
<1>14. ObjOK(o, obj'[o], WN(o), CN(o)', HN(o), PN(o), InService(o))
  BY <1>3, <1>4, <1>11, <1>12, <1>13, JoinOK
<1>15. \A x : WN(x)' = WN(x)
  BY <1>2, WorkersSame
<1>16. ListedOK'
  <2>1. \A x \in Objects : obj'[x].pending = obj[x].pending
    BY <1>13 DEF JoinedTo, KeptObj
  <2> QED
    BY <1>0, <1>2, <2>1, ListedSame
<1>17. MembersOK'
  <2>1. group \in GroupRec /\ group.members \in Seq(Objects)
    BY <1>0 DEF Shape, GroupRec
  <2>2. group'.members = Append(group.members, o)
    BY <1>2, <1>3, <2>1, JoinIs
  <2>3. obj[o].member = FALSE /\ obj'[o].member = TRUE
    BY <1>4, <1>12, <1>13 DEF ObjOK, UsePart, GroupPart, JoinedTo
  <2>4. o \notin Rng(group.members)
    BY <1>0, <1>3, <2>3 DEF MembersOK
  <2>5. Once(group'.members) /\ Rng(group'.members) = Rng(group.members) \cup {o}
    BY <1>0, <1>3, <2>1, <2>2, <2>4, AppendIs DEF MembersOK
  <2>6. \A x \in Objects : x \in Rng(group'.members) <=> obj'[x].member = TRUE
    BY <1>0, <1>13, <2>3, <2>5 DEF MembersOK, KeptObj
  <2> QED
    BY <2>5, <2>6 DEF MembersOK
<1>18. ObjOK(o, obj'[o], WN(o)', CN(o)', HN(o), PN(o), InService(o)) /\ KeptWork(o)
  BY <1>14, <1>15 DEF KeptWork
<1> QED
  BY <1>7, <1>8, <1>13, <1>16, <1>17, <1>18, InPoolOne

(* TpSimpleTryPost gives its reference back. *)
LEMMA SimpleReleaseCore ==
  ASSUME BaseInv, BaseInv', CoreInv, NEW t \in Callers, SimpleRelease(t), UNCHANGED queueVars
  PROVE  CoreInv'
<1>0. Shape /\ Shape' /\ ObjInv /\ IoShape /\ ListedOK /\ MembersOK /\ CallersInv
  BY DEF BaseInv, CoreInv
<1>1. PICK o : o = caller[t].obj
  OBVIOUS
<1> DEFINE c == IF obj[o].refcount = 1 THEN [caller[t] EXCEPT !.pc = "destroy"] ELSE Idle
<1>2. /\ caller[t].pc = "release" /\ pools' = pools /\ worker' = worker /\ group' = group
      /\ obj' = [obj EXCEPT ![o] = Dropped(@, 1)] /\ caller' = [caller EXCEPT ![t] = c]
  BY <1>1 DEF SimpleRelease, Goto
<1>3. /\ caller[t] \in CallerSet /\ o \in Objects /\ caller[t].list = <<>>
      /\ \A x : x \notin Rng(caller[t].list)
  BY <1>0, <1>1, <1>2, InCallIs
<1>4. /\ Typed(obj[o], WN(o), CN(o), HN(o), PN(o), InService(o))
      /\ ObjOK(o, obj[o], WN(o), CN(o), HN(o), PN(o), InService(o)) /\ obj[o] \in ObjRec
  BY <1>0, <1>3, GoodTyped
<1>5. /\ obj[o].refcount = 1 => c.obj = o /\ c.list = <<>> /\ CallerGood(c) /\ c.pc = "destroy"
      /\ obj[o].refcount # 1 => c = Idle
  BY <1>1, <1>3, NextPoint
<1> HIDE DEF c
<1>6. CallerGood(c) /\ \A x : x # o => ~InHand(caller[t], x) /\ ~InHand(c, x)
  BY <1>1, <1>3, <1>5, IdleIs, NoList DEF InHand
<1>7. CallersInv'
  BY <1>0, <1>2, <1>6, CallersStep
<1>8. CallShift(o, caller[t], c) /\ KeptCall(o) /\ c \in CallerSet
  BY <1>0, <1>2, <1>6, CallerGoesOn DEF Shape
<1>9. /\ One(caller[t] \in CallsAt(o, {"submit"})) = 0 /\ One(caller[t] \in CallsAt(o, {"join"})) = 0
      /\ One(caller[t] \in CallsAt(o, {"release"})) = 1
      /\ One(caller[t] \in CallsAt(o, {"wait", "sleep"})) = 0
      /\ One(caller[t] \in CallsAt(o, {"destroy"})) = 0 /\ One(caller[t] \in Keepers(o)) = 0
  BY <1>1, <1>2, <1>3 DEF One, CallsAt, Keepers
<1>10. /\ One(c \in CallsAt(o, {"submit"})) = 0 /\ One(c \in CallsAt(o, {"wait", "sleep"})) = 0
       /\ One(c \in CallsAt(o, {"join"})) = 0 /\ One(c \in CallsAt(o, {"release"})) = 0
       /\ One(c \in CallsAt(o, {"destroy"})) = One(obj[o].refcount = 1) /\ One(c \in Keepers(o)) = 0
  BY <1>5, <1>8, IdleIs, NoList DEF One, CallsAt, Keepers
<1>11. CN(o) \in CNum /\ CN(o)' \in CNum /\ One(obj[o].refcount = 1) \in {0, 1}
  BY <1>8 DEF CallShift, One
<1>12. /\ CN(o)'.sub = CN(o).sub /\ CN(o)'.wait = CN(o).wait
       /\ CN(o)'.ends = CN(o).ends + One(obj[o].refcount = 1)
       /\ CN(o)'.keep = CN(o).keep /\ CN(o)'.join = CN(o).join /\ CN(o)'.rel = CN(o).rel - 1
       /\ CN(o).rel > 0
  BY <1>8, <1>9, <1>10, <1>11 DEF CallShift, CNum
<1>13. PICK e : e = Dropped(obj[o], 1)
  OBVIOUS
<1>14. GivenBack(obj[o], e, 1)
  BY <1>4, <1>13, DropGives
<1>15. obj'[o] = e /\ KeptObj(o)
  BY <1>0, <1>2, <1>3, <1>13 DEF Shape, KeptObj
<1>16. ObjOK(o, e, WN(o), CN(o)', HN(o), PN(o), InService(o))
  BY <1>3, <1>4, <1>11, <1>12, <1>14, SimpleReleaseOK
<1>17. \A x : WN(x)' = WN(x)
  BY <1>2, WorkersSame
<1>18. ListedOK' /\ MembersOK'
  <2>1. \A x \in Objects : obj'[x].pending = obj[x].pending /\ obj'[x].member = obj[x].member
    BY <1>14, <1>15 DEF GivenBack, KeptObj
  <2> QED
    BY <1>0, <1>2, <2>1, ListedSame, MembersSame
<1>19. ObjOK(o, obj'[o], WN(o)', CN(o)', HN(o), PN(o), InService(o)) /\ KeptWork(o)
  BY <1>15, <1>16, <1>17 DEF KeptWork
<1> QED
  BY <1>7, <1>8, <1>15, <1>18, <1>19, InPoolOne

(* A caller destroys the object whose last reference it dropped. *)
LEMMA CallerDestroyCore ==
  ASSUME BaseInv, BaseInv', CoreInv, NEW t \in Callers, CallerDestroy(t), UNCHANGED queueVars
  PROVE  CoreInv'
<1>0. Shape /\ Shape' /\ ObjInv /\ IoShape /\ ListedOK /\ MembersOK /\ CallersInv
  BY DEF BaseInv, CoreInv
<1>1. PICK o : o = caller[t].obj
  OBVIOUS
<1>2. PICK pc \in {"idle", "gwait"} : pc = IF caller[t].list = <<>> THEN "idle" ELSE "gwait"
  OBVIOUS
<1> DEFINE c == [caller[t] EXCEPT !.obj = Nil, !.pc = pc]
<1>3. /\ caller[t].pc = "destroy" /\ tp_object_destroy(o) /\ worker' = worker
      /\ caller' = [caller EXCEPT ![t] = c]
  BY <1>1, <1>2 DEF CallerDestroy, Goto
<1>4. caller[t] \in CallerSet /\ o \in Objects /\ CallerGood(caller[t])
  BY <1>0, <1>1, <1>3 DEF Shape, CallersInv, CallerSet
<1>5. c.pc = pc /\ c.obj = Nil /\ c.list = caller[t].list
  BY <1>4 DEF CallerSet, CallerRec
<1> HIDE DEF c
<1>6. CallerGood(c)
  BY <1>2, <1>4, <1>5 DEF CallerGood
<1>7. CallersInv'
  BY <1>0, <1>3, <1>6, CallersStep
<1>8. CallShift(o, caller[t], c) /\ KeptCall(o) /\ c \in CallerSet
  <2>1. \A x \in Objects : x # o => ~Calls(caller[t], x) /\ ~Calls(c, x)
    BY <1>1, <1>5 DEF Calls
  <2>2. \A x \in Objects : x # o => (x \in Rng(caller[t].list) <=> x \in Rng(c.list))
    BY <1>5
  <2> QED
    BY <1>0, <1>3, <2>1, <2>2, CallerPasses DEF Shape
<1>9. /\ One(caller[t] \in CallsAt(o, {"submit"})) = 0 /\ One(caller[t] \in CallsAt(o, {"join"})) = 0
      /\ One(caller[t] \in CallsAt(o, {"release"})) = 0
      /\ One(caller[t] \in CallsAt(o, {"wait", "sleep"})) = 0
      /\ One(caller[t] \in CallsAt(o, {"destroy"})) = 1
  BY <1>1, <1>3, <1>4 DEF One, CallsAt
<1>10. /\ One(c \in CallsAt(o, {"submit"})) = 0 /\ One(c \in CallsAt(o, {"wait", "sleep"})) = 0
       /\ One(c \in CallsAt(o, {"join"})) = 0 /\ One(c \in CallsAt(o, {"release"})) = 0
       /\ One(c \in CallsAt(o, {"destroy"})) = 0
  BY <1>5 DEF One, CallsAt
<1>11. /\ CN(o) \in CNum /\ CN(o)' \in CNum
       /\ One(c \in Keepers(o)) = One(caller[t] \in Keepers(o)) /\ One(c \in Keepers(o)) \in {0, 1}
  BY <1>4, <1>5, <1>8 DEF CallShift, Keepers, One
<1>12. /\ CN(o)'.sub = CN(o).sub /\ CN(o)'.wait = CN(o).wait /\ CN(o)'.ends = CN(o).ends - 1
       /\ CN(o)'.keep = CN(o).keep /\ CN(o)'.join = CN(o).join /\ CN(o)'.rel = CN(o).rel
       /\ CN(o).ends > 0
  BY <1>8, <1>9, <1>10, <1>11 DEF CallShift, CNum
<1>13. /\ Typed(obj[o], WN(o), CN(o), HN(o), PN(o), InService(o))
       /\ ObjOK(o, obj[o], WN(o), CN(o), HN(o), PN(o), InService(o))
       /\ WN(o) \in WNum /\ PN(o) \in PNum /\ HN(o) \in Nat
  BY <1>0, <1>4, GoodTyped
<1>14. /\ obj[o].life = "dying" /\ obj[o].pending = 0
       /\ obj[o].member = TRUE => obj[o].grouped = TRUE
  BY <1>0, <1>4, <1>12, DyingIs
<1>15. /\ DestroyedTo(obj[o], obj'[o]) /\ KeptObj(o) /\ MembersOK' /\ ListedOK'
  BY <1>0, <1>3, <1>4, <1>14, DestroyEffect DEF KeptObj
<1>16. SameButEnds(WN(o), CN(o), PN(o), WN(o), CN(o)', PN(o))
  BY <1>11, <1>12, <1>13 DEF SameButEnds
<1>17. Enders(WN(o), CN(o)', HN(o), PN(o)) = Enders(WN(o), CN(o), HN(o), PN(o)) - 1
  <2>1. WN(o).ends \in Nat /\ CN(o).ends \in Nat /\ PN(o).ends \in Nat /\ HN(o) \in Nat
    BY <1>11, <1>13 DEF WNum, CNum, PNum
  <2> QED
    BY <1>12, <2>1 DEF Enders
<1>18. ObjOK(o, obj'[o], WN(o), CN(o)', HN(o), PN(o), InService(o))
  BY <1>4, <1>13, <1>14, <1>15, <1>16, <1>17, DestroysOK
<1>19. \A x : WN(x)' = WN(x)
  BY <1>3, WorkersSame
<1>20. ObjOK(o, obj'[o], WN(o)', CN(o)', HN(o), PN(o), InService(o)) /\ KeptWork(o)
  BY <1>18, <1>19 DEF KeptWork
<1> QED
  BY <1>7, <1>8, <1>15, <1>20, InPoolOne

(* A caller counts. *)
LEMMA CallerCounts ==
  ASSUME Shape, NEW t \in Callers, NEW A, caller[t] \in A
  PROVE  Cnt(caller, A) > 0
<1>1. DOMAIN caller = Callers /\ IsFiniteSet(Callers)
  BY PoolConstants DEF Shape
<1>2. Cnt(caller, A) \in Nat /\ Cnt(caller, A) # 0
  BY <1>1, CntSome
<1> QED
  BY <1>2

(* A wait looks at its object. *)
LEMMA ObjectWaitCore ==
  ASSUME BaseInv, BaseInv', CoreInv, NEW t \in Callers, tp_object_wait(t), UNCHANGED queueVars
  PROVE  CoreInv'
<1>0. Shape /\ Shape' /\ ObjInv /\ IoShape /\ ListedOK /\ MembersOK /\ CallersInv
  BY DEF BaseInv, CoreInv
<1>1. PICK o : o = caller[t].obj
  OBVIOUS
<1>2. /\ caller[t].pc = "wait" /\ UNCHANGED <<pool, pools, obj, group, worker>>
      /\ \/ caller' = [caller EXCEPT ![t] = Idle]
         \/ caller' = [caller EXCEPT ![t] = [caller[t] EXCEPT !.pc = "sleep"]]
  BY <1>1 DEF tp_object_wait, Goto
<1>3. /\ caller[t] \in CallerSet /\ o \in Objects /\ caller[t].list = <<>>
      /\ \A x : x \notin Rng(caller[t].list)
  BY <1>0, <1>1, <1>2, InCallIs
<1>4. PICK c \in {Idle, [caller[t] EXCEPT !.pc = "sleep"]} : caller' = [caller EXCEPT ![t] = c]
  BY <1>2
<1>5. c = Idle \/ (c.obj = o /\ c.list = <<>> /\ CallerGood(c) /\ c.pc = "sleep")
  <2>1. LET d == [caller[t] EXCEPT !.pc = "sleep"] IN
        d.obj = o /\ d.list = <<>> /\ CallerGood(d) /\ d.pc = "sleep"
    BY <1>1, <1>3, NextPoint
  <2> QED
    BY <1>4, <2>1
<1>6. CallerGood(c) /\ \A x : x # o => ~InHand(caller[t], x) /\ ~InHand(c, x)
  BY <1>1, <1>3, <1>5, IdleIs, NoList DEF InHand
<1>7. CallersInv'
  BY <1>0, <1>4, <1>6, CallersStep
<1>8. CallShift(o, caller[t], c) /\ KeptCall(o) /\ c \in CallerSet
  BY <1>0, <1>4, <1>6, CallerGoesOn DEF Shape
<1>9. /\ One(caller[t] \in CallsAt(o, {"submit"})) = 0 /\ One(caller[t] \in CallsAt(o, {"join"})) = 0
      /\ One(caller[t] \in CallsAt(o, {"release"})) = 0
      /\ One(caller[t] \in CallsAt(o, {"wait", "sleep"})) = 1
      /\ One(caller[t] \in CallsAt(o, {"destroy"})) = 0 /\ One(caller[t] \in Keepers(o)) = 0
  BY <1>1, <1>2, <1>3 DEF One, CallsAt, Keepers
<1>10. /\ One(c \in CallsAt(o, {"submit"})) = 0 /\ One(c \in CallsAt(o, {"join"})) = 0
       /\ One(c \in CallsAt(o, {"release"})) = 0 /\ One(c \in CallsAt(o, {"wait", "sleep"})) \in {0, 1}
       /\ One(c \in CallsAt(o, {"destroy"})) = 0 /\ One(c \in Keepers(o)) = 0
  BY <1>5, IdleIs, NoList DEF One, CallsAt, Keepers
<1>11. CN(o) \in CNum /\ CN(o)' \in CNum
  BY <1>8 DEF CallShift
<1>12. /\ CN(o)'.sub = CN(o).sub /\ CN(o)'.ends = CN(o).ends
       /\ CN(o)'.keep = CN(o).keep /\ CN(o)'.join = CN(o).join /\ CN(o)'.rel = CN(o).rel
       /\ CN(o).wait > 0
  <2>1. CN(o).wait > 0
    BY <1>0, <1>1, <1>2, <1>3, CallerCounts DEF CallsAt, CN
  <2> QED
    BY <1>8, <1>9, <1>10, <1>11, <2>1 DEF CallShift, CNum
<1>13. /\ Typed(obj[o], WN(o), CN(o), HN(o), PN(o), InService(o))
       /\ ObjOK(o, obj[o], WN(o), CN(o), HN(o), PN(o), InService(o))
  BY <1>0, <1>3, GoodTyped
<1>14. /\ obj[o].owner = "user" /\ obj[o].shutdown = FALSE /\ Type[o] # "simple"
       /\ CN(o)'.sub > 0 => Type[o] = "timer"
  BY <1>12, <1>13 DEF ObjOK, UsePart, UserPart, SimplePart
<1>15. ObjOK(o, obj[o], WN(o), CN(o)', HN(o), PN(o), InService(o))
  BY <1>3, <1>11, <1>12, <1>13, <1>14, CallsOK
<1>16. \A x : WN(x)' = WN(x)
  BY <1>2, WorkersSame
<1>17. /\ ObjOK(o, obj'[o], WN(o)', CN(o)', HN(o), PN(o), InService(o)) /\ KeptWork(o)
       /\ KeptObj(o)
  BY <1>2, <1>15, <1>16 DEF KeptWork, KeptObj
<1>18. ListedOK' /\ MembersOK'
  BY <1>0, <1>2, ListedSame, MembersSame
<1> QED
  BY <1>7, <1>8, <1>17, <1>18, InPoolOne

(* An object on the list of a caller counts. *)
LEMMA KeepIs ==
  ASSUME Shape, NEW t \in Callers, NEW o, o \in Rng(caller[t].list)
  PROVE  CN(o).keep > 0 /\ caller[t] \in Keepers(o)
<1>1. caller[t] \in CallerSet /\ DOMAIN caller = Callers /\ IsFiniteSet(Callers)
  BY PoolConstants DEF Shape
<1>2. caller[t] \in Keepers(o)
  BY <1>1 DEF Keepers
<1>3. Cnt(caller, Keepers(o)) \in Nat /\ Cnt(caller, Keepers(o)) # 0
  BY <1>1, <1>2, CntSome
<1> QED
  BY <1>2, <1>3 DEF CN

(* A group release cancels a member. *)
LEMMA GroupCancelCore ==
  ASSUME BaseInv, BaseInv', CoreInv, NEW t \in Callers, GroupCancel(t), UNCHANGED queueVars
  PROVE  CoreInv'
<1>0. Shape /\ Shape' /\ ObjInv /\ IoShape /\ ListedOK /\ MembersOK /\ CallersInv
  BY DEF BaseInv, CoreInv
<1>1. /\ caller[t].pc = "gcancel" /\ caller[t] \in CallerSet /\ CallerGood(caller[t])
      /\ caller[t].todo \in Seq(Objects) /\ caller[t].todo # <<>>
  BY <1>0, CallerList DEF GroupCancel, CallersInv, CallerSet
<1>2. PICK o, s : o = Head(caller[t].todo) /\ s = Tail(caller[t].todo)
  OBVIOUS
<1>3. PICK pc \in {"gwait", "gcancel"} : pc = IF Len(caller[t].todo) = 1 THEN "gwait" ELSE "gcancel"
  OBVIOUS
<1>4. o \in Objects /\ s \in Seq(Objects) /\ Rng(caller[t].todo) = {o} \cup Rng(s)
  BY <1>1, <1>2, TailIs
<1> DEFINE c == [caller[t] EXCEPT !.todo = s, !.pc = pc]
<1>5. /\ tp_object_cancel(o) /\ caller' = [caller EXCEPT ![t] = c]
      /\ worker' = worker /\ group' = group
  BY <1>2, <1>3 DEF GroupCancel, Goto
<1>6. c.pc = pc /\ c.obj = caller[t].obj /\ c.list = caller[t].list /\ c.todo = s
  BY <1>1 DEF CallerSet, CallerRec
<1> HIDE DEF c
<1>7. o \in Rng(caller[t].list) /\ Rng(s) \subseteq Rng(c.list)
  BY <1>1, <1>4, <1>6 DEF CallerGood
<1>8. CallerGood(c)
  BY <1>1, <1>6, <1>7 DEF CallerGood
<1>9. CallersInv'
  BY <1>0, <1>5, <1>8, CallersStep
<1>10. \A x : CN(x)' = CN(x)
  <2>1. \A x \in Callers : SameCall(caller[x], caller'[x])
    BY <1>0, <1>1, <1>5, <1>6 DEF SameCall, Shape
  <2> QED
    BY <1>0, <2>1, CallSame
<1>11. CN(o).keep > 0
  BY <1>0, <1>7, KeepIs
<1>12. /\ Typed(obj[o], WN(o), CN(o), HN(o), PN(o), InService(o))
       /\ ObjOK(o, obj[o], WN(o), CN(o), HN(o), PN(o), InService(o)) /\ CN(o) \in CNum
  BY <1>0, <1>4, GoodTyped
<1>13. ForgottenTo(obj[o], obj'[o]) /\ KeptObj(o) /\ ListedOK'
  BY <1>0, <1>4, <1>5, CancelEffect DEF KeptObj
<1>14. /\ SameButWait(CN(o), CN(o))
       /\ CN(o).wait > 0 => obj[o].owner = "user" /\ obj[o].shutdown = FALSE
  BY <1>12 DEF SameButWait, ObjOK, UsePart, UserPart
<1>15. ObjOK(o, obj'[o], WN(o), CN(o), HN(o), PN(o), InService(o))
  BY <1>4, <1>11, <1>12, <1>13, <1>14, CancelOK
<1>16. \A x : WN(x)' = WN(x)
  BY <1>5, WorkersSame
<1>17. MembersOK'
  <2>1. \A x \in Objects : obj'[x].member = obj[x].member
    BY <1>13 DEF ForgottenTo, KeptObj
  <2> QED
    BY <1>0, <1>5, <2>1, MembersSame
<1>18. /\ ObjOK(o, obj'[o], WN(o)', CN(o)', HN(o), PN(o), InService(o)) /\ KeptWork(o)
       /\ KeptCall(o)
  BY <1>10, <1>15, <1>16 DEF KeptWork, KeptCall
<1> QED
  BY <1>9, <1>13, <1>17, <1>18, InPoolOne

(* A group release waits for a member. *)
LEMMA GroupWaitCore ==
  ASSUME BaseInv, BaseInv', CoreInv, NEW t \in Callers, GroupWait(t), UNCHANGED queueVars
  PROVE  CoreInv'
<1>0. Shape /\ Shape' /\ ObjInv /\ IoShape /\ ListedOK /\ MembersOK /\ CallersInv
  BY DEF BaseInv, CoreInv
<1>1. /\ caller[t].pc = "gwait" /\ caller[t] \in CallerSet /\ CallerGood(caller[t])
  BY <1>0 DEF GroupWait, CallersInv, Shape
<1>2. PICK h : h = Head(caller[t].list)
  OBVIOUS
<1>3. PICK pc \in {"gdrop", "gsleep"} : pc = IF object_is_finished(obj[h], TRUE) THEN "gdrop" ELSE "gsleep"
  OBVIOUS
<1> DEFINE c == [caller[t] EXCEPT !.obj = h, !.pc = pc]
<1>4. /\ caller' = [caller EXCEPT ![t] = c] /\ UNCHANGED <<pool, pools, obj, group, worker>>
  BY <1>2, <1>3 DEF GroupWait, Goto
<1>5. c.pc = pc /\ c.obj = h /\ c.list = caller[t].list
  BY <1>1 DEF CallerSet, CallerRec
<1> HIDE DEF c
<1>6. CallerGood(c)
  BY <1>1, <1>2, <1>5 DEF CallerGood
<1>7. CallersInv'
  BY <1>0, <1>4, <1>6, CallersStep
<1>8. PICK o : o \notin Objects
  BY PoolConstants
<1>9. KeptCall(o)
  <2>1. \A x \in Objects : x # o => ~Calls(caller[t], x) /\ ~Calls(c, x)
    BY <1>1, <1>5 DEF Calls
  <2>2. \A x \in Objects : x # o => (x \in Rng(caller[t].list) <=> x \in Rng(c.list))
    BY <1>5
  <2> QED
    BY <1>0, <1>4, <2>1, <2>2, CallerPasses
<1>10. KeptObj(o) /\ KeptWork(o)
  BY <1>4, WorkersSame DEF KeptObj, KeptWork
<1>11. ListedOK' /\ MembersOK'
  BY <1>0, <1>4, ListedSame, MembersSame
<1> QED
  BY <1>7, <1>8, <1>9, <1>10, <1>11, InPoolOne

(* A group release gives a member back. *)
LEMMA GroupDropCore ==
  ASSUME BaseInv, BaseInv', CoreInv, NEW t \in Callers, GroupDrop(t), UNCHANGED queueVars
  PROVE  CoreInv'
<1>0. Shape /\ Shape' /\ ObjInv /\ IoShape /\ ListedOK /\ MembersOK /\ CallersInv
  BY DEF BaseInv, CoreInv
<1>1. /\ caller[t].pc = "gdrop" /\ caller[t] \in CallerSet /\ CallerGood(caller[t])
      /\ caller[t].list \in Seq(Objects) /\ caller[t].list # <<>> /\ Once(caller[t].list)
  BY <1>0, CallerList DEF GroupDrop, CallersInv, CallerGood
<1>2. PICK o, s : o = Head(caller[t].list) /\ s = Tail(caller[t].list)
  OBVIOUS
<1>3. /\ o \in Objects /\ s \in Seq(Objects) /\ Rng(caller[t].list) = {o} \cup Rng(s)
      /\ Once(s) /\ o \notin Rng(s)
  BY <1>1, <1>2, TailIs
<1>4. /\ Typed(obj[o], WN(o), CN(o), HN(o), PN(o), InService(o))
      /\ ObjOK(o, obj[o], WN(o), CN(o), HN(o), PN(o), InService(o)) /\ obj[o] \in ObjRec
  BY <1>0, <1>3, GoodTyped
<1>5. PICK n \in {1, 2} : n = IF ~obj[o].shutdown /\ Type[o] # "simple" THEN 2 ELSE 1
  OBVIOUS
<1> DEFINE c == IF obj[o].refcount = n
                  THEN [Idle EXCEPT !.pc = "destroy", !.obj = o, !.list = s]
                ELSE IF s = <<>> THEN Idle ELSE [Idle EXCEPT !.pc = "gwait", !.list = s]
<1>6. /\ obj' = [obj EXCEPT ![o] = Closed(@, n, "none")] /\ caller' = [caller EXCEPT ![t] = c]
      /\ UNCHANGED <<pool, pools, group, worker>>
  BY <1>2, <1>5 DEF GroupDrop, Goto
<1>7. /\ obj[o].refcount = n => c.pc = "destroy" /\ c.obj = o
      /\ obj[o].refcount # n => c.pc \in {"idle", "gwait"} /\ c.obj = Nil
      /\ c.list = s /\ (c.pc = "idle" => s = <<>>)
  BY DEF Idle
<1> HIDE DEF c
<1>8. CallerGood(c)
  BY <1>3, <1>7 DEF CallerGood
<1>9. CallersInv'
  BY <1>0, <1>6, <1>8, CallersStep
<1>10. CallShift(o, caller[t], c) /\ KeptCall(o) /\ c \in CallerSet
  <2>1. \A x \in Objects : x # o => ~Calls(caller[t], x) /\ ~Calls(c, x)
    BY <1>1, <1>7 DEF Calls
  <2>2. \A x \in Objects : x # o => (x \in Rng(caller[t].list) <=> x \in Rng(c.list))
    BY <1>3, <1>7
  <2> QED
    BY <1>0, <1>6, <2>1, <2>2, CallerPasses DEF Shape
<1>11. /\ One(caller[t] \in CallsAt(o, {"submit"})) = 0 /\ One(caller[t] \in CallsAt(o, {"join"})) = 0
       /\ One(caller[t] \in CallsAt(o, {"release"})) = 0
       /\ One(caller[t] \in CallsAt(o, {"wait", "sleep"})) = 0
       /\ One(caller[t] \in CallsAt(o, {"destroy"})) = 0 /\ One(caller[t] \in Keepers(o)) = 1
  BY <1>1, <1>3 DEF One, CallsAt, Keepers
<1>12. /\ One(c \in CallsAt(o, {"submit"})) = 0 /\ One(c \in CallsAt(o, {"wait", "sleep"})) = 0
       /\ One(c \in CallsAt(o, {"join"})) = 0 /\ One(c \in CallsAt(o, {"release"})) = 0
       /\ One(c \in CallsAt(o, {"destroy"})) = One(obj[o].refcount = n) /\ One(c \in Keepers(o)) = 0
  BY <1>3, <1>7, <1>10 DEF One, CallsAt, Keepers
<1>13. CN(o) \in CNum /\ CN(o)' \in CNum /\ One(obj[o].refcount = n) \in {0, 1}
  BY <1>10 DEF CallShift, One
<1>14. /\ CN(o)'.sub = CN(o).sub /\ CN(o)'.wait = CN(o).wait
       /\ CN(o)'.ends = CN(o).ends + One(obj[o].refcount = n)
       /\ CN(o)'.keep = CN(o).keep - 1 /\ CN(o)'.join = CN(o).join /\ CN(o)'.rel = CN(o).rel
       /\ CN(o).keep > 0
  BY <1>10, <1>11, <1>12, <1>13 DEF CallShift, CNum
<1>15. PICK e : e = Closed(obj[o], n, "none")
  OBVIOUS
<1>16. ReleasedIs(obj[o], e, n, "none")
  BY <1>4, <1>15, ReleaseIs
<1>17. obj'[o] = e /\ KeptObj(o)
  BY <1>0, <1>3, <1>6, <1>15 DEF Shape, KeptObj
<1>18. n = 2 <=> (obj[o].shutdown = FALSE /\ Type[o] # "simple")
  BY <1>4, <1>5 DEF ObjRec
<1>19. ObjOK(o, e, WN(o), CN(o)', HN(o), PN(o), InService(o))
  BY <1>3, <1>4, <1>13, <1>14, <1>16, <1>18, GroupDropOK
<1>20. \A x : WN(x)' = WN(x)
  BY <1>6, WorkersSame
<1>21. ListedOK' /\ MembersOK'
  <2>1. \A x \in Objects : obj'[x].pending = obj[x].pending /\ obj'[x].member = obj[x].member
    BY <1>16, <1>17 DEF ReleasedIs, KeptObj
  <2> QED
    BY <1>0, <1>6, <2>1, ListedSame, MembersSame
<1>22. ObjOK(o, obj'[o], WN(o)', CN(o)', HN(o), PN(o), InService(o)) /\ KeptWork(o)
  BY <1>17, <1>19, <1>20 DEF KeptWork
<1> QED
  BY <1>9, <1>10, <1>17, <1>21, <1>22, InPoolOne

(* Callers inside of a call. *)
LEMMA CallerMovesCore ==
  ASSUME BaseInv, BaseInv', CoreInv, NEW t \in Callers, CallerMoves(t)
  PROVE  CoreInv'
<1>1. CallerStep(t) /\ UNCHANGED queueVars
  BY DEF CallerMoves, InPool
<1> QED
  BY <1>1, CallerSubmitCore, SimpleJoinCore, SimpleReleaseCore, CallerDestroyCore, ObjectWaitCore,
     GroupCancelCore, GroupWaitCore, GroupDropCore DEF CallerStep

-----------------------------------------------------------------------------
(* Calls on objects. *)

(* The I/O thread has nothing in hand. *)
Handless(q) == q.pc \notin {"packet", "again", "destroy"}

(* The I/O queue moves with nothing in hand, or keeps what it has. *)
LEMMA IoQuiet ==
  ASSUME NEW q \in IoqRec, IoShape, KeyOK, ioq' = q, port' = port, io' = io,
         \/ Handless(ioq) /\ Handless(q)
         \/ q.pc = ioq.pc /\ q.key = ioq.key
  PROVE  IoShape' /\ KeyOK' /\ \A x : PN(x)' = PN(x)
<1>1. IoShape'
  BY DEF IoShape, IoState
<1>2. KeyOK'
  BY DEF KeyOK, Handless
<1>3. ASSUME NEW x PROVE PN(x)' = PN(x)
  <2>1. /\ One(q.pc = "destroy" /\ q.key = x) = One(ioq.pc = "destroy" /\ ioq.key = x)
        /\ One(q.pc = "packet" /\ q.key = x) = One(ioq.pc = "packet" /\ ioq.key = x)
        /\ (q.pc = "again" /\ q.key = x) = (ioq.pc = "again" /\ ioq.key = x)
    BY DEF One, Handless
  <2>2. PNOf(q, port, io, x) = PNOf(ioq, port, io, x)
    BY <2>1 DEF PNOf, PacketsOf
  <2> QED
    BY <2>2 DEF PN
<1> QED
  BY <1>1, <1>2, <1>3

(* A member joins. *)
LEMMA MembersMore ==
  ASSUME Shape, MembersOK, NEW o \in Objects, obj[o].member = FALSE, obj'[o].member = TRUE, KeptObj(o),
         group'.members = Append(group.members, o)
  PROVE  MembersOK'
<1>1. group.members \in Seq(Objects)
  BY DEF Shape, GroupRec
<1>2. o \notin Rng(group.members)
  BY DEF MembersOK
<1>3. Once(group'.members) /\ Rng(group'.members) = Rng(group.members) \cup {o}
  BY <1>1, <1>2, AppendIs DEF MembersOK
<1>4. \A x \in Objects : x \in Rng(group'.members) <=> obj'[x].member = TRUE
  BY <1>3 DEF MembersOK, KeptObj
<1> QED
  BY <1>3, <1>4 DEF MembersOK

(* The lock on the pool starts a worker at most. *)
LEMMA PoolLockSame ==
  ASSUME Shape, tp_threadpool_lock
  PROVE  \A x \in Workers : SameWork(worker[x], worker'[x])
<1>1. CASE worker' = worker
  BY <1>1 DEF SameWork
<1>2. CASE \E p : tp_new_worker_thread(p)
  BY <1>2, NewWorkerSame
<1> QED
  BY <1>1, <1>2 DEF tp_threadpool_lock

(* An object is allocated; its queue does the rest. *)
LEMMA AllocCore ==
  ASSUME BaseInv, BaseInv', CoreInv, NEW t \in Callers, NEW o \in Objects, NEW grp \in BOOLEAN,
         TpAlloc(t, o, grp), Type[o] = "io" => grp = FALSE, IoShape', KeyOK',
         \A x : HN(x)' = HN(x) /\ PN(x)' = PN(x), KeptServ(o)
  PROVE  CoreInv'
<1>0. Shape /\ Shape' /\ ObjInv /\ IoShape /\ ListedOK /\ MembersOK /\ CallersInv
  BY DEF BaseInv, CoreInv
<1>1. /\ obj[o].life = "none" /\ Type[o] # "simple" /\ tp_threadpool_lock
      /\ obj' = [obj EXCEPT ![o] = tp_object_initialize(o, grp)] /\ pools' = pools /\ caller' = caller
      /\ grp => group' = [group EXCEPT !.refcount = @ + 1, !.members = Append(@, o)]
      /\ ~grp => group' = group
  BY DEF TpAlloc
<1>2. PICK e : e = tp_object_initialize(o, grp)
  OBVIOUS
<1>3. InitializedTo(o, e, grp)
  BY <1>2, InitializeIs DEF InitializedTo
<1>4. obj'[o] = e /\ KeptObj(o)
  BY <1>0, <1>1, <1>2 DEF Shape, KeptObj
<1>5. /\ Typed(obj[o], WN(o), CN(o), HN(o), PN(o), InService(o))
      /\ ObjOK(o, obj[o], WN(o), CN(o), HN(o), PN(o), InService(o))
      /\ CN(o) \in CNum
  BY <1>0, GoodTyped
<1>6. PICK r \in BOOLEAN : r = InService(o)'
  BY DEF InService
<1>7. ObjOK(o, e, WN(o), CN(o), HN(o), PN(o), r)
  <2>1. AllocatedTo(o, e)
    BY <1>3 DEF AllocatedTo
  <2>2. BeginsWith(o, CN(o), CN(o), r)
    BY <1>1, <1>5 DEF BeginsWith
  <2> QED
    BY <1>1, <1>5, <2>1, <2>2, AllocatesOK
<1>8. \A x : WN(x)' = WN(x)
  <2>1. \A x \in Workers : SameWork(worker[x], worker'[x])
    BY <1>0, <1>1, PoolLockSame
  <2> QED
    BY <1>0, <2>1, WorkSame
<1>9. CallersInv' /\ \A x : CN(x)' = CN(x)
  BY <1>1, CallersSame
<1>10. Good(o)'
  <2>1. ObjOK(o, obj'[o], WN(o)', CN(o)', HN(o)', PN(o)', InService(o)')
    BY <1>4, <1>6, <1>7, <1>8, <1>9
  <2> QED
    BY <2>1 DEF Good
<1>11. obj[o].pending = 0 /\ obj[o].member = FALSE
  BY <1>1, <1>5 DEF ObjOK, DeadPart, Unused
<1>12. ListedOK'
  <2>1. \A x \in Objects : obj'[x].pending = obj[x].pending
    BY <1>3, <1>4, <1>11 DEF InitializedTo, KeptObj
  <2> QED
    BY <1>0, <1>1, <2>1, ListedSame
<1>13. MembersOK'
  <2>1. CASE grp
    <3>1. group'.members = Append(group.members, o)
      <4>1. group \in GroupRec
        BY <1>0 DEF Shape
      <4> QED
        BY <1>1, <2>1, <4>1, JoinIs
    <3>2. obj'[o].member = TRUE
      BY <1>1, <1>3, <1>4, <2>1 DEF InitializedTo
    <3> QED
      BY <1>0, <1>4, <1>11, <3>1, <3>2, MembersMore
  <2>2. CASE ~grp
    <3>1. \A x \in Objects : obj'[x].member = obj[x].member
      BY <1>1, <1>3, <1>4, <1>11, <2>2 DEF InitializedTo, KeptObj
    <3> QED
      BY <1>0, <1>1, <2>2, <3>1, MembersSame
  <2> QED
    BY <2>1, <2>2
<1>14. Kept(o)
  BY <1>4, <1>8, <1>9 DEF Kept, KeptWork, KeptCall, KeptHold, KeptPort
<1> QED
  BY <1>9, <1>10, <1>12, <1>13, <1>14, OneCore

(* So with the queues. *)
LEMMA AllocAllCore ==
  ASSUME BaseInv, BaseInv', CoreInv, NEW t \in Callers, NEW o \in Objects, NEW grp \in BOOLEAN,
         \/ TpAllocWork(t, o, grp) \/ TpAllocTimer(t, o, grp) \/ TpAllocWait(t, o, grp)
         \/ TpAllocIoCompletion(t, o)
  PROVE  CoreInv'
<1>0. IoShape /\ KeyOK /\ WaitInv /\ TimerInv
  BY DEF CoreInv, BaseInv
<1>1. CASE TpAllocWork(t, o, grp)
  <2>1. Type[o] = "work" /\ TpAlloc(t, o, grp) /\ UNCHANGED queueVars
    BY <1>1 DEF TpAllocWork
  <2>2. /\ \A x : HN(x)' = HN(x) /\ PN(x)' = PN(x)
        /\ \A x : InService(x)' = InService(x)
        /\ IoShape' /\ KeyOK'
    BY <1>0, <2>1, QueuesSame
  <2> QED
    BY <2>1, <2>2, AllocCore DEF KeptServ
<1>2. CASE TpAllocTimer(t, o, grp)
  <2>1. /\ Type[o] = "timer" /\ TpAlloc(t, o, grp) /\ tp_timerqueue_lock(o)
        /\ UNCHANGED waitVars /\ UNCHANGED ioVars
    BY <1>2 DEF TpAllocTimer
  <2>2. IoShape' /\ KeyOK' /\ \A x : PN(x)' = PN(x)
    BY <2>1, IoSame
  <2>3. HeldKept /\ wait' = wait
    BY <2>1, WaitsSame DEF waitVars
  <2>4. \A x : HN(x)' = HN(x)
    BY <2>3, HoldSame
  <2>5. \A x \in Timers : x # o => timer'[x] = timer[x]
    BY <1>0, <2>1 DEF tp_timerqueue_lock, TimerInv
  <2>6. KeptServ(o)
    BY <2>3, <2>5 DEF KeptServ, InService
  <2> QED
    BY <2>1, <2>2, <2>4, <2>6, AllocCore
<1>3. CASE TpAllocWait(t, o, grp)
  <2>1. /\ Type[o] = "wait" /\ TpAlloc(t, o, grp) /\ tp_waitqueue_lock(o)
        /\ UNCHANGED timerVars /\ UNCHANGED ioVars
    BY <1>3 DEF TpAllocWait
  <2>2. IoShape' /\ KeyOK' /\ \A x : PN(x)' = PN(x)
    BY <2>1, IoSame
  <2>3. /\ HeldKept /\ timer' = timer /\ \A x \in Waits \ {o} : wait'[x] = wait[x]
    <3>1. o \in Waits
      BY <2>1, KindsOfObjects
    <3> QED
      BY <1>0, <2>1, <3>1, LockEffect DEF timerVars
  <2>4. \A x : HN(x)' = HN(x)
    BY <2>3, HoldSame
  <2>5. KeptServ(o)
    BY <2>3 DEF KeptServ, InService
  <2> QED
    BY <2>1, <2>2, <2>4, <2>5, AllocCore
<1>4. CASE TpAllocIoCompletion(t, o)
  <2>1. /\ Type[o] = "io" /\ TpAlloc(t, o, FALSE) /\ tp_ioqueue_lock(o)
        /\ UNCHANGED waitVars /\ UNCHANGED timerVars
    BY <1>4 DEF TpAllocIoCompletion
  <2>2. IoShape' /\ KeyOK' /\ \A x : PN(x)' = PN(x)
    <3>1. /\ IoCsFree /\ port' = port /\ io' = io
          /\ ioq' = [ioq EXCEPT !.objcount = @ + 1,
                        !.pc = IF ~thread_running \/ (@ = "idle" /\ ioq.objcount = 0) THEN "get" ELSE @]
      BY <2>1 DEF tp_ioqueue_lock
    <3>2. ioq \in IoqRec /\ Handless(ioq)
      BY <1>0, <3>1 DEF IoShape, IoState, IoCsFree, Handless
    <3>3. PICK n \in Int, pc \in {ioq.pc, "get"} :
            /\ n = ioq.objcount + 1
            /\ pc = IF ~thread_running \/ (ioq.pc = "idle" /\ ioq.objcount = 0) THEN "get" ELSE ioq.pc
      <4>1. ioq.objcount + 1 \in Int
        BY <3>2 DEF IoqRec
      <4> QED
        BY <4>1
    <3>4. PICK q : q = [ioq EXCEPT !.objcount = n, !.pc = pc]
      OBVIOUS
    <3>5. q \in IoqRec /\ Handless(q)
      BY <3>2, <3>3, <3>4 DEF IoqRec, Handless
    <3>6. ioq' = q
      BY <3>1, <3>3, <3>4
    <3> QED
      BY <1>0, <3>1, <3>2, <3>5, <3>6, IoQuiet
  <2>3. HeldKept /\ QueuedKept /\ TimersKept
    BY <2>1, WaitsSame, TimersSame
  <2>4. /\ \A x : HN(x)' = HN(x)
        /\ KeptServ(o)
    BY <2>3, HoldSame, ServiceKept DEF KeptServ
  <2>5. FALSE \in BOOLEAN
    OBVIOUS
  <2> QED
    BY <2>1, <2>2, <2>4, <2>5, AllocCore
<1> QED
  BY <1>1, <1>2, <1>3, <1>4

(* A caller outside of the API. *)
LEMMA IsIdleIs ==
  ASSUME Shape, CallersInv, NEW t \in Callers, IsIdle(t)
  PROVE  /\ caller[t] \in CallerSet /\ caller[t].list = <<>> /\ caller[t].pc = "idle"
         /\ \A x : ~InHand(caller[t], x)
         /\ \A x : x \notin Rng(caller[t].list)
<1>1. caller[t] \in CallerSet /\ CallerGood(caller[t]) /\ caller[t].pc = "idle"
  BY DEF Shape, CallersInv, IsIdle
<1>2. caller[t].list = <<>>
  BY <1>1 DEF CallerGood
<1> QED
  BY <1>1, <1>2, NoList DEF InHand

(* A call begins. *)
LEMMA StartIs ==
  ASSUME NEW o \in Objects, NEW pc \in {"submit", "join", "release", "wait", "sleep", "destroy"},
         NEW c, c = [Idle EXCEPT !.pc = pc, !.obj = o]
  PROVE  /\ c.pc = pc /\ c.obj = o /\ c.list = <<>> /\ CallerGood(c) /\ c \in CallerSet
         /\ \A x : x # o => ~InHand(c, x)
         /\ \A x : x \notin Rng(c.list)
<1>1. c.pc = pc /\ c.obj = o /\ c.list = <<>> /\ c \in CallerSet
  BY CallerAt DEF Idle
<1>2. CallerGood(c) /\ (\A x : x # o => ~InHand(c, x)) /\ \A x : x \notin Rng(c.list)
  BY <1>1, NoList DEF CallerGood, InHand
<1> QED
  BY <1>1, <1>2

(* The numbers of callers when an idle one starts a call for o. *)
LEMMA StartCounts ==
  ASSUME Shape, Shape', CallersInv, NEW t \in Callers, IsIdle(t), NEW o \in Objects,
         NEW pc \in {"submit", "join", "release", "wait", "sleep", "destroy"},
         caller' = [caller EXCEPT ![t] = [Idle EXCEPT !.pc = pc, !.obj = o]]
  PROVE  /\ CallersInv' /\ KeptCall(o) /\ CN(o) \in CNum /\ CN(o)' \in CNum
         /\ CN(o)'.sub = CN(o).sub + One(pc = "submit") /\ CN(o)'.join = CN(o).join + One(pc = "join")
         /\ CN(o)'.rel = CN(o).rel + One(pc = "release")
         /\ CN(o)'.wait = CN(o).wait + One(pc \in {"wait", "sleep"})
         /\ CN(o)'.ends = CN(o).ends + One(pc = "destroy") /\ CN(o)'.keep = CN(o).keep
<1>1. PICK c : c = [Idle EXCEPT !.pc = pc, !.obj = o]
  OBVIOUS
<1>2. /\ c.pc = pc /\ c.obj = o /\ c.list = <<>> /\ CallerGood(c) /\ c \in CallerSet
      /\ \A x : x # o => ~InHand(c, x)
      /\ \A x : x \notin Rng(c.list)
  <2>1. c.pc = pc /\ c.obj = o /\ c.list = <<>> /\ c \in CallerSet
    BY <1>1, CallerAt DEF Idle
  <2> QED
    BY <2>1, NoList DEF CallerGood, InHand
<1>3. /\ caller[t] \in CallerSet /\ caller[t].list = <<>> /\ caller[t].pc = "idle"
      /\ \A x : ~InHand(caller[t], x)
      /\ \A x : x \notin Rng(caller[t].list)
  BY IsIdleIs
<1>4. caller' = [caller EXCEPT ![t] = c]
  BY <1>1
<1>5. CallersInv'
  BY <1>2, <1>4, CallersStep
<1>6. CallShift(o, caller[t], c) /\ KeptCall(o)
  BY <1>2, <1>3, <1>4, CallerGoesOn
<1>7. /\ One(caller[t] \in CallsAt(o, {"submit"})) = 0 /\ One(caller[t] \in CallsAt(o, {"join"})) = 0
      /\ One(caller[t] \in CallsAt(o, {"release"})) = 0
      /\ One(caller[t] \in CallsAt(o, {"wait", "sleep"})) = 0
      /\ One(caller[t] \in CallsAt(o, {"destroy"})) = 0 /\ One(caller[t] \in Keepers(o)) = 0
  BY <1>3 DEF One, CallsAt, Keepers
<1>8. /\ One(c \in CallsAt(o, {"submit"})) = One(pc = "submit")
      /\ One(c \in CallsAt(o, {"join"})) = One(pc = "join")
      /\ One(c \in CallsAt(o, {"release"})) = One(pc = "release")
      /\ One(c \in CallsAt(o, {"wait", "sleep"})) = One(pc \in {"wait", "sleep"})
      /\ One(c \in CallsAt(o, {"destroy"})) = One(pc = "destroy")
      /\ One(c \in Keepers(o)) = 0
  BY <1>2 DEF One, CallsAt, Keepers
<1>9. \A p : One(p) \in {0, 1}
  BY DEF One
<1> QED
  BY <1>5, <1>6, <1>7, <1>8, <1>9 DEF CallShift, CNum

(* TpSimpleTryPost allocates its object and goes on to submit it. *)
LEMMA SimpleTryPostCore ==
  ASSUME BaseInv, BaseInv', CoreInv, NEW t \in Callers, NEW o \in Objects, NEW grp \in BOOLEAN,
         TpSimpleTryPost(t, o, grp), UNCHANGED queueVars
  PROVE  CoreInv'
<1>0. Shape /\ Shape' /\ ObjInv /\ IoShape /\ ListedOK /\ MembersOK /\ CallersInv
  BY DEF BaseInv, CoreInv
<1>1. /\ IsIdle(t) /\ obj[o].life = "none" /\ Type[o] = "simple" /\ tp_threadpool_lock
      /\ obj' = [obj EXCEPT ![o] = tp_object_initialize(o, grp)] /\ pools' = pools /\ group' = group
      /\ caller' = [caller EXCEPT ![t] = [Idle EXCEPT !.pc = "submit", !.obj = o]]
  BY DEF TpSimpleTryPost, Goto
<1>2. PICK e : e = tp_object_initialize(o, grp)
  OBVIOUS
<1>3. InitializedTo(o, e, grp)
  BY <1>2, InitializeIs DEF InitializedTo
<1>4. obj'[o] = e /\ KeptObj(o)
  BY <1>0, <1>1, <1>2 DEF Shape, KeptObj
<1>5. /\ Typed(obj[o], WN(o), CN(o), HN(o), PN(o), InService(o))
      /\ ObjOK(o, obj[o], WN(o), CN(o), HN(o), PN(o), InService(o))
  BY <1>0, GoodTyped
<1>6. \A x : WN(x)' = WN(x)
  <2>1. \A x \in Workers : SameWork(worker[x], worker'[x])
    BY <1>0, <1>1, PoolLockSame
  <2> QED
    BY <1>0, <2>1, WorkSame
<1>7. PICK pc \in {"submit", "join", "release", "wait", "sleep", "destroy"} : pc = "submit"
  OBVIOUS
<1>8. caller' = [caller EXCEPT ![t] = [Idle EXCEPT !.pc = pc, !.obj = o]]
  BY <1>1, <1>7
<1>9. /\ CallersInv' /\ KeptCall(o) /\ CN(o) \in CNum /\ CN(o)' \in CNum
      /\ CN(o)'.sub = CN(o).sub + One(pc = "submit") /\ CN(o)'.join = CN(o).join + One(pc = "join")
      /\ CN(o)'.rel = CN(o).rel + One(pc = "release")
      /\ CN(o)'.wait = CN(o).wait + One(pc \in {"wait", "sleep"})
      /\ CN(o)'.ends = CN(o).ends + One(pc = "destroy") /\ CN(o)'.keep = CN(o).keep
  BY <1>0, <1>1, <1>8, StartCounts
<1>10. PICK d : d = CN(o)'
  OBVIOUS
<1>11. BeginsWith(o, CN(o), d, FALSE)
  <2>1. /\ One(pc = "submit") = 1 /\ One(pc = "join") = 0 /\ One(pc = "release") = 0
        /\ One(pc \in {"wait", "sleep"}) = 0 /\ One(pc = "destroy") = 0
    BY <1>7 DEF One
  <2>2. /\ d \in CNum /\ d.sub = CN(o).sub + 1 /\ d.join = CN(o).join + 0 /\ d.rel = CN(o).rel + 0
        /\ d.wait = CN(o).wait + 0 /\ d.ends = CN(o).ends + 0 /\ d.keep = CN(o).keep
    BY <1>9, <1>10, <2>1
  <2> QED
    BY <1>1, <1>9, <2>2 DEF BeginsWith, CNum
<1>12. ObjOK(o, e, WN(o), d, HN(o), PN(o), FALSE)
  <2>1. AllocatedTo(o, e)
    BY <1>1, <1>3 DEF AllocatedTo
  <2> QED
    BY <1>1, <1>5, <1>11, <2>1, AllocatesOK
<1>13. InService(o) = FALSE
  BY <1>1, KindsOfObjects DEF InService
<1>14. ObjOK(o, obj'[o], WN(o)', CN(o)', HN(o), PN(o), InService(o))
  BY <1>4, <1>6, <1>10, <1>12, <1>13
<1>15. obj[o].pending = 0 /\ obj[o].member = FALSE
  BY <1>1, <1>5 DEF ObjOK, DeadPart, Unused
<1>16. ListedOK' /\ MembersOK'
  <2>1. \A x \in Objects : obj'[x].pending = obj[x].pending /\ obj'[x].member = obj[x].member
    BY <1>1, <1>3, <1>4, <1>15 DEF InitializedTo, KeptObj
  <2> QED
    BY <1>0, <1>1, <2>1, ListedSame, MembersSame
<1>17. KeptWork(o)
  BY <1>6 DEF KeptWork
<1> QED
  BY <1>4, <1>9, <1>14, <1>16, <1>17, InPoolOne

(* TpPostWork *)
LEMMA PostWorkCore ==
  ASSUME BaseInv, BaseInv', CoreInv, NEW t \in Callers, NEW o \in Objects, TpPostWork(t, o),
         UNCHANGED queueVars
  PROVE  CoreInv'
<1>0. Shape /\ ObjInv /\ IoShape
  BY DEF BaseInv, CoreInv
<1>1. /\ Type[o] = "work" /\ obj[o].owner = "user" /\ obj[o].shutdown = FALSE
      /\ tp_object_submit(o, Counted(o), pool) /\ group' = group /\ caller' = caller
  BY <1>0 DEF TpPostWork, Usable, Shape, ObjRec
<1>2. /\ Typed(obj[o], WN(o), CN(o), HN(o), PN(o), InService(o))
      /\ ObjOK(o, obj[o], WN(o), CN(o), HN(o), PN(o), InService(o)) /\ obj[o] \in ObjRec
  BY <1>0, GoodTyped
<1>3. obj[o].life = "live"
  BY <1>1, <1>2, AliveIf
<1>4. PICK f : f = Counted(o)
  OBVIOUS
<1>5. obj[o].ops >= 0 /\ obj[o].posts >= 0 /\ obj[o].signaled >= 0
  BY <1>2 DEF ObjOK, CountPart
<1>6. Ready(obj[o], f) /\ f.ops = obj[o].ops
  <2>1. obj[o].ops \in Int /\ obj[o].posts \in Int /\ obj[o].completions \in Int
    BY <1>2 DEF ObjRec
  <2> QED
    BY <1>0, <1>4, <1>5, <2>1, CountedIs DEF Ready
<1>7. /\ \A x \in Objects : HN(x)' = HN(x)
      /\ \A x \in Objects : InService(x)' = InService(x)
      /\ UNCHANGED ioVars
  BY QueuesSame DEF queueVars
<1>8. tp_object_submit(o, f, pool)
  BY <1>1, <1>4
<1>9. Type[o] \notin {"simple", "io"}
  BY <1>1
<1> QED
  BY <1>1, <1>3, <1>6, <1>7, <1>8, <1>9, SubmitPlain

(* A call for an object that is in hand of its owner starts to wait. *)
LEMMA WaitForCore ==
  ASSUME BaseInv, BaseInv', CoreInv, NEW t \in Callers, NEW o \in Objects, NEW cancel \in BOOLEAN,
         TpWaitFor(t, o, cancel), UNCHANGED queueVars
  PROVE  CoreInv'
<1>0. Shape /\ Shape' /\ ObjInv /\ IoShape /\ ListedOK /\ MembersOK /\ CallersInv
  BY DEF BaseInv, CoreInv
<1>1. /\ IsIdle(t) /\ obj[o].owner = "user" /\ obj[o].shutdown = FALSE
      /\ cancel => tp_object_cancel(o)
      /\ ~cancel => obj' = obj /\ pools' = pools
      /\ caller' = [caller EXCEPT ![t] = [Idle EXCEPT !.pc = "wait", !.obj = o]]
      /\ group' = group /\ worker' = worker
  BY <1>0 DEF TpWaitFor, Goto, Usable, Shape, ObjRec
<1>2. /\ Typed(obj[o], WN(o), CN(o), HN(o), PN(o), InService(o))
      /\ ObjOK(o, obj[o], WN(o), CN(o), HN(o), PN(o), InService(o))
  BY <1>0, GoodTyped
<1>3. PICK pc \in {"submit", "join", "release", "wait", "sleep", "destroy"} : pc = "wait"
  OBVIOUS
<1>4. caller' = [caller EXCEPT ![t] = [Idle EXCEPT !.pc = pc, !.obj = o]]
  BY <1>1, <1>3
<1>5. /\ CallersInv' /\ KeptCall(o) /\ CN(o) \in CNum /\ CN(o)' \in CNum
      /\ CN(o)'.sub = CN(o).sub + One(pc = "submit") /\ CN(o)'.join = CN(o).join + One(pc = "join")
      /\ CN(o)'.rel = CN(o).rel + One(pc = "release")
      /\ CN(o)'.wait = CN(o).wait + One(pc \in {"wait", "sleep"})
      /\ CN(o)'.ends = CN(o).ends + One(pc = "destroy") /\ CN(o)'.keep = CN(o).keep
  BY <1>0, <1>1, <1>4, StartCounts
<1>6. PICK d : d = CN(o)'
  OBVIOUS
<1>7. SameButWait(CN(o), d)
  <2>1. /\ One(pc = "submit") = 0 /\ One(pc = "join") = 0 /\ One(pc = "release") = 0
        /\ One(pc = "destroy") = 0
    BY <1>3 DEF One
  <2>2. /\ d \in CNum /\ d.sub = CN(o).sub + 0 /\ d.join = CN(o).join + 0 /\ d.rel = CN(o).rel + 0
        /\ d.ends = CN(o).ends + 0 /\ d.keep = CN(o).keep
    BY <1>5, <1>6, <2>1
  <2> QED
    BY <1>5, <2>2 DEF SameButWait, CNum
<1>8. KeptWork(o) /\ WN(o)' = WN(o)
  BY <1>1, WorkersSame DEF KeptWork
<1>9. CASE cancel
  <2>1. /\ ForgottenTo(obj[o], obj'[o]) /\ \A x \in Objects \ {o} : obj'[x] = obj[x]
        /\ ListedOK'
    BY <1>0, <1>1, <1>9, CancelEffect
  <2>2. PICK e : e = obj'[o]
    OBVIOUS
  <2>3. ForgottenTo(obj[o], e)
    BY <2>1, <2>2
  <2>4. ObjOK(o, e, WN(o), d, HN(o), PN(o), InService(o))
    BY <1>1, <1>2, <1>7, <2>3, CancelOK
  <2>5. ObjOK(o, obj'[o], WN(o)', CN(o)', HN(o), PN(o), InService(o))
    BY <1>6, <1>8, <2>2, <2>4
  <2>6. MembersOK'
    <3>1. \A x \in Objects : obj'[x].member = obj[x].member
      BY <2>1 DEF ForgottenTo
    <3> QED
      BY <1>0, <1>1, <3>1, MembersSame
  <2>7. KeptObj(o)
    BY <2>1 DEF KeptObj
  <2> QED
    BY <1>5, <1>8, <2>1, <2>5, <2>6, <2>7, InPoolOne
<1>10. CASE ~cancel
  <2>1. Type[o] # "simple"
    BY <1>1, <1>2 DEF ObjOK, UsePart, SimplePart
  <2>2. /\ d \in CNum /\ d.join = CN(o).join /\ d.rel = CN(o).rel /\ d.ends = CN(o).ends
        /\ d.keep = CN(o).keep /\ d.sub = CN(o).sub
    BY <1>7 DEF SameButWait
  <2>3. d.sub > 0 => Type[o] = "timer" /\ obj[o].owner = "user" /\ obj[o].shutdown = FALSE
    BY <1>2, <2>1, <2>2 DEF ObjOK, UsePart, UserPart
  <2>4. ObjOK(o, obj[o], WN(o), d, HN(o), PN(o), InService(o))
    BY <1>1, <1>2, <2>1, <2>2, <2>3, CallsOK
  <2>5. ObjOK(o, obj'[o], WN(o)', CN(o)', HN(o), PN(o), InService(o))
    BY <1>1, <1>6, <1>8, <1>10, <2>4
  <2>6. ListedOK' /\ MembersOK'
    BY <1>0, <1>1, <1>10, ListedSame, MembersSame
  <2>7. KeptObj(o)
    BY <1>1, <1>10 DEF KeptObj
  <2> QED
    BY <1>5, <1>8, <2>5, <2>6, <2>7, InPoolOne
<1> QED
  BY <1>9, <1>10

(* The owner gives an object up; a caller that drops the last reference     *)
(* goes on to destroy it.                                                   *)
LEMMA ReleaseCalls ==
  ASSUME Shape, Shape', CallersInv, NEW t \in Callers, IsIdle(t), NEW o \in Objects, NEW last \in BOOLEAN,
         last => caller' = [caller EXCEPT ![t] = [Idle EXCEPT !.pc = "destroy", !.obj = o]],
         ~last => caller' = caller
  PROVE  /\ CallersInv' /\ KeptCall(o) /\ CN(o)' \in CNum /\ CN(o) \in CNum
         /\ CN(o)'.sub = CN(o).sub /\ CN(o)'.join = CN(o).join /\ CN(o)'.rel = CN(o).rel
         /\ CN(o)'.wait = CN(o).wait /\ CN(o)'.ends = CN(o).ends + One(last)
         /\ CN(o)'.keep = CN(o).keep
<1>1. CASE last
  <2>1. PICK pc \in {"submit", "join", "release", "wait", "sleep", "destroy"} : pc = "destroy"
    OBVIOUS
  <2>2. caller' = [caller EXCEPT ![t] = [Idle EXCEPT !.pc = pc, !.obj = o]]
    BY <1>1, <2>1
  <2>3. /\ CallersInv' /\ KeptCall(o) /\ CN(o) \in CNum /\ CN(o)' \in CNum
        /\ CN(o)'.sub = CN(o).sub + One(pc = "submit") /\ CN(o)'.join = CN(o).join + One(pc = "join")
        /\ CN(o)'.rel = CN(o).rel + One(pc = "release")
        /\ CN(o)'.wait = CN(o).wait + One(pc \in {"wait", "sleep"})
        /\ CN(o)'.ends = CN(o).ends + One(pc = "destroy") /\ CN(o)'.keep = CN(o).keep
    BY <2>2, StartCounts
  <2>4. /\ One(pc = "submit") = 0 /\ One(pc = "join") = 0 /\ One(pc = "release") = 0
        /\ One(pc \in {"wait", "sleep"}) = 0 /\ One(pc = "destroy") = One(last)
    BY <1>1, <2>1 DEF One
  <2>5. /\ CN(o)'.sub = CN(o).sub + 0 /\ CN(o)'.join = CN(o).join + 0 /\ CN(o)'.rel = CN(o).rel + 0
        /\ CN(o)'.wait = CN(o).wait + 0 /\ CN(o)'.ends = CN(o).ends + One(last)
    BY <2>3, <2>4
  <2> QED
    BY <2>3, <2>5 DEF CNum
<1>2. CASE ~last
  <2>1. CN(o)' = CN(o) /\ KeptCall(o) /\ CallersInv'
    BY <1>2 DEF CN, KeptCall, CallersInv
  <2>2. \A x \in Callers : SameCall(caller[x], caller'[x])
    BY <1>2 DEF SameCall
  <2>3. \A x \in Callers \ {t} : SameCall(caller[x], caller'[x])
    BY <2>2
  <2>4. CN(o) \in CNum
    BY <2>3, CallStep DEF CallShift
  <2>5. One(last) = 0
    BY <1>2 DEF One
  <2> QED
    BY <2>1, <2>4, <2>5 DEF CNum
<1> QED
  BY <1>1, <1>2

(* The owner gives an object up. *)
LEMMA ReleaseCore ==
  ASSUME BaseInv, BaseInv', CoreInv, NEW t \in Callers, NEW o \in Objects, TpRelease(t, o),
         PN(o)' \in PNum, PN(o)'.ends = PN(o).ends, PN(o)'.packets = PN(o).packets,
         PN(o)'.again = PN(o).again,
         Type[o] = "io" => obj[o].ops = 0 /\ obj[o].skipped = 0 /\ PN(o).again = FALSE,
         HN(o)' = HN(o), KeptHold(o), KeptPort(o), KeptServ(o), InService(o)' = FALSE, IoShape', KeyOK'
  PROVE  CoreInv'
<1>0. Shape /\ Shape' /\ ObjInv /\ IoShape /\ ListedOK /\ MembersOK /\ CallersInv
  BY DEF BaseInv, CoreInv
<1>1. /\ IsIdle(t) /\ obj[o].owner = "user" /\ obj[o].shutdown = FALSE /\ NotInCall(o)
      /\ obj' = [obj EXCEPT ![o] = Closed(@, 1, "none")] /\ pools' = pools /\ group' = group
      /\ worker' = worker
      /\ caller' = [caller EXCEPT ![t] = IF obj[o].refcount = 1
                                           THEN [Idle EXCEPT !.pc = "destroy", !.obj = o]
                                           ELSE caller[t]]
  BY <1>0 DEF TpRelease, Goto, Usable, Shape, ObjRec
<1>2. /\ Typed(obj[o], WN(o), CN(o), HN(o), PN(o), InService(o))
      /\ ObjOK(o, obj[o], WN(o), CN(o), HN(o), PN(o), InService(o)) /\ obj[o] \in ObjRec
  BY <1>0, GoodTyped
<1>3. PICK e : e = Closed(obj[o], 1, "none")
  OBVIOUS
<1>4. ReleasedIs(obj[o], e, 1, "none")
  BY <1>2, <1>3, ReleaseIs
<1>5. obj'[o] = e /\ KeptObj(o)
  BY <1>0, <1>1, <1>3 DEF Shape, KeptObj
<1>6. CN(o).wait = 0 /\ CN(o).sub = 0
  BY <1>0, <1>1, NotInCallIs
<1>7. PICK last \in BOOLEAN : last <=> obj[o].refcount = 1
  <2>1. TRUE \in BOOLEAN /\ FALSE \in BOOLEAN
    OBVIOUS
  <2> QED
    BY <2>1, Zenon
<1>8. /\ last => caller' = [caller EXCEPT ![t] = [Idle EXCEPT !.pc = "destroy", !.obj = o]]
      /\ ~last => caller' = caller
  BY <1>0, <1>1, <1>7 DEF Shape
<1>9. /\ CallersInv' /\ KeptCall(o) /\ CN(o)' \in CNum /\ CN(o) \in CNum
      /\ CN(o)'.sub = CN(o).sub /\ CN(o)'.join = CN(o).join /\ CN(o)'.rel = CN(o).rel
      /\ CN(o)'.wait = CN(o).wait /\ CN(o)'.ends = CN(o).ends + One(last)
      /\ CN(o)'.keep = CN(o).keep
  BY <1>0, <1>1, <1>8, ReleaseCalls
<1>10. PICK d, q : d = CN(o)' /\ q = PN(o)'
  OBVIOUS
<1>11. One(last) = One(obj[o].refcount = 1)
  BY <1>7 DEF One
<1>12. ObjOK(o, e, WN(o), d, HN(o), q, FALSE)
  <2>1. /\ d \in CNum /\ d.sub = CN(o).sub /\ d.join = CN(o).join /\ d.rel = CN(o).rel
        /\ d.wait = CN(o).wait /\ d.ends = CN(o).ends + One(obj[o].refcount = 1)
        /\ d.keep = CN(o).keep
        /\ q \in PNum /\ q.ends = PN(o).ends /\ q.packets = PN(o).packets /\ q.again = PN(o).again
    BY <1>9, <1>10, <1>11
  <2> QED
    BY <1>1, <1>2, <1>4, <1>6, <2>1, ReleaseOK
<1>13. \A x : WN(x)' = WN(x)
  BY <1>1, WorkersSame
<1>14. Good(o)'
  <2>1. ObjOK(o, obj'[o], WN(o)', CN(o)', HN(o)', PN(o)', InService(o)')
    BY <1>5, <1>10, <1>12, <1>13
  <2> QED
    BY <2>1 DEF Good
<1>15. ListedOK' /\ MembersOK'
  <2>1. \A x \in Objects : obj'[x].pending = obj[x].pending /\ obj'[x].member = obj[x].member
    BY <1>4, <1>5 DEF ReleasedIs, KeptObj
  <2> QED
    BY <1>0, <1>1, <2>1, ListedSame, MembersSame
<1>16. Kept(o)
  BY <1>5, <1>9, <1>13 DEF Kept, KeptWork
<1> QED
  BY <1>9, <1>14, <1>15, <1>16, OneCore

(* TpReleaseWork, TpReleaseTimer and TpReleaseWait *)
LEMMA ReleaseObjectCore ==
  ASSUME BaseInv, BaseInv', CoreInv, NEW t \in Callers, NEW o \in Objects, TpReleaseObject(t, o)
  PROVE  CoreInv'
<1>0. Shape /\ ObjInv /\ IoShape
  BY DEF BaseInv, CoreInv
<1>1. Type[o] # "io" /\ TpRelease(t, o) /\ tp_object_prepare_shutdown({o})
  BY DEF TpReleaseObject
<1>2. /\ IoShape' /\ KeyOK' /\ \A x : HN(x)' = HN(x) /\ PN(x)' = PN(x)
      /\ InService(o)' = FALSE
      /\ \A x \in Objects \ {o} : InService(x)' = InService(x)
  <2>1. {o} \in SUBSET Objects
    OBVIOUS
  <2> QED
    BY <1>1, <2>1, ShutdownEffect
<1>3. PN(o) \in PNum
  BY <1>0, GoodTyped
<1>4. KeptHold(o) /\ KeptPort(o) /\ KeptServ(o)
  BY <1>2 DEF KeptHold, KeptPort, KeptServ
<1> QED
  BY <1>1, <1>2, <1>3, <1>4, ReleaseCore

(* A timer is set; with the time zero the caller goes on to submit it. *)
LEMMA SetTimerCore ==
  ASSUME BaseInv, BaseInv', CoreInv, NEW t \in Callers, NEW o \in Timers, NEW at, NEW p, NEW n,
         TpSetTimer(t, o, at, p, n)
  PROVE  CoreInv'
<1>0. Shape /\ Shape' /\ ObjInv /\ IoShape /\ ListedOK /\ MembersOK /\ CallersInv /\ TimerInv
  BY DEF BaseInv, CoreInv
<1>1. o \in Objects /\ Type[o] = "timer"
  BY KindsOfObjects
<1>2. /\ IsIdle(t) /\ obj[o].owner = "user" /\ obj[o].shutdown = FALSE
      /\ TpSetTimerEx(o, at, p, n) /\ pools' = pools /\ obj' = obj /\ group' = group
      /\ worker' = worker /\ UNCHANGED waitVars /\ UNCHANGED ioVars /\ pool' = pool
      /\ at[1] # "zero" => caller' = caller
      /\ at[1] = "zero" => caller' = [caller EXCEPT ![t] = [Idle EXCEPT !.pc = "submit", !.obj = o]]
  BY <1>0, <1>1 DEF TpSetTimer, Usable, Shape, ObjRec
<1>3. TimersKept /\ HeldKept /\ QueuedKept
  BY <1>0, <1>2, TimersKeptIf, WaitsSame
<1>4. CASE at[1] # "zero"
  <2>1. UNCHANGED poolVars
    BY <1>2, <1>4 DEF poolVars
  <2> QED
    BY <1>2, <1>3, <2>1, QueuesOnly
<1>5. CASE at[1] = "zero"
  <2>1. PICK pc \in {"submit", "join", "release", "wait", "sleep", "destroy"} : pc = "submit"
    OBVIOUS
  <2>2. caller' = [caller EXCEPT ![t] = [Idle EXCEPT !.pc = pc, !.obj = o]]
    BY <1>2, <1>5, <2>1
  <2>3. /\ CallersInv' /\ KeptCall(o) /\ CN(o) \in CNum /\ CN(o)' \in CNum
        /\ CN(o)'.sub = CN(o).sub + One(pc = "submit") /\ CN(o)'.join = CN(o).join + One(pc = "join")
        /\ CN(o)'.rel = CN(o).rel + One(pc = "release")
        /\ CN(o)'.wait = CN(o).wait + One(pc \in {"wait", "sleep"})
        /\ CN(o)'.ends = CN(o).ends + One(pc = "destroy") /\ CN(o)'.keep = CN(o).keep
    <3>1. Shape /\ Shape' /\ CallersInv /\ IsIdle(t) /\ o \in Objects
      BY <1>0, <1>1, <1>2
    <3> QED
      BY <2>2, <3>1, StartCounts
  <2>4. PICK d : d = CN(o)'
    OBVIOUS
  <2>5. /\ Typed(obj[o], WN(o), CN(o), HN(o), PN(o), InService(o))
        /\ ObjOK(o, obj[o], WN(o), CN(o), HN(o), PN(o), InService(o))
    BY <1>0, <1>1, GoodTyped
  <2>6. ObjOK(o, obj[o], WN(o), d, HN(o), PN(o), InService(o))
    <3>1. /\ One(pc = "join") = 0 /\ One(pc = "release") = 0
          /\ One(pc \in {"wait", "sleep"}) = 0 /\ One(pc = "destroy") = 0
      BY <2>1 DEF One
    <3>2. /\ d \in CNum /\ d.join = CN(o).join + 0 /\ d.rel = CN(o).rel + 0 /\ d.wait = CN(o).wait + 0
          /\ d.ends = CN(o).ends + 0 /\ d.keep = CN(o).keep
      BY <2>3, <2>4, <3>1
    <3>3. /\ d.join = CN(o).join /\ d.rel = CN(o).rel /\ d.wait = CN(o).wait /\ d.ends = CN(o).ends
      BY <2>3, <3>2 DEF CNum
    <3>4. Type[o] # "simple"
      BY <1>1
    <3> QED
      BY <1>1, <1>2, <2>5, <3>2, <3>3, <3>4, CallsOK
  <2>7. \A x : WN(x)' = WN(x)
    BY <1>2, WorkersSame
  <2>8. \A x : HN(x)' = HN(x) /\ InService(x)' = InService(x)
    BY <1>3, HoldSame, ServiceKept
  <2>9. IoShape' /\ KeyOK' /\ \A x : PN(x)' = PN(x)
    BY <1>2, IoSame
  <2>10. Good(o)'
    <3>1. ObjOK(o, obj'[o], WN(o)', CN(o)', HN(o)', PN(o)', InService(o)')
      BY <1>2, <2>4, <2>6, <2>7, <2>8, <2>9
    <3> QED
      BY <3>1 DEF Good
  <2>11. ListedOK' /\ MembersOK'
    BY <1>0, <1>2, ListedSame, MembersSame
  <2>12. Kept(o)
    BY <1>2, <2>3, <2>7, <2>8, <2>9 DEF Kept, KeptObj, KeptWork, KeptHold, KeptPort, KeptServ
  <2> QED
    BY <2>3, <2>9, <2>10, <2>11, <2>12, OneCore
<1> QED
  BY <1>4, <1>5

(* A wait is set. *)
LEMMA SetWaitCore ==
  ASSUME BaseInv, CoreInv, NEW t \in Callers, NEW o \in Waits, NEW h, NEW delay,
         TpSetWait(t, o, h, delay)
  PROVE  CoreInv'
<1>1. WaitInv /\ TpSetWaitEx(o, h, delay) /\ UNCHANGED poolVars /\ UNCHANGED timerVars /\ UNCHANGED ioVars
  BY DEF TpSetWait, BaseInv
<1> QED
  BY <1>1, SetWaitEffect, TimersSame, QueuesOnly

-----------------------------------------------------------------------------
(* Calls on I/O objects. *)

(* The numbers of the queue for o. *)
PacketFacts(q, s, f, o) ==
    /\ PNOf(q, s, f, o) \in PNum /\ Cnt(s, {o}) \in Nat
    /\ PNOf(q, s, f, o).packets = PacketsOf(q, s, f, o)
    /\ PNOf(q, s, f, o).ends = One(q.pc = "destroy" /\ q.key = o)
    /\ PNOf(q, s, f, o).again = (q.pc = "again" /\ q.key = o)
    /\ PNOf(q, s, f, o).closes = (o \in Ios /\ f[o].shutting_down = TRUE)
    /\ o \in Ios => f[o].outstanding \in Nat

(* They are what they are called. *)
LEMMA PacketsAre ==
  ASSUME NEW q, NEW s, NEW f, IoState(q, s, f), NEW o
  PROVE  PacketFacts(q, s, f, o)
BY PacketNums DEF PacketFacts

(* What becomes of them when the operations of o and the port change. *)
IoPassed(o) ==
    /\ IoShape' /\ KeyOK' /\ KeptPort(o) /\ PN(o) \in PNum /\ PN(o)' \in PNum
    /\ PN(o)'.ends = PN(o).ends /\ PN(o)'.again = PN(o).again
    /\ \E k \in Nat : /\ PN(o)'.packets = io'[o].outstanding + Cnt(port', {o}) + k
                      /\ PN(o).packets = io[o].outstanding + Cnt(port, {o}) + k
    /\ PN(o)'.closes = (io'[o].shutting_down = TRUE)
    /\ PN(o).closes = (io[o].shutting_down = TRUE)
(* The operations of o and the port change; the thread keeps what it has.   *)
LEMMA IoPass ==
  ASSUME IoShape, KeyOK, NEW q \in IoqRec, ioq' = q, port' \in Seq(Ios \cup {NoKey}),
         io' \in [Ios -> IoRec], NEW o \in Ios,
         \/ Handless(ioq) /\ Handless(q)
         \/ q.pc = ioq.pc /\ q.key = ioq.key,
         \A x \in Ios \ {o} : io'[x] = io[x] /\ Cnt(port', {x}) = Cnt(port, {x})
  PROVE  IoPassed(o)
<1>0. PICK s \in Seq(Ios \cup {NoKey}), f \in [Ios -> IoRec] :
        /\ s = port' /\ f = io'
        /\ \A x \in Ios \ {o} : f[x] = io[x] /\ Cnt(s, {x}) = Cnt(port, {x})
  OBVIOUS
<1>1. IoState(q, s, f) /\ IoState(ioq, port, io)
  BY <1>0 DEF IoShape, IoState
<1>2. IoShape'
  BY <1>0, <1>1 DEF IoShape
<1>3. KeyOK'
  BY DEF KeyOK, Handless
<1>4. \A x \in Ios : /\ One(q.pc = "destroy" /\ q.key = x) = One(ioq.pc = "destroy" /\ ioq.key = x)
                     /\ One(q.pc = "packet" /\ q.key = x) = One(ioq.pc = "packet" /\ ioq.key = x)
                     /\ (q.pc = "again" /\ q.key = x) = (ioq.pc = "again" /\ ioq.key = x)
  BY DEF One, Handless
<1>5. \A x : PN(x)' = PNOf(q, s, f, x) /\ PN(x) = PNOf(ioq, port, io, x)
  BY <1>0 DEF PN
<1>6. KeptPort(o)
  <2>1. SUFFICES ASSUME NEW x \in Objects \ {o} PROVE PNOf(q, s, f, x) = PNOf(ioq, port, io, x)
    BY <1>5 DEF KeptPort
  <2>2. CASE x \in Ios
    BY <1>0, <1>4, <2>2 DEF PNOf, PacketsOf
  <2>3. CASE x \notin Ios
    <3>1. /\ ioq.pc \in {"destroy", "again"} => ioq.key # x
          /\ q.pc \in {"destroy", "again"} => q.key # x
      BY <2>3 DEF KeyOK, Handless
    <3>2. /\ One(q.pc = "destroy" /\ q.key = x) = One(ioq.pc = "destroy" /\ ioq.key = x)
          /\ (q.pc = "again" /\ q.key = x) = (ioq.pc = "again" /\ ioq.key = x)
      BY <3>1 DEF One
    <3> QED
      BY <2>3, <3>2 DEF PNOf, PacketsOf
  <2> QED
    BY <2>2, <2>3
<1>7. /\ PNOf(q, s, f, o) \in PNum /\ PNOf(ioq, port, io, o) \in PNum
      /\ PNOf(q, s, f, o).packets = PacketsOf(q, s, f, o)
      /\ PNOf(ioq, port, io, o).packets = PacketsOf(ioq, port, io, o)
      /\ PNOf(q, s, f, o).ends = One(q.pc = "destroy" /\ q.key = o)
      /\ PNOf(ioq, port, io, o).ends = One(ioq.pc = "destroy" /\ ioq.key = o)
      /\ PNOf(q, s, f, o).again = (q.pc = "again" /\ q.key = o)
      /\ PNOf(ioq, port, io, o).again = (ioq.pc = "again" /\ ioq.key = o)
      /\ PNOf(q, s, f, o).closes = (o \in Ios /\ f[o].shutting_down = TRUE)
      /\ PNOf(ioq, port, io, o).closes = (o \in Ios /\ io[o].shutting_down = TRUE)
  <2>1. PacketFacts(q, s, f, o) /\ PacketFacts(ioq, port, io, o)
    BY <1>1, PacketsAre
  <2> QED
    BY <2>1 DEF PacketFacts
<1>8. PICK k \in Nat : k = One(ioq.pc = "packet" /\ ioq.key = o)
  BY DEF One
<1>9. /\ PacketsOf(q, s, f, o) = f[o].outstanding + Cnt(s, {o}) + k
      /\ PacketsOf(ioq, port, io, o) = io[o].outstanding + Cnt(port, {o}) + k
  BY <1>4, <1>8 DEF PacketsOf
<1>10. /\ PNOf(q, s, f, o).ends = PNOf(ioq, port, io, o).ends
       /\ PNOf(q, s, f, o).again = PNOf(ioq, port, io, o).again
  BY <1>4, <1>7
<1>11. \E j \in Nat : /\ PNOf(q, s, f, o).packets = f[o].outstanding + Cnt(s, {o}) + j
                      /\ PNOf(ioq, port, io, o).packets = io[o].outstanding + Cnt(port, {o}) + j
  BY <1>7, <1>9
<1>12. \E j \in Nat : /\ PN(o)'.packets = io'[o].outstanding + Cnt(port', {o}) + j
                      /\ PN(o).packets = io[o].outstanding + Cnt(port, {o}) + j
  BY <1>0, <1>5, <1>11
<1>13. PN(o)'.closes = (io'[o].shutting_down = TRUE) /\ PN(o).closes = (io[o].shutting_down = TRUE)
  BY <1>0, <1>5, <1>7
<1>14. PN(o)'.ends = PN(o).ends /\ PN(o)'.again = PN(o).again /\ PN(o) \in PNum /\ PN(o)' \in PNum
  BY <1>5, <1>7, <1>10
<1> QED
  BY <1>2, <1>3, <1>6, <1>12, <1>13, <1>14 DEF IoPassed

(* The thread goes on with a packet of o. *)
LEMMA IoHand ==
  ASSUME IoShape, NEW q \in IoqRec, ioq' = q, port' = port, io' = io, NEW o \in Ios,
         ioq.key = o, q.key = o
  PROVE  /\ IoShape' /\ KeyOK' /\ KeptPort(o) /\ PN(o) \in PNum /\ PN(o)' \in PNum
         /\ PN(o)'.ends = One(q.pc = "destroy") /\ PN(o).ends = One(ioq.pc = "destroy")
         /\ PN(o)'.again = (q.pc = "again") /\ PN(o).again = (ioq.pc = "again")
         /\ PN(o)'.packets = PN(o).packets + One(q.pc = "packet") - One(ioq.pc = "packet")
         /\ PN(o)'.closes = PN(o).closes
         /\ PN(o).closes = (io[o].shutting_down = TRUE)
         /\ ioq.pc = "packet" => PN(o).packets > 0
<1>1. IoState(q, port, io) /\ IoState(ioq, port, io)
  BY DEF IoShape, IoState
<1>2. IoShape' /\ KeyOK'
  BY <1>1 DEF IoShape, KeyOK
<1>3. \A x : PN(x)' = PNOf(q, port, io, x) /\ PN(x) = PNOf(ioq, port, io, x)
  BY DEF PN
<1>4. KeptPort(o)
  <2>1. SUFFICES ASSUME NEW x \in Objects \ {o} PROVE PNOf(q, port, io, x) = PNOf(ioq, port, io, x)
    BY <1>3 DEF KeptPort
  <2>2. q.key # x /\ ioq.key # x
    OBVIOUS
  <2>3. /\ One(q.pc = "destroy" /\ q.key = x) = 0 /\ One(ioq.pc = "destroy" /\ ioq.key = x) = 0
        /\ One(q.pc = "packet" /\ q.key = x) = 0 /\ One(ioq.pc = "packet" /\ ioq.key = x) = 0
        /\ (q.pc = "again" /\ q.key = x) = FALSE /\ (ioq.pc = "again" /\ ioq.key = x) = FALSE
    BY <2>2 DEF One
  <2> QED
    BY <2>3 DEF PNOf, PacketsOf
<1>5. /\ PNOf(q, port, io, o) \in PNum /\ PNOf(ioq, port, io, o) \in PNum
      /\ PNOf(q, port, io, o).packets = PacketsOf(q, port, io, o)
      /\ PNOf(ioq, port, io, o).packets = PacketsOf(ioq, port, io, o)
      /\ PNOf(q, port, io, o).ends = One(q.pc = "destroy" /\ q.key = o)
      /\ PNOf(ioq, port, io, o).ends = One(ioq.pc = "destroy" /\ ioq.key = o)
      /\ PNOf(q, port, io, o).again = (q.pc = "again" /\ q.key = o)
      /\ PNOf(ioq, port, io, o).again = (ioq.pc = "again" /\ ioq.key = o)
      /\ PNOf(q, port, io, o).closes = (o \in Ios /\ io[o].shutting_down = TRUE)
      /\ PNOf(ioq, port, io, o).closes = (o \in Ios /\ io[o].shutting_down = TRUE)
      /\ Cnt(port, {o}) \in Nat /\ io[o].outstanding \in Nat
  <2>1. PacketFacts(q, port, io, o) /\ PacketFacts(ioq, port, io, o)
    BY <1>1, PacketsAre
  <2> QED
    BY <2>1 DEF PacketFacts
<1>6. PICK m \in Nat : m = io[o].outstanding + Cnt(port, {o})
  BY <1>5
<1>7. /\ PacketsOf(q, port, io, o) = m + One(q.pc = "packet")
      /\ PacketsOf(ioq, port, io, o) = m + One(ioq.pc = "packet")
  <2>1. /\ One(q.pc = "packet" /\ q.key = o) = One(q.pc = "packet")
        /\ One(ioq.pc = "packet" /\ ioq.key = o) = One(ioq.pc = "packet")
    BY DEF One
  <2> QED
    BY <1>6, <2>1 DEF PacketsOf
<1>8. One(q.pc = "packet") \in {0, 1} /\ One(ioq.pc = "packet") \in {0, 1}
      /\ (ioq.pc = "packet" => One(ioq.pc = "packet") = 1)
  BY DEF One
<1>9. /\ PacketsOf(q, port, io, o) = PacketsOf(ioq, port, io, o) + One(q.pc = "packet") - One(ioq.pc = "packet")
      /\ ioq.pc = "packet" => PacketsOf(ioq, port, io, o) > 0
  BY <1>7, <1>8
<1>10. /\ One(q.pc = "destroy" /\ q.key = o) = One(q.pc = "destroy")
       /\ One(ioq.pc = "destroy" /\ ioq.key = o) = One(ioq.pc = "destroy")
       /\ (q.pc = "again" /\ q.key = o) = (q.pc = "again")
       /\ (ioq.pc = "again" /\ ioq.key = o) = (ioq.pc = "again")
  BY DEF One
<1> QED
  BY <1>2, <1>3, <1>4, <1>5, <1>9, <1>10

(* The operations of o change, whoever does that. *)
LEMMA OpsCore ==
  ASSUME BaseInv, BaseInv', CoreInv, NEW o \in Ios, obj[o].life = "live", obj[o].shutdown = FALSE,
         NEW e, obj' = [obj EXCEPT ![o] = e], Plain(obj[o], e), e.associated = obj[o].associated,
         e.ops >= 0, e.skipped >= 0, pools' = pools, group' = group, worker' = worker,
         \A x \in Callers : SameCall(caller[x], caller'[x]), CallersInv',
         UNCHANGED waitVars, UNCHANGED timerVars, IoShape', KeyOK', KeptPort(o), PN(o)' \in PNum,
         PN(o)'.ends = PN(o).ends, PN(o)'.closes = PN(o).closes,
         PN(o)'.packets <= e.ops + e.skipped
  PROVE  CoreInv'
<1>0. Shape /\ Shape' /\ ObjInv /\ IoShape /\ ListedOK /\ MembersOK /\ CallersInv
  BY DEF BaseInv, CoreInv
<1>1. o \in Objects /\ Type[o] = "io"
  BY KindsOfObjects
<1>2. /\ Typed(obj[o], WN(o), CN(o), HN(o), PN(o), InService(o))
      /\ ObjOK(o, obj[o], WN(o), CN(o), HN(o), PN(o), InService(o))
  BY <1>0, <1>1, GoodTyped
<1>3. obj'[o] = e /\ KeptObj(o)
  BY <1>0, <1>1 DEF Shape, KeptObj
<1>4. PICK q : q = PN(o)'
  OBVIOUS
<1>5. ObjOK(o, e, WN(o), CN(o), HN(o), q, InService(o))
  <2>1. q \in PNum /\ q.ends = PN(o).ends /\ q.packets <= e.ops + e.skipped /\ q.closes = PN(o).closes
    BY <1>4
  <2> QED
    BY <1>1, <1>2, <2>1, OpsOK
<1>6. \A x : WN(x)' = WN(x)
  BY WorkersSame
<1>7. \A x : CN(x)' = CN(x)
  BY <1>0, CallSame
<1>8. \A x : HN(x)' = HN(x) /\ InService(x)' = InService(x)
  BY WaitsSame, TimersSame, HoldSame, ServiceKept
<1>9. Good(o)'
  <2>1. ObjOK(o, obj'[o], WN(o)', CN(o)', HN(o)', PN(o)', InService(o)')
    BY <1>3, <1>4, <1>5, <1>6, <1>7, <1>8
  <2> QED
    BY <2>1 DEF Good
<1>10. ListedOK' /\ MembersOK'
  <2>1. \A x \in Objects : obj'[x].pending = obj[x].pending /\ obj'[x].member = obj[x].member
    BY <1>3 DEF Plain, KeptObj
  <2> QED
    BY <1>0, <2>1, ListedSame, MembersSame
<1>11. Kept(o)
  BY <1>3, <1>6, <1>7, <1>8 DEF Kept, KeptWork, KeptCall, KeptHold, KeptServ
<1> QED
  BY <1>9, <1>10, <1>11, OneCore

(* The program starts an operation. *)
LEMMA StartIoCore ==
  ASSUME BaseInv, BaseInv', CoreInv, NEW t \in Callers, NEW o \in Objects,
         TpStartAsyncIoOperation(t, o), UNCHANGED waitVars, UNCHANGED timerVars
  PROVE  CoreInv'
<1>0. Shape /\ Shape' /\ ObjInv /\ IoShape /\ KeyOK /\ CallersInv
  BY DEF BaseInv, CoreInv
<1>1. /\ o \in Ios /\ obj[o].owner = "user" /\ obj[o].shutdown = FALSE
      /\ io' = [io EXCEPT ![o].outstanding = @ + 1, ![o].started = @ + 1] /\ ioq' = ioq /\ port' = port
      /\ obj' = [obj EXCEPT ![o].ops = @ + 1] /\ pools' = pools /\ group' = group /\ worker' = worker
      /\ caller' = caller
  BY <1>0, KindsOfObjects DEF TpStartAsyncIoOperation, Starts, Usable, Shape, ObjRec
<1>2. /\ Typed(obj[o], WN(o), CN(o), HN(o), PN(o), InService(o))
      /\ ObjOK(o, obj[o], WN(o), CN(o), HN(o), PN(o), InService(o)) /\ obj[o] \in ObjRec
  BY <1>0, GoodTyped
<1>3. obj[o].life = "live"
  BY <1>1, <1>2, AliveIf
<1>4. PICK n \in Int : n = obj[o].ops + 1
  BY <1>2 DEF ObjRec
<1>5. PICK e : e = [obj[o] EXCEPT !.ops = n]
  OBVIOUS
<1>6. Plain(obj[o], e) /\ e.associated = obj[o].associated /\ e.ops = n /\ e.skipped = obj[o].skipped
  BY <1>2, <1>5, OpsIs DEF Plain
<1>7. obj' = [obj EXCEPT ![o] = e]
  BY <1>0, <1>1, <1>4, <1>5 DEF Shape
<1>8. io \in [Ios -> IoRec] /\ ioq \in IoqRec /\ port \in Seq(Ios \cup {NoKey})
  BY <1>0 DEF IoShape, IoState
<1>9. PICK r \in IoRec : r = [io[o] EXCEPT !.outstanding = @ + 1, !.started = @ + 1]
  BY <1>1, <1>8 DEF IoRec
<1>10. r.outstanding = io[o].outstanding + 1 /\ r.shutting_down = io[o].shutting_down
       /\ io[o].outstanding \in Nat
  BY <1>1, <1>8, <1>9 DEF IoRec
<1>11. PICK f \in [Ios -> IoRec] : f = [io EXCEPT ![o] = r]
  BY <1>8
<1>12. io' = f /\ f[o] = r /\ \A x \in Ios \ {o} : f[x] = io[x]
  BY <1>1, <1>8, <1>9, <1>11
<1>13. IoPassed(o)
  <2>1. port' \in Seq(Ios \cup {NoKey}) /\ io' \in [Ios -> IoRec]
        /\ \A x \in Ios \ {o} : io'[x] = io[x] /\ Cnt(port', {x}) = Cnt(port, {x})
    BY <1>1, <1>8, <1>12
  <2> QED
    BY <1>0, <1>1, <1>8, <2>1, IoPass
<1>14. PN(o)'.packets = PN(o).packets + 1 /\ PN(o).packets \in Nat
  <2>1. Cnt(port, {o}) \in Nat
    BY <1>0, PacketNums DEF IoShape
  <2> QED
    BY <1>1, <1>10, <1>12, <1>13, <2>1 DEF PNum, IoPassed
<1>15. e.ops >= 0 /\ e.skipped >= 0 /\ PN(o)'.packets <= e.ops + e.skipped
  <2>1. obj[o].ops >= 0 /\ obj[o].skipped >= 0 /\ PN(o).packets <= obj[o].ops + obj[o].skipped
    BY <1>2 DEF ObjOK, CountPart
  <2>2. obj[o].ops \in Int /\ obj[o].skipped \in Int
    BY <1>2 DEF ObjRec
  <2> QED
    BY <1>4, <1>6, <1>14, <2>1, <2>2
<1>16. PN(o)'.closes = PN(o).closes
  BY <1>10, <1>12, <1>13 DEF IoPassed
<1>17. (\A x \in Callers : SameCall(caller[x], caller'[x])) /\ CallersInv'
  BY <1>0, <1>1 DEF SameCall, CallersInv
<1>18. IoShape' /\ KeyOK' /\ KeptPort(o) /\ PN(o)' \in PNum /\ PN(o)'.ends = PN(o).ends
  BY <1>13 DEF IoPassed
<1> QED
  BY <1>1, <1>3, <1>6, <1>7, <1>15, <1>16, <1>17, <1>18, OpsCore

(* The program takes an operation back. *)
LEMMA CancelIoCore ==
  ASSUME BaseInv, BaseInv', CoreInv, NEW t \in Callers, NEW o \in Objects,
         TpCancelAsyncIoOperation(t, o), UNCHANGED waitVars, UNCHANGED timerVars
  PROVE  CoreInv'
<1>0. Shape /\ Shape' /\ ObjInv /\ IoShape /\ KeyOK /\ CallersInv
  BY DEF BaseInv, CoreInv
<1>1. /\ o \in Ios /\ obj[o].owner = "user" /\ obj[o].shutdown = FALSE /\ obj[o].ops > 0
      /\ io[o].outstanding > 0
      /\ io' = [io EXCEPT ![o].outstanding = @ - 1] /\ ioq' = ioq /\ port' = port
      /\ obj' = [obj EXCEPT ![o] = [obj[o] EXCEPT !.ops = @ - 1]]
      /\ WakeWaiters(o, [obj[o] EXCEPT !.ops = @ - 1], {"sleep", "gsleep"})
      /\ pools' = pools /\ group' = group /\ worker' = worker
  BY <1>0, KindsOfObjects DEF TpCancelAsyncIoOperation, TakesBack, Usable, Shape, ObjRec
<1>2. /\ Typed(obj[o], WN(o), CN(o), HN(o), PN(o), InService(o))
      /\ ObjOK(o, obj[o], WN(o), CN(o), HN(o), PN(o), InService(o)) /\ obj[o] \in ObjRec
  BY <1>0, GoodTyped
<1>3. obj[o].life = "live"
  BY <1>1, <1>2, AliveIf
<1>4. PICK n \in Int : n = obj[o].ops - 1
  BY <1>2 DEF ObjRec
<1>5. PICK e : e = [obj[o] EXCEPT !.ops = n]
  OBVIOUS
<1>6. Plain(obj[o], e) /\ e.associated = obj[o].associated /\ e.ops = n /\ e.skipped = obj[o].skipped
  BY <1>2, <1>5, OpsIs DEF Plain
<1>7. obj' = [obj EXCEPT ![o] = e]
  BY <1>0, <1>1, <1>4, <1>5 DEF Shape
<1>8. io \in [Ios -> IoRec] /\ ioq \in IoqRec /\ port \in Seq(Ios \cup {NoKey})
  BY <1>0 DEF IoShape, IoState
<1>9. PICK r \in IoRec : r = [io[o] EXCEPT !.outstanding = @ - 1]
  BY <1>1, <1>8 DEF IoRec
<1>10. r.outstanding = io[o].outstanding - 1 /\ r.shutting_down = io[o].shutting_down
       /\ io[o].outstanding \in Nat
  BY <1>1, <1>8, <1>9 DEF IoRec
<1>11. PICK f \in [Ios -> IoRec] : f = [io EXCEPT ![o] = r]
  BY <1>8
<1>12. io' = f /\ f[o] = r /\ \A x \in Ios \ {o} : f[x] = io[x]
  BY <1>1, <1>8, <1>9, <1>11
<1>13. IoPassed(o)
  <2>1. port' \in Seq(Ios \cup {NoKey}) /\ io' \in [Ios -> IoRec]
        /\ \A x \in Ios \ {o} : io'[x] = io[x] /\ Cnt(port', {x}) = Cnt(port, {x})
    BY <1>1, <1>8, <1>12
  <2> QED
    BY <1>0, <1>1, <1>8, <2>1, IoPass
<1>14. PN(o)'.packets = PN(o).packets - 1 /\ PN(o).packets \in Nat
  <2>1. Cnt(port, {o}) \in Nat
    BY <1>0, PacketNums DEF IoShape
  <2> QED
    BY <1>1, <1>10, <1>12, <1>13, <2>1 DEF PNum, IoPassed
<1>15. e.ops >= 0 /\ e.skipped >= 0 /\ PN(o)'.packets <= e.ops + e.skipped
  <2>1. obj[o].ops >= 0 /\ obj[o].skipped >= 0 /\ PN(o).packets <= obj[o].ops + obj[o].skipped
    BY <1>2 DEF ObjOK, CountPart
  <2>2. obj[o].ops \in Int /\ obj[o].skipped \in Int
    BY <1>2 DEF ObjRec
  <2> QED
    BY <1>1, <1>4, <1>6, <1>14, <2>1, <2>2
<1>16. PN(o)'.closes = PN(o).closes
  BY <1>10, <1>12, <1>13 DEF IoPassed
<1>17. (\A x \in Callers : SameCall(caller[x], caller'[x])) /\ CallersInv'
  BY <1>0, <1>1, WakeWaitersSame
<1>18. IoShape' /\ KeyOK' /\ KeptPort(o) /\ PN(o)' \in PNum /\ PN(o)'.ends = PN(o).ends
  BY <1>13 DEF IoPassed
<1> QED
  BY <1>1, <1>3, <1>6, <1>7, <1>15, <1>16, <1>17, <1>18, OpsCore

(* The program releases an I/O object: at once, or by leaving it to the I/O *)
(* thread.                                                                  *)
LEMMA ReleaseIoCore ==
  ASSUME BaseInv, BaseInv', CoreInv, NEW t \in Callers, NEW o \in Objects,
         TpReleaseIoCompletion(t, o), UNCHANGED waitVars, UNCHANGED timerVars
  PROVE  CoreInv'
<1>0. Shape /\ Shape' /\ ObjInv /\ IoShape /\ KeyOK /\ CallersInv /\ ListedOK /\ MembersOK
  BY DEF BaseInv, CoreInv
<1>1. /\ o \in Ios /\ Type[o] = "io" /\ obj[o].owner = "user" /\ obj[o].shutdown = FALSE /\ NotInCall(o)
      /\ io' = [io EXCEPT ![o].shutting_down = TRUE]
  BY <1>0, KindsOfObjects DEF TpReleaseIoCompletion, ShutsDown, Usable, Shape, ObjRec
<1>2. /\ Typed(obj[o], WN(o), CN(o), HN(o), PN(o), InService(o))
      /\ ObjOK(o, obj[o], WN(o), CN(o), HN(o), PN(o), InService(o)) /\ obj[o] \in ObjRec
  BY <1>0, GoodTyped
<1>3. io \in [Ios -> IoRec] /\ ioq \in IoqRec /\ port \in Seq(Ios \cup {NoKey})
  BY <1>0 DEF IoShape, IoState
<1>4. PICK r \in IoRec : r = [io[o] EXCEPT !.shutting_down = TRUE]
  BY <1>1, <1>3 DEF IoRec
<1>5. r.outstanding = io[o].outstanding /\ r.shutting_down = TRUE /\ io[o].outstanding \in Nat
  BY <1>1, <1>3, <1>4 DEF IoRec
<1>6. io' \in [Ios -> IoRec] /\ io'[o] = r /\ \A x \in Ios \ {o} : io'[x] = io[x]
  BY <1>1, <1>3, <1>4
<1>7. \A x : HN(x)' = HN(x) /\ InService(x)' = InService(x)
  BY WaitsSame, TimersSame, HoldSame, ServiceKept
<1>8. InService(o) = FALSE
  BY <1>1, KindsOfObjects DEF InService
<1>9. KeptHold(o) /\ KeptServ(o) /\ InService(o)' = FALSE /\ HN(o)' = HN(o)
  BY <1>7, <1>8 DEF KeptHold, KeptServ
<1>10. CASE obj[o].ops = 0 /\ obj[o].skipped = 0
  <2>1. /\ TpRelease(t, o) /\ IoCsFree /\ ioq' = [ioq EXCEPT !.objcount = @ - 1]
        /\ port' = IF ioq.objcount = 1 THEN Append(port, NoKey) ELSE port
    BY <1>10 DEF TpReleaseIoCompletion, tp_ioqueue_unlock
  <2>2. PICK q \in IoqRec : q = [ioq EXCEPT !.objcount = @ - 1]
    <3>1. PICK n \in Int : n = ioq.objcount - 1
      BY <1>3 DEF IoqRec
    <3>2. [ioq EXCEPT !.objcount = n] \in IoqRec
      BY <1>3 DEF IoqRec
    <3> QED
      BY <3>1, <3>2
  <2>3. q.pc = ioq.pc /\ q.key = ioq.key
    BY <1>3, <2>2 DEF IoqRec
  <2>4. /\ port' \in Seq(Ios \cup {NoKey})
        /\ \A x \in Ios : Cnt(port', {x}) = Cnt(port, {x}) /\ Cnt(port, {x}) \in Nat
    <3>1. \A x \in Ios : One(NoKey \in {x}) = 0
      BY IoConstants DEF One
    <3>2. \A x \in Ios : Cnt(Append(port, NoKey), {x}) = Cnt(port, {x}) + One(NoKey \in {x})
                         /\ Cnt(port, {x}) \in Nat
      <4>1. NoKey \in Ios \cup {NoKey}
        OBVIOUS
      <4> QED
        BY <1>3, <4>1, CntAppend
    <3>3. Append(port, NoKey) \in Seq(Ios \cup {NoKey})
      BY <1>3
    <3>4. \A x \in Ios : Cnt(Append(port, NoKey), {x}) = Cnt(port, {x}) /\ Cnt(port, {x}) \in Nat
      BY <3>1, <3>2
    <3> QED
      BY <1>3, <2>1, <3>3, <3>4
  <2>5. IoPassed(o)
    <3>1. \A x \in Ios \ {o} : io'[x] = io[x] /\ Cnt(port', {x}) = Cnt(port, {x})
      BY <1>6, <2>4
    <3> QED
      BY <1>0, <1>1, <1>6, <2>1, <2>2, <2>3, <2>4, <3>1, IoPass
  <2>6. PN(o)'.packets = PN(o).packets
    BY <1>1, <1>5, <1>6, <2>4, <2>5 DEF IoPassed
  <2>7. PN(o).again = FALSE
    <3>1. PacketFacts(ioq, port, io, o)
      BY <1>0, PacketsAre DEF IoShape
    <3>2. ioq.pc # "again"
      BY <2>1 DEF IoCsFree
    <3> QED
      BY <3>1, <3>2 DEF PN, PacketFacts
  <2>8. /\ IoShape' /\ KeyOK' /\ KeptPort(o) /\ PN(o)' \in PNum /\ PN(o)'.ends = PN(o).ends
        /\ PN(o)'.again = PN(o).again
    BY <2>5 DEF IoPassed
  <2> QED
    BY <1>9, <1>10, <2>1, <2>6, <2>7, <2>8, ReleaseCore
<1>11. CASE ~(obj[o].ops = 0 /\ obj[o].skipped = 0)
  <2>1. /\ obj' = [obj EXCEPT ![o].owner = "none"] /\ pools' = pools /\ group' = group
        /\ worker' = worker /\ caller' = caller /\ ioq' = ioq /\ port' = port
    BY <1>11 DEF TpReleaseIoCompletion
  <2>2. IoPassed(o)
    <3>1. /\ port' \in Seq(Ios \cup {NoKey})
          /\ \A x \in Ios \ {o} : io'[x] = io[x] /\ Cnt(port', {x}) = Cnt(port, {x})
      BY <1>3, <1>6, <2>1
    <3> QED
      BY <1>0, <1>1, <1>3, <1>6, <2>1, <3>1, IoPass
  <2>3. PN(o)'.packets = PN(o).packets
    BY <1>5, <1>6, <2>1, <2>2 DEF IoPassed
  <2>4. PICK e : e = [obj[o] EXCEPT !.owner = "none"]
    OBVIOUS
  <2>5. LeftTo(obj[o], e)
    BY <1>2, <2>4 DEF LeftTo, ObjRec
  <2>6. obj'[o] = e /\ KeptObj(o)
    BY <1>0, <2>1, <2>4 DEF Shape, KeptObj
  <2>7. CN(o).wait = 0 /\ CN(o).sub = 0
    BY <1>0, <1>1, NotInCallIs
  <2>8. PICK q : q = PN(o)'
    OBVIOUS
  <2>9. ObjOK(o, e, WN(o), CN(o), HN(o), q, InService(o))
    <3>1. q \in PNum /\ q.ends = PN(o).ends /\ q.packets = PN(o).packets /\ q.again = PN(o).again
      BY <2>2, <2>3, <2>8 DEF IoPassed
    <3> QED
      BY <1>1, <1>2, <1>8, <2>5, <2>7, <3>1, CloseLaterOK
  <2>10. CallersInv' /\ \A x : CN(x)' = CN(x)
    BY <2>1, CallersSame
  <2>11. \A x : WN(x)' = WN(x)
    BY <2>1, WorkersSame
  <2>12. Good(o)'
    <3>1. ObjOK(o, obj'[o], WN(o)', CN(o)', HN(o)', PN(o)', InService(o)')
      BY <1>7, <2>6, <2>8, <2>9, <2>10, <2>11
    <3> QED
      BY <3>1 DEF Good
  <2>13. ListedOK' /\ MembersOK'
    <3>1. \A x \in Objects : obj'[x].pending = obj[x].pending /\ obj'[x].member = obj[x].member
      BY <2>5, <2>6 DEF LeftTo, KeptObj
    <3> QED
      BY <1>0, <2>1, <3>1, ListedSame, MembersSame
  <2>14. Kept(o) /\ IoShape' /\ KeyOK'
    BY <1>9, <2>2, <2>6, <2>10, <2>11 DEF Kept, KeptWork, KeptCall, IoPassed
  <2> QED
    BY <2>10, <2>12, <2>13, <2>14, OneCore
<1> QED
  BY <1>10, <1>11

(* The calls on an object. *)
LEMMA ObjectCallsCore ==
  ASSUME BaseInv, BaseInv', CoreInv, NEW t \in Callers, NEW o \in Objects, ObjectCalls(t, o)
  PROVE  CoreInv'
<1> DEFINE grp == o \in program.grouped
<1>1. grp \in BOOLEAN
  OBVIOUS
<1> HIDE DEF grp
<1>2. CASE /\ \/ TpAllocWork(t, o, grp) \/ TpAllocTimer(t, o, grp) \/ TpAllocWait(t, o, grp)
              \/ TpAllocIoCompletion(t, o)
           /\ UNCHANGED <<now, sets>>
  BY <1>1, <1>2, AllocAllCore
<1>3. CASE InPool(TpSimpleTryPost(t, o, grp))
  BY <1>1, <1>3, SimpleTryPostCore DEF InPool
<1>4. CASE InPool(TpPostWork(t, o))
  BY <1>4, PostWorkCore DEF InPool
<1>5. CASE InPool(TpWaitFor(t, o, FALSE)) \/ InPool(TpWaitFor(t, o, TRUE))
  BY <1>5, WaitForCore DEF InPool
<1>6. CASE TpReleaseObject(t, o) /\ UNCHANGED <<now, sets>>
  BY <1>6, ReleaseObjectCore
<1>7. ASSUME o \in Timers, NEW at \in Timeouts, NEW p \in Periods, NEW n \in UsedWindows,
             TpSetTimer(t, o, at, p, n)
      PROVE  CoreInv'
  BY <1>7, SetTimerCore
<1>8. ASSUME o \in Waits, NEW h \in Handles \cup {NoBucket}, NEW d \in Nat, TpSetWait(t, o, h, d)
      PROVE  CoreInv'
  BY <1>8, SetWaitCore
<1>9. CASE InIo(\/ TpStartAsyncIoOperation(t, o)
                \/ Can("cancelio") /\ TpCancelAsyncIoOperation(t, o)
                \/ Can("release") /\ TpReleaseIoCompletion(t, o))
  BY <1>9, StartIoCore, CancelIoCore, ReleaseIoCore DEF InIo
<1>10. Never \in Nat /\ Delays \subseteq Nat
  BY TimeIsBounded, CallsOfPrograms DEF Never
<1> QED
  BY <1>2, <1>3, <1>4, <1>5, <1>6, <1>7, <1>8, <1>9, <1>10 DEF ObjectCalls, grp

-----------------------------------------------------------------------------
(* Calls on pool and group. *)

(* The members that a group release takes over. *)
LEMMA MarkedAre ==
  ASSUME Shape, MembersOK
  PROVE  /\ Marked \in Seq(Objects) /\ Once(Marked) /\ MarkedSet = Rng(Marked) /\ MarkedSet \subseteq Objects
         /\ \A x \in MarkedSet : obj[x].member = TRUE /\ obj[x].refcount # 0
<1>1. group.members \in Seq(Objects)
  BY DEF Shape, GroupRec
<1>2. /\ Marked \in Seq(Objects)
      /\ Rng(Marked) = Rng(group.members) \ {o \in Objects : obj[o].refcount = 0}
      /\ Once(Marked)
  BY <1>1, WithoutIs DEF Marked, MembersOK
<1>3. MarkedSet = Rng(Marked) /\ MarkedSet \subseteq Objects
  BY MarkedIs
<1> QED
  BY <1>2, <1>3 DEF MembersOK

(* The caller that releases the members has them on its list. *)
LEMMA MembersCaller ==
  ASSUME Shape, MembersOK, NEW cancel \in BOOLEAN, NEW c,
         c = IF Marked = <<>> THEN Idle
             ELSE [Idle EXCEPT !.list = Marked, !.todo = IF cancel THEN Marked ELSE <<>>,
                               !.pc = IF cancel THEN "gcancel" ELSE "gwait"]
  PROVE  CallerGood(c) /\ c.list = Marked /\ c.pc \in {"idle", "gcancel", "gwait"}
<1>1. Once(Marked) /\ Marked \in Seq(Objects)
  BY MarkedAre
<1>2. CASE Marked = <<>>
  BY <1>2, IdleIs
<1>3. CASE Marked # <<>> /\ cancel
  <2>1. c = [Idle EXCEPT !.list = Marked, !.todo = Marked, !.pc = "gcancel"]
    BY <1>3
  <2>2. c.list = Marked /\ c.todo = Marked /\ c.pc = "gcancel" /\ c.obj = Nil
    BY <2>1 DEF Idle
  <2> QED
    BY <1>1, <2>2 DEF CallerGood
<1>4. CASE Marked # <<>> /\ ~cancel
  <2>1. c = [Idle EXCEPT !.list = Marked, !.todo = <<>>, !.pc = "gwait"]
    BY <1>4
  <2>2. c.list = Marked /\ c.pc = "gwait" /\ c.obj = Nil
    BY <2>1 DEF Idle
  <2> QED
    BY <1>1, <2>2 DEF CallerGood
<1> QED
  BY <1>2, <1>3, <1>4

(* The numbers of callers with that. *)
LEMMA MembersCalls ==
  ASSUME Shape, Shape', CallersInv, NEW t \in Callers, IsIdle(t), NEW c, caller' = [caller EXCEPT ![t] = c],
         c.pc \in {"idle", "gcancel", "gwait"}, NEW o
  PROVE  /\ CN(o) \in CNum /\ CN(o)' \in CNum /\ CN(o)'.sub = CN(o).sub /\ CN(o)'.join = CN(o).join
         /\ CN(o)'.rel = CN(o).rel /\ CN(o)'.wait = CN(o).wait /\ CN(o)'.ends = CN(o).ends
         /\ CN(o)'.keep = CN(o).keep + One(o \in Rng(c.list))
<1>1. /\ caller[t] \in CallerSet /\ caller[t].list = <<>> /\ caller[t].pc = "idle"
      /\ \A x : x \notin Rng(caller[t].list)
  BY IsIdleIs
<1>2. caller'[t] = c /\ c \in CallerSet /\ \A x \in Callers \ {t} : SameCall(caller[x], caller'[x])
  BY DEF Shape, SameCall
<1>3. CallShift(o, caller[t], c)
  BY <1>2, CallStep
<1>4. /\ One(caller[t] \in CallsAt(o, {"submit"})) = 0 /\ One(caller[t] \in CallsAt(o, {"join"})) = 0
      /\ One(caller[t] \in CallsAt(o, {"release"})) = 0
      /\ One(caller[t] \in CallsAt(o, {"wait", "sleep"})) = 0
      /\ One(caller[t] \in CallsAt(o, {"destroy"})) = 0 /\ One(caller[t] \in Keepers(o)) = 0
  BY <1>1 DEF One, CallsAt, Keepers
<1>5. /\ One(c \in CallsAt(o, {"submit"})) = 0 /\ One(c \in CallsAt(o, {"join"})) = 0
      /\ One(c \in CallsAt(o, {"release"})) = 0
      /\ One(c \in CallsAt(o, {"wait", "sleep"})) = 0
      /\ One(c \in CallsAt(o, {"destroy"})) = 0 /\ One(c \in Keepers(o)) = One(o \in Rng(c.list))
  BY <1>2 DEF One, CallsAt, Keepers
<1>6. One(o \in Rng(c.list)) \in {0, 1}
  BY DEF One
<1> QED
  BY <1>3, <1>4, <1>5, <1>6 DEF CallShift, CNum

(* The members of the group are released. *)
LEMMA GroupMembersCore ==
  ASSUME BaseInv, BaseInv', CoreInv, NEW t \in Callers, NEW cancel \in BOOLEAN, ReleaseGroupMembers(t, cancel)
  PROVE  CoreInv'
<1>0. Shape /\ Shape' /\ ObjInv /\ IoShape /\ ListedOK /\ MembersOK /\ CallersInv
  BY DEF BaseInv, CoreInv
<1>1. PICK c : c = IF Marked = <<>> THEN Idle
                   ELSE [Idle EXCEPT !.list = Marked, !.todo = IF cancel THEN Marked ELSE <<>>,
                                     !.pc = IF cancel THEN "gcancel" ELSE "gwait"]
  OBVIOUS
<1>2. /\ IsIdle(t) /\ \A o \in MarkedSet : NotInCall(o)
      /\ obj' = [o \in Objects |-> IF o \in MarkedSet THEN Taken(obj[o])
                                   ELSE [obj[o] EXCEPT !.member = FALSE]]
      /\ group' = [group EXCEPT !.members = <<>>] /\ caller' = [caller EXCEPT ![t] = c]
      /\ pools' = pools /\ worker' = worker /\ tp_object_prepare_shutdown(MarkedSet)
  BY <1>1 DEF ReleaseGroupMembers, TpReleaseCleanupGroupMembers, Taken, Goto
<1>3. /\ Marked \in Seq(Objects) /\ Once(Marked) /\ MarkedSet = Rng(Marked) /\ MarkedSet \subseteq Objects
      /\ \A x \in MarkedSet : obj[x].member = TRUE /\ obj[x].refcount # 0
  BY <1>0, MarkedAre
<1>4. CallerGood(c) /\ c.list = Marked /\ c.pc \in {"idle", "gcancel", "gwait"}
  BY <1>0, <1>1, MembersCaller
<1>5. CallersInv'
  BY <1>0, <1>2, <1>4, CallersStep
<1>6. /\ IoShape' /\ KeyOK' /\ \A x : HN(x)' = HN(x) /\ PN(x)' = PN(x)
      /\ \A x \in MarkedSet : InService(x)' = FALSE
      /\ \A x \in Objects \ MarkedSet : InService(x)' = InService(x)
  BY <1>2, <1>3, ShutdownEffect
<1>7. \A x : WN(x)' = WN(x)
  BY <1>2, WorkersSame
<1>8. ASSUME NEW o \in Objects
      PROVE  Good(o)' /\ obj'[o].pending = obj[o].pending /\ obj'[o].member = FALSE
  <2>1. /\ Typed(obj[o], WN(o), CN(o), HN(o), PN(o), InService(o))
        /\ ObjOK(o, obj[o], WN(o), CN(o), HN(o), PN(o), InService(o)) /\ obj[o] \in ObjRec
    BY <1>0, <1>8, GoodTyped
  <2>2. /\ CN(o) \in CNum /\ CN(o)' \in CNum /\ CN(o)'.sub = CN(o).sub /\ CN(o)'.join = CN(o).join
        /\ CN(o)'.rel = CN(o).rel /\ CN(o)'.wait = CN(o).wait /\ CN(o)'.ends = CN(o).ends
        /\ CN(o)'.keep = CN(o).keep + One(o \in Rng(c.list))
    BY <1>0, <1>2, <1>4, MembersCalls
  <2>3. CASE o \in MarkedSet
    <3>1. PICK e : e = Taken(obj[o])
      OBVIOUS
    <3>2. TakenIs(obj[o], e) /\ obj'[o] = e
      BY <1>2, <1>8, <2>1, <2>3, <3>1, TakeIs
    <3>3. CN(o).wait = 0 /\ CN(o).sub = 0 /\ obj[o].member = TRUE /\ obj[o].refcount # 0
      BY <1>0, <1>2, <1>3, <2>3, NotInCallIs
    <3>4. PICK d : d = CN(o)'
      OBVIOUS
    <3>5. One(o \in Rng(c.list)) = 1
      BY <1>3, <1>4, <2>3 DEF One
    <3>6. /\ d \in CNum /\ d.sub = CN(o).sub /\ d.join = CN(o).join /\ d.rel = CN(o).rel
          /\ d.wait = CN(o).wait /\ d.ends = CN(o).ends /\ d.keep = CN(o).keep + 1
      BY <2>2, <3>4, <3>5
    <3>7. ObjOK(o, e, WN(o), d, HN(o), PN(o), FALSE)
      BY <1>8, <2>1, <3>2, <3>3, <3>6, TakenOK
    <3>8. ObjOK(o, obj'[o], WN(o)', CN(o)', HN(o)', PN(o)', InService(o)')
      BY <1>6, <1>7, <2>3, <3>2, <3>4, <3>7
    <3> QED
      BY <3>2, <3>8 DEF Good, TakenIs
  <2>4. CASE o \notin MarkedSet
    <3>1. PICK e : e = [obj[o] EXCEPT !.member = FALSE]
      OBVIOUS
    <3>2. JoinedTo(obj[o], e, FALSE) /\ obj'[o] = e
      BY <1>2, <1>8, <2>1, <2>4, <3>1 DEF JoinedTo, ObjRec
    <3>3. CN(o)' = CN(o)
      <4>1. One(o \in Rng(c.list)) = 0
        BY <1>3, <1>4, <2>4 DEF One
      <4>2. CN(o)'.keep = CN(o).keep + 0 /\ CN(o).keep \in Nat
        BY <2>2, <4>1 DEF CNum
      <4>3. CN(o)'.keep = CN(o).keep
        BY <4>2
      <4> QED
        BY <2>2, <4>3 DEF CNum
    <3>4. ObjOK(o, e, WN(o), CN(o), HN(o), PN(o), InService(o))
      BY <1>8, <2>1, <3>2, UntakenOK
    <3>5. ObjOK(o, obj'[o], WN(o)', CN(o)', HN(o)', PN(o)', InService(o)')
      BY <1>6, <1>7, <1>8, <2>4, <3>2, <3>3, <3>4
    <3> QED
      BY <3>2, <3>5 DEF Good, JoinedTo
  <2> QED
    BY <2>3, <2>4
<1>9. ObjInv'
  BY <1>8 DEF ObjInv
<1>10. ListedOK'
  BY <1>0, <1>2, <1>8, ListedSame
<1>11. MembersOK'
  <2>1. group'.members = <<>>
    BY <1>0, <1>2 DEF Shape, GroupRec
  <2>2. Once(group'.members) /\ \A x : x \notin Rng(group'.members)
    BY <2>1, NoList
  <2> QED
    BY <1>8, <2>2 DEF MembersOK
<1> QED
  BY <1>5, <1>6, <1>9, <1>10, <1>11, CoreBecomes

(* The calls on pool and group. *)
LEMMA PoolCallsCore ==
  ASSUME BaseInv, BaseInv', CoreInv, NEW t \in Callers, PoolCalls(t)
  PROVE  CoreInv'
<1>0. Shape
  BY DEF BaseInv
<1>1. CASE InPool(TpAllocFails(t))
  <2>1. /\ \E p : tp_new_worker_thread(p)
        /\ pools' = pools /\ obj' = obj /\ group' = group /\ caller' = caller /\ UNCHANGED queueVars
    BY <1>1 DEF InPool, TpAllocFails
  <2>2. \A x \in Workers : SameWork(worker[x], worker'[x])
    BY <1>0, <2>1, NewWorkerSame
  <2> QED
    BY <2>1, <2>2, WorkersOnly
<1>2. CASE InPool(TpReleasePool(t))
  <2>1. /\ worker' = [w \in Workers |-> IF w \in Sleepers THEN [worker[w] EXCEPT !.pc = "run"] ELSE worker[w]]
        /\ pools' = pools /\ obj' = obj /\ group' = group /\ caller' = caller /\ UNCHANGED queueVars
    BY <1>2 DEF InPool, TpReleasePool
  <2>2. ASSUME NEW x \in Workers PROVE SameWork(worker[x], worker'[x])
    <3>0. worker[x] \in WorkerSet
      BY <1>0 DEF Shape
    <3>1. CASE x \in Sleepers
      <4>1. worker[x].pc = "asleep" /\ worker'[x] = [worker[x] EXCEPT !.pc = "run"]
        BY <2>1, <3>1 DEF Sleepers
      <4>2. worker'[x].pc = "run"
        BY <3>0, <4>1 DEF WorkerSet, WorkerRec
      <4> QED
        BY <4>1, <4>2 DEF SameWork
    <3>2. CASE x \notin Sleepers
      BY <2>1, <3>2 DEF SameWork
    <3> QED
      BY <3>1, <3>2
  <2> QED
    BY <2>1, <2>2, WorkersOnly
<1>3. ASSUME NEW n \in Limits, InPool(TpSetPoolMaxThreads(t, n))
      PROVE  CoreInv'
  <2>1. /\ worker' = worker /\ pools' = pools /\ obj' = obj /\ group' = group /\ caller' = caller
        /\ UNCHANGED queueVars
    BY <1>3 DEF InPool, TpSetPoolMaxThreads
  <2>2. \A x \in Workers : SameWork(worker[x], worker'[x])
    BY <2>1 DEF SameWork
  <2> QED
    BY <2>1, <2>2, WorkersOnly
<1>4. ASSUME NEW n \in Limits, InPool(TpSetPoolMinThreads(t, n))
      PROVE  CoreInv'
  <2>1. PICK S \in SUBSET Spare :
          worker' = [w \in Workers |-> IF w \in S THEN [NoWorker EXCEPT !.pc = "run"] ELSE worker[w]]
    BY <1>4 DEF InPool, TpSetPoolMinThreads
  <2>2. pools' = pools /\ obj' = obj /\ group' = group /\ caller' = caller /\ UNCHANGED queueVars
    BY <1>4 DEF InPool, TpSetPoolMinThreads
  <2>3. ASSUME NEW x \in Workers PROVE SameWork(worker[x], worker'[x])
    <3>1. CASE x \in S
      <4>1. worker[x].pc = "none" /\ worker'[x] = [NoWorker EXCEPT !.pc = "run"]
        BY <2>1, <3>1 DEF Spare
      <4>2. worker'[x].pc = "run"
        BY <4>1 DEF NoWorker
      <4> QED
        BY <4>1, <4>2 DEF SameWork
    <3>2. CASE x \notin S
      BY <2>1, <3>2 DEF SameWork
    <3> QED
      BY <3>1, <3>2
  <2> QED
    BY <2>2, <2>3, WorkersOnly
<1>5. CASE InPool(TpReleaseCleanupGroup(t))
  <2>1. /\ worker' = worker /\ pools' = pools /\ obj' = obj /\ caller' = caller
        /\ group' = tp_group_release([group EXCEPT !.shutdown = TRUE]) /\ UNCHANGED queueVars
    BY <1>5 DEF InPool, TpReleaseCleanupGroup
  <2>2. group'.members = group.members
    <3>1. PICK g : g = [group EXCEPT !.shutdown = TRUE]
      OBVIOUS
    <3>2. g \in GroupRec /\ g.members = group.members
      BY <1>0, <3>1 DEF Shape, GroupRec
    <3> QED
      BY <2>1, <3>1, <3>2, GroupReleaseIs
  <2>3. \A x \in Workers : SameWork(worker[x], worker'[x])
    BY <2>1 DEF SameWork
  <2> QED
    BY <2>1, <2>2, <2>3, WorkersOnly
<1>6. ASSUME NEW c \in BOOLEAN, ReleaseGroupMembers(t, c)
      PROVE  CoreInv'
  BY <1>6, GroupMembersCore
<1> QED
  BY <1>1, <1>2, <1>3, <1>4, <1>5, <1>6 DEF PoolCalls, InPool

-----------------------------------------------------------------------------
(* The service threads. *)

(* An object in a queue is alive, and its record does for a submission. *)
LEMMA ServedIs ==
  ASSUME Shape, CoreInv, NEW o \in Objects, InService(o) = TRUE
  PROVE  /\ obj[o].life = "live" /\ obj[o] \in ObjRec /\ Ready(obj[o], obj[o]) /\ obj[o].signaled \in Nat
<1>1. /\ Typed(obj[o], WN(o), CN(o), HN(o), PN(o), InService(o))
      /\ ObjOK(o, obj[o], WN(o), CN(o), HN(o), PN(o), InService(o)) /\ obj[o] \in ObjRec
  BY GoodTyped DEF CoreInv
<1>2. obj[o].life = "live"
  BY <1>1, AliveIf
<1>3. CountPart(o, obj[o], WN(o), PN(o))
  BY <1>1 DEF ObjOK
<1>4. /\ obj[o].ops \in Int /\ obj[o].posts \in Int /\ obj[o].signaled \in Int /\ obj[o].completions \in Int
  BY <1>1, TypedIs
<1> QED
  BY <1>1, <1>2, <1>3, <1>4 DEF Ready, CountPart

(* A timer expires. *)
LEMMA TimerExpiresCore ==
  ASSUME BaseInv, BaseInv', CoreInv, TimerExpires
  PROVE  CoreInv'
<1>0. Shape /\ Shape' /\ TimerInv
  BY DEF BaseInv
<1>1. PICK o : o = ExpiredTimer
  OBVIOUS
<1>2. /\ submit_expired_timers(obj[ExpiredTimer].shutdown) /\ AnyExpired
      /\ tp_object_submit(o, obj[o], pool) /\ group' = group /\ caller' = caller
      /\ UNCHANGED waitVars /\ UNCHANGED ioVars
  BY <1>1 DEF TimerExpires, submit_expired_timers
<1>3. o \in Timers /\ timer[o].pending
  BY <1>0, <1>1, <1>2, ExpiredIs
<1>4. o \in Objects /\ Type[o] = "timer"
  BY <1>3, KindsOfObjects
<1>5. timer[o].initialized = TRUE
  BY <1>0, <1>3 DEF TimerInv, CountOK, TimerRec
<1>6. InService(o) = TRUE
  BY <1>3, <1>5 DEF InService
<1>7. obj[o].life = "live" /\ Ready(obj[o], obj[o])
  BY <1>0, <1>4, <1>6, ServedIs
<1>8. TimersKept
  BY <1>0, <1>2, TimersKeptIf
<1>9. HeldKept /\ QueuedKept
  BY <1>2, WaitsSame
<1>10. \A x \in Objects : HN(x)' = HN(x)
  BY <1>9, HoldSame
<1>11. \A x \in Objects : InService(x)' = InService(x)
  BY <1>8, <1>9, ServiceKept
<1> QED
  BY <1>2, <1>4, <1>7, <1>10, <1>11, SubmitPlain

(* The timer thread. *)
LEMMA TimerThreadCore ==
  ASSUME BaseInv, BaseInv', CoreInv, TimerThread
  PROVE  CoreInv'
<1>1. CASE TimerExpires
  BY <1>1, TimerExpiresCore
<1>2. CASE /\ TimerThreadWaits \/ TimerThreadWakes \/ TimerThreadEnters
           /\ UNCHANGED <<poolVars, waitVars, ioVars, now, sets>>
  <2>1. UNCHANGED poolVars /\ UNCHANGED waitVars /\ UNCHANGED ioVars
    BY <1>2
  <2>2. TimersKept
    BY <1>2, TimersKeptIf DEF BaseInv
  <2> QED
    BY <2>1, <2>2, WaitsSame, QueuesOnly
<1> QED
  BY <1>1, <1>2 DEF TimerThread

(* A wait object is submitted, with its new record. *)
LEMMA WaitSubmitCore ==
  ASSUME BaseInv, BaseInv', CoreInv, NEW b \in Buckets, WaitElapses(b) \/ WaitFires(b), NEW o \in Waits,
         wait[o].bucket = b, NEW f \in {obj[o], [obj[o] EXCEPT !.signaled = @ + 1]},
         tp_object_submit(o, f, pool), group' = group, caller' = caller, UNCHANGED timerVars,
         UNCHANGED ioVars
  PROVE  CoreInv'
<1>0. Shape /\ WaitInv
  BY DEF BaseInv
<1>1. o \in Objects /\ Type[o] = "wait"
  BY KindsOfObjects
<1>2. InService(o) = TRUE
  BY WaitConstants DEF InService
<1>3. obj[o].life = "live" /\ obj[o] \in ObjRec /\ Ready(obj[o], obj[o]) /\ obj[o].signaled \in Nat
  BY <1>0, <1>1, <1>2, ServedIs
<1>4. Ready(obj[o], f) /\ f.ops = obj[o].ops
  <2>1. CASE f = obj[o]
    BY <1>3, <2>1
  <2>2. CASE f = [obj[o] EXCEPT !.signaled = @ + 1]
    BY <1>3, <2>2, SignaledIs DEF Ready
  <2> QED
    BY <2>1, <2>2
<1>5. HeldKept /\ QueuedKept
  BY <1>0, ElapsesEffect
<1>6. \A x \in Objects : HN(x)' = HN(x)
  BY <1>5, HoldSame
<1>7. \A x \in Objects : InService(x)' = InService(x)
  BY <1>5, TimersSame, ServiceKept
<1> QED
  BY <1>1, <1>3, <1>4, <1>6, <1>7, SubmitPlain

(* An object on the waiting list of a bucket is alive. *)
LEMMA WaitingIs ==
  ASSUME BaseInv, CoreInv, NEW b \in Buckets, NEW o \in Waits, o \in Rng(bucket[b].waiting)
  PROVE  obj[o].life = "live"
<1>1. wait[o].bucket = b
  BY DEF BaseInv, WaitInv, BucketOK, ListPart
<1>2. InService(o) = TRUE /\ o \in Objects
  BY <1>1, WaitConstants, KindsOfObjects DEF InService
<1> QED
  BY <1>2, ServedIs DEF BaseInv

(* The thread of a bucket takes references. *)
LEMMA HoldObjectsCore ==
  ASSUME BaseInv, BaseInv', CoreInv, NEW b \in Buckets, HoldObjects(b), UNCHANGED timerVars, UNCHANGED ioVars
  PROVE  CoreInv'
<1>0. /\ Shape /\ Shape' /\ ObjInv /\ IoShape /\ KeyOK /\ ListedOK /\ MembersOK /\ CallersInv
      /\ WaitInv /\ WaitInv'
  BY DEF BaseInv, CoreInv
<1>1. /\ WaitThreadBlocks(b) /\ pools' = pools /\ group' = group /\ worker' = worker /\ caller' = caller
      /\ obj' = [o \in Objects |->
                 IF \E i \in DOMAIN bucket[b].waiting : bucket[b].waiting[i] = o
                   THEN [obj[o] EXCEPT !.refcount = @ + 1] ELSE obj[o]]
  BY DEF HoldObjects
<1>2. bucket[b].waiting \in Seq(Waits)
  BY <1>0 DEF WaitInv, BucketRec
<1>3. \A o : (\E i \in DOMAIN bucket[b].waiting : bucket[b].waiting[i] = o) <=> o \in Rng(bucket[b].waiting)
  BY DEF Rng
<1>4. /\ \A x : WN(x)' = WN(x)
      /\ CallersInv' /\ \A x : CN(x)' = CN(x)
  BY <1>1, WorkersSame, CallersSame
<1>5. IoShape' /\ KeyOK' /\ \A x : PN(x)' = PN(x)
  BY IoSame
<1>6. wait' = wait
  BY <1>0, <1>1, BlocksEffect
<1>7. \A x : InService(x)' = InService(x)
  <2>1. QueuedKept
    BY <1>6 DEF QueuedKept
  <2> QED
    BY <2>1, TimersSame, ServiceKept
<1>8. ASSUME NEW o \in Objects
      PROVE  Good(o)' /\ obj'[o].pending = obj[o].pending /\ obj'[o].member = obj[o].member
  <2>1. /\ Typed(obj[o], WN(o), CN(o), HN(o), PN(o), InService(o))
        /\ ObjOK(o, obj[o], WN(o), CN(o), HN(o), PN(o), InService(o)) /\ obj[o] \in ObjRec
    BY <1>0, <1>8, GoodTyped
  <2>2. CASE o \in Rng(bucket[b].waiting)
    <3>1. PICK e : e = [obj[o] EXCEPT !.refcount = @ + 1]
      OBVIOUS
    <3>2. HeldTo(obj[o], e)
      BY <2>1, <3>1, HeldIs DEF HeldTo
    <3>3. obj'[o] = e
      BY <1>1, <1>3, <1>8, <2>2, <3>1
    <3>4. o \in Waits
      BY <1>2, <2>2 DEF Rng
    <3>5. obj[o].life = "live"
      BY <2>2, <3>4, WaitingIs
    <3>6. PICK g : g = HN(o)'
      OBVIOUS
    <3>7. g = HN(o) + 1
      BY <1>0, <1>1, <2>2, <3>6, HoldTakes
    <3>8. ObjOK(o, e, WN(o), CN(o), g, PN(o), InService(o))
      BY <1>8, <2>1, <3>2, <3>5, <3>7, HoldOK
    <3>9. ObjOK(o, obj'[o], WN(o)', CN(o)', HN(o)', PN(o)', InService(o)')
      BY <1>4, <1>5, <1>7, <3>3, <3>6, <3>8
    <3> QED
      BY <3>2, <3>3, <3>9 DEF Good, HeldTo
  <2>3. CASE o \notin Rng(bucket[b].waiting)
    <3>1. obj'[o] = obj[o]
      BY <1>1, <1>3, <1>8, <2>3
    <3>2. HN(o)' = HN(o)
      BY <1>0, <1>1, <2>3, HoldTakes
    <3>3. ObjOK(o, obj'[o], WN(o)', CN(o)', HN(o)', PN(o)', InService(o)')
      BY <1>4, <1>5, <1>7, <2>1, <3>1, <3>2
    <3> QED
      BY <3>1, <3>3 DEF Good
  <2> QED
    BY <2>2, <2>3
<1>9. ObjInv'
  BY <1>8 DEF ObjInv
<1>10. ListedOK'
  BY <1>0, <1>1, <1>8, ListedSame
<1>11. MembersOK'
  BY <1>0, <1>1, <1>8, MembersSame
<1> QED
  BY <1>4, <1>5, <1>9, <1>10, <1>11, CoreBecomes

(* A thread that holds an object counts. *)
LEMMA LastHeldCounts ==
  ASSUME WaitInv, NEW b \in Buckets, bucket[b].held # <<>>
  PROVE  HN(LastHeld(b)) > 0
<1>1. PICK o : o = LastHeld(b)
  OBVIOUS
<1>2. PICK s, m : s = bucket[b].held /\ m = Len(s)
  OBVIOUS
<1>3. s \in Seq(HeldRecord) /\ m <= MaxInBucket
  <2>1. bucket[b] \in BucketRec /\ ThreadPart(b, bucket[b], wait)
    BY BucketFacts
  <2> QED
    BY <1>2, <2>1 DEF BucketRec, ThreadPart
<1>4. m \in Nat \ {0}
  BY <1>2, <1>3
<1>5. <<b, m>> \in HeldBy(o)
  BY <1>1, <1>2, <1>3, <1>4, WaitConstants DEF HeldBy, LastHeld
<1>6. IsFiniteSet(HeldBy(o)) /\ HN(o) \in Nat
  BY HeldFinite
<1>7. HN(o) # 0
  BY <1>5, <1>6, FS_EmptySet DEF HN
<1> QED
  BY <1>1, <1>6, <1>7

(* The thread of a bucket destroys an object it has dropped the last        *)
(* reference to.                                                            *)
LEMMA HeldDestroyCore ==
  ASSUME BaseInv, BaseInv', CoreInv, NEW b \in Buckets, NEW o, o = LastHeld(b), bucket[b].held # <<>>,
         obj[o].life = "dying", tp_object_destroy(o), WaitThreadDrops(b), worker' = worker, caller' = caller,
         UNCHANGED timerVars, UNCHANGED ioVars
  PROVE  CoreInv'
<1>0. /\ Shape /\ Shape' /\ ObjInv /\ IoShape /\ KeyOK /\ ListedOK /\ MembersOK /\ CallersInv /\ WaitInv
  BY DEF BaseInv, CoreInv
<1>1. o \in Waits /\ o \in Objects
  BY <1>0, LastHeldIs
<1>2. /\ Typed(obj[o], WN(o), CN(o), HN(o), PN(o), InService(o))
      /\ ObjOK(o, obj[o], WN(o), CN(o), HN(o), PN(o), InService(o))
      /\ WN(o) \in WNum /\ CN(o) \in CNum /\ PN(o) \in PNum /\ HN(o) \in Nat
  BY <1>0, <1>1, GoodTyped
<1>3. obj[o].pending = 0 /\ (obj[o].member = TRUE => obj[o].grouped = TRUE)
  BY <1>2 DEF ObjOK, DeadPart, Unused, UsePart, GroupPart
<1>4. DestroyedTo(obj[o], obj'[o]) /\ KeptObj(o) /\ MembersOK' /\ ListedOK'
  BY <1>0, <1>1, <1>3, DestroyEffect DEF KeptObj
<1>5. PICK g : g = HN(o)'
  OBVIOUS
<1>6. g = HN(o) - 1 /\ HN(o) > 0
  BY <1>0, <1>5, HoldDrops
<1>7. g \in Nat
  BY <1>2, <1>6
<1>8. SameButEnds(WN(o), CN(o), PN(o), WN(o), CN(o), PN(o))
  BY <1>2 DEF SameButEnds
<1>9. Enders(WN(o), CN(o), g, PN(o)) = Enders(WN(o), CN(o), HN(o), PN(o)) - 1
  <2>1. WN(o).ends \in Nat /\ CN(o).ends \in Nat /\ PN(o).ends \in Nat /\ HN(o) \in Nat
    BY <1>2 DEF WNum, CNum, PNum
  <2> QED
    BY <1>6, <2>1 DEF Enders
<1>10. ObjOK(o, obj'[o], WN(o), CN(o), g, PN(o), InService(o))
  BY <1>1, <1>2, <1>4, <1>7, <1>8, <1>9, DestroysOK
<1>11. KeptHold(o)
  BY <1>0, HoldDrops DEF KeptHold
<1>12. /\ \A x : WN(x)' = WN(x)
       /\ CallersInv' /\ \A x : CN(x)' = CN(x)
       /\ IoShape' /\ KeyOK' /\ \A x : PN(x)' = PN(x)
  BY WorkersSame, CallersSame, IoSame
<1>13. \A x : InService(x)' = InService(x)
  <2>1. wait' = wait
    BY <1>0, DropsEffect
  <2>2. QueuedKept
    BY <2>1 DEF QueuedKept
  <2> QED
    BY <2>2, TimersSame, ServiceKept
<1>14. ObjOK(o, obj'[o], WN(o)', CN(o)', HN(o)', PN(o)', InService(o)')
  BY <1>5, <1>10, <1>12, <1>13
<1>15. Good(o)' /\ Kept(o)
  BY <1>4, <1>11, <1>12, <1>13, <1>14 DEF Good, Kept, KeptWork, KeptCall, KeptPort, KeptServ
<1> QED
  BY <1>4, <1>12, <1>15, OneCore

(* It drops a reference. *)
LEMMA HeldDropCore ==
  ASSUME BaseInv, BaseInv', CoreInv, NEW b \in Buckets, NEW o, o = LastHeld(b), bucket[b].held # <<>>,
         obj[o].life # "dying", obj' = [obj EXCEPT ![o] = Dropped(@, 1)],
         IF obj[o].refcount = 1 THEN UNCHANGED waitVars ELSE WaitThreadDrops(b),
         pools' = pools, group' = group, worker' = worker, caller' = caller,
         UNCHANGED timerVars, UNCHANGED ioVars
  PROVE  CoreInv'
<1>0. /\ Shape /\ Shape' /\ ObjInv /\ IoShape /\ KeyOK /\ ListedOK /\ MembersOK /\ CallersInv /\ WaitInv
  BY DEF BaseInv, CoreInv
<1>1. o \in Waits /\ o \in Objects /\ Type[o] = "wait"
  BY <1>0, LastHeldIs, KindsOfObjects
<1>2. /\ Typed(obj[o], WN(o), CN(o), HN(o), PN(o), InService(o))
      /\ ObjOK(o, obj[o], WN(o), CN(o), HN(o), PN(o), InService(o))
      /\ obj[o] \in ObjRec /\ HN(o) \in Nat
  BY <1>0, <1>1, GoodTyped
<1>3. PICK e : e = Dropped(obj[o], 1)
  OBVIOUS
<1>4. GivenBack(obj[o], e, 1)
  BY <1>2, <1>3, DropGives
<1>5. obj'[o] = e /\ KeptObj(o)
  BY <1>0, <1>1, <1>3 DEF Shape, KeptObj
<1>6. HN(o) > 0
  BY <1>0, LastHeldCounts
<1>7. PICK g : g = HN(o)'
  OBVIOUS
<1>8. g = HN(o) - One(obj[o].refcount # 1) /\ KeptHold(o) /\ QueuedKept
  <2>1. CASE obj[o].refcount = 1
    <3>1. HeldKept /\ QueuedKept
      BY <2>1, WaitsSame
    <3>2. \A x : HN(x)' = HN(x)
      BY <3>1, HoldSame
    <3>3. One(obj[o].refcount # 1) = 0
      BY <2>1 DEF One
    <3> QED
      BY <1>2, <1>7, <3>1, <3>2, <3>3 DEF KeptHold
  <2>2. CASE obj[o].refcount # 1
    <3>1. wait' = wait
      BY <1>0, <2>2, DropsEffect
    <3>2. g = HN(o) - 1
      BY <1>0, <1>7, <2>2, HoldDrops
    <3>3. KeptHold(o)
      BY <1>0, <2>2, HoldDrops DEF KeptHold
    <3>4. One(obj[o].refcount # 1) = 1
      BY <2>2 DEF One
    <3> QED
      BY <3>1, <3>2, <3>3, <3>4 DEF QueuedKept
  <2> QED
    BY <2>1, <2>2
<1>9. ObjOK(o, e, WN(o), CN(o), g, PN(o), InService(o))
  BY <1>1, <1>2, <1>4, <1>6, <1>8, DropHeldOK
<1>12. /\ \A x : WN(x)' = WN(x)
       /\ CallersInv' /\ \A x : CN(x)' = CN(x)
       /\ IoShape' /\ KeyOK' /\ \A x : PN(x)' = PN(x)
  BY WorkersSame, CallersSame, IoSame
<1>13. \A x : InService(x)' = InService(x)
  BY <1>8, TimersSame, ServiceKept
<1>14. ObjOK(o, obj'[o], WN(o)', CN(o)', HN(o)', PN(o)', InService(o)')
  BY <1>5, <1>7, <1>9, <1>12, <1>13
<1>15. Good(o)' /\ Kept(o)
  BY <1>5, <1>8, <1>12, <1>13, <1>14 DEF Good, Kept, KeptWork, KeptCall, KeptPort, KeptServ
<1>16. /\ \A x \in Objects : obj'[x].pending = obj[x].pending
       /\ \A x \in Objects : obj'[x].member = obj[x].member
  BY <1>4, <1>5 DEF KeptObj, GivenBack
<1>17. ListedOK' /\ MembersOK'
  BY <1>0, <1>16, ListedSame, MembersSame
<1> QED
  BY <1>12, <1>15, <1>17, OneCore

(* The threads of the buckets. *)
LEMMA WaitThreadCore ==
  ASSUME BaseInv, BaseInv', CoreInv, NEW b \in Buckets, WaitThread(b)
  PROVE  CoreInv'
<1>0. WaitInv /\ UNCHANGED timerVars /\ UNCHANGED ioVars
  BY DEF BaseInv, WaitThread
<1>1. CASE SubmitElapsed(b)
  <2>1. PICK o : o = ElapsedWait(b)
    OBVIOUS
  <2>2. WaitElapses(b) /\ tp_object_submit(o, obj[o], pool) /\ group' = group /\ caller' = caller
    BY <1>1, <2>1 DEF SubmitElapsed
  <2>3. o \in Waits /\ wait[o].bucket = b
    BY <1>0, <2>1, <2>2, ElapsesKeeps
  <2> QED
    BY <1>0, <2>2, <2>3, WaitSubmitCore
<1>2. CASE SubmitSignaled(b)
  <2>1. PICK o : o = HitObject(b)
    OBVIOUS
  <2>2. /\ WaitFires(b) /\ tp_object_submit(o, [obj[o] EXCEPT !.signaled = @ + 1], pool)
        /\ group' = group /\ caller' = caller
    BY <1>2, <2>1 DEF SubmitSignaled
  <2>3. o \in Waits /\ wait[o].bucket = b
    BY <1>0, <2>1, <2>2, FiresKeeps
  <2>4. PICK f : f = [obj[o] EXCEPT !.signaled = @ + 1]
    OBVIOUS
  <2>5. tp_object_submit(o, f, pool) /\ f \in {obj[o], [obj[o] EXCEPT !.signaled = @ + 1]}
    BY <2>2, <2>4
  <2> QED
    BY <1>0, <2>2, <2>3, <2>5, WaitSubmitCore
<1>3. CASE HoldObjects(b)
  BY <1>0, <1>3, HoldObjectsCore
<1>4. CASE ReleaseHeld(b)
  <2>1. PICK o : o = LastHeld(b)
    OBVIOUS
  <2>2. bucket[b].held # <<>> /\ worker' = worker /\ caller' = caller
    BY <1>4 DEF ReleaseHeld
  <2>3. CASE obj[o].life = "dying"
    <3>1. tp_object_destroy(o) /\ WaitThreadDrops(b)
      BY <1>4, <2>1, <2>3 DEF ReleaseHeld
    <3> QED
      BY <1>0, <2>1, <2>2, <2>3, <3>1, HeldDestroyCore
  <2>4. CASE obj[o].life # "dying"
    <3>1. /\ obj' = [obj EXCEPT ![o] = Dropped(@, 1)]
          /\ IF obj[o].refcount = 1 THEN UNCHANGED waitVars ELSE WaitThreadDrops(b)
          /\ pools' = pools /\ group' = group
      BY <1>4, <2>1, <2>4 DEF ReleaseHeld
    <3> QED
      BY <1>0, <2>1, <2>2, <2>4, <3>1, HeldDropCore
  <2> QED
    BY <2>3, <2>4
<1>5. CASE WaitThreadStep(b) /\ UNCHANGED poolVars
  BY <1>0, <1>5, ThreadStepEffect, TimersSame, QueuesOnly
<1> QED
  BY <1>1, <1>2, <1>3, <1>4, <1>5 DEF WaitThread

-----------------------------------------------------------------------------
(* The I/O thread. *)

(* What is in the port and in hand of the thread is the same of each object. *)
SameIo(q, s, f, x) ==
    /\ f[x].shutting_down = io[x].shutting_down
    /\ f[x].outstanding + Cnt(s, {x}) + One(q.pc = "packet" /\ q.key = x)
         = io[x].outstanding + Cnt(port, {x}) + One(ioq.pc = "packet" /\ ioq.key = x)

(* A packet is sent, or taken from the port, or has no object. *)
LEMMA IoEven ==
  ASSUME KeyOK, NEW q, NEW s, NEW f, IoState(q, s, f), ioq' = q, port' = s, io' = f,
         \/ ioq.pc \notin {"again", "destroy"} /\ q.pc \notin {"again", "destroy"}
         \/ q = ioq,
         \A x \in Ios : SameIo(q, s, f, x)
  PROVE  IoShape' /\ KeyOK' /\ \A x : PN(x)' = PN(x)
<1>1. IoShape'
  BY DEF IoShape
<1>2. KeyOK'
  BY DEF KeyOK
<1>3. ASSUME NEW x PROVE PN(x)' = PN(x)
  <2>1. /\ One(q.pc = "destroy" /\ q.key = x) = One(ioq.pc = "destroy" /\ ioq.key = x)
        /\ (q.pc = "again" /\ q.key = x) = (ioq.pc = "again" /\ ioq.key = x)
    BY DEF One
  <2>2. PacketsOf(q, s, f, x) = PacketsOf(ioq, port, io, x)
    BY DEF PacketsOf, SameIo
  <2>3. (x \in Ios /\ f[x].shutting_down = TRUE) = (x \in Ios /\ io[x].shutting_down = TRUE)
    BY DEF SameIo
  <2>4. PNOf(q, s, f, x) = PNOf(ioq, port, io, x)
    BY <2>1, <2>2, <2>3 DEF PNOf
  <2> QED
    BY <2>4 DEF PN
<1> QED
  BY <1>1, <1>2, <1>3

(* Such a step leaves the pool alone. *)
LEMMA IoOnly ==
  ASSUME BaseInv, CoreInv, UNCHANGED poolVars, UNCHANGED waitVars, UNCHANGED timerVars,
         IoShape', KeyOK', \A x : PN(x)' = PN(x)
  PROVE  CoreInv'
<1>1. obj' = obj /\ pools' = pools /\ group' = group /\ worker' = worker /\ caller' = caller
  BY DEF poolVars
<1>2. CallersInv' /\ \A x : CN(x)' = CN(x)
  BY <1>1, CallersSame
<1>3. \A x : WN(x)' = WN(x)
  BY <1>1, WorkersSame
<1>4. HeldKept /\ QueuedKept /\ TimersKept
  BY WaitsSame, TimersSame
<1>5. \A x : HN(x)' = HN(x) /\ InService(x)' = InService(x)
  BY <1>4, HoldSame, ServiceKept
<1>6. ListedOK' /\ MembersOK'
  BY <1>1, ListedSame, MembersSame DEF CoreInv
<1>7. PICK o : o \notin Objects
  BY PoolConstants
<1>8. Kept(o)
  BY <1>1, <1>2, <1>3, <1>5 DEF Kept, KeptObj, KeptWork, KeptCall, KeptHold, KeptPort, KeptServ
<1> QED
  BY <1>2, <1>6, <1>7, <1>8, OneCore

(* The thread at work without an object. *)
LEMMA IoThreadStepCore ==
  ASSUME BaseInv, CoreInv, IoThreadStep, UNCHANGED poolVars, UNCHANGED waitVars, UNCHANGED timerVars
  PROVE  CoreInv'
<1>0. /\ ioq \in IoqRec /\ port \in Seq(Ios \cup {NoKey}) /\ io \in [Ios -> IoRec] /\ KeyOK
  BY DEF CoreInv, IoShape, IoState
<1>1. CASE NtRemoveIoCompletion
  <2>1. PICK q : q = [ioq EXCEPT !.pc = "packet", !.key = Head(port)]
    OBVIOUS
  <2>2. ioq.pc = "get" /\ port # <<>> /\ ioq' = q /\ port' = Tail(port) /\ io' = io
    BY <1>1, <2>1 DEF NtRemoveIoCompletion
  <2>3. Head(port) \in Ios \cup {NoKey} /\ Tail(port) \in Seq(Ios \cup {NoKey})
    BY <1>0, <2>2
  <2>4. q \in IoqRec /\ q.pc = "packet" /\ q.key = Head(port)
    BY <1>0, <2>1, <2>3 DEF IoqRec
  <2>5. IoState(q, Tail(port), io)
    BY <1>0, <2>3, <2>4 DEF IoState
  <2>6. ASSUME NEW x \in Ios PROVE SameIo(q, Tail(port), io, x)
    <3>1. /\ Cnt(port, {x}) \in Nat /\ Cnt(Tail(port), {x}) \in Nat
          /\ Cnt(port, {x}) = Cnt(Tail(port), {x}) + One(Head(port) \in {x})
      BY <1>0, <2>2, CntTail
    <3>2. /\ One(q.pc = "packet" /\ q.key = x) = One(Head(port) \in {x})
          /\ One(ioq.pc = "packet" /\ ioq.key = x) = 0 /\ One(Head(port) \in {x}) \in Nat
      BY <2>2, <2>4 DEF One
    <3>3. io[x].outstanding \in Nat
      BY <1>0, <2>6 DEF IoRec
    <3> QED
      BY <3>1, <3>2, <3>3 DEF SameIo
  <2>7. IoShape' /\ KeyOK' /\ \A x : PN(x)' = PN(x)
    BY <1>0, <2>2, <2>4, <2>5, <2>6, IoEven
  <2> QED
    BY <2>7, IoOnly
<1>2. CASE IoThreadGoesOn \/ IoThreadTimesOut \/ IoThreadEnds
  <2>1. PICK pc \in {"none", "get", "tail", "idle", "late", "exit"} :
          /\ IoGoto(pc) /\ ioq.pc \notin {"again", "destroy"} /\ (ioq.pc = "packet" => ioq.key = NoKey)
    BY <1>2 DEF IoThreadGoesOn, IoThreadTimesOut, IoThreadEnds
  <2>2. PICK q : q = [ioq EXCEPT !.pc = pc]
    OBVIOUS
  <2>3. q \in IoqRec /\ q.pc = pc
    BY <1>0, <2>1, <2>2 DEF IoqRec
  <2>4. ioq' = q /\ port' = port /\ io' = io /\ IoState(q, port, io)
    BY <1>0, <2>1, <2>2, <2>3 DEF IoGoto, IoState
  <2>5. ASSUME NEW x \in Ios PROVE SameIo(q, port, io, x)
    <3>1. One(q.pc = "packet" /\ q.key = x) = 0 /\ One(ioq.pc = "packet" /\ ioq.key = x) = 0
      BY <2>1, <2>3, <2>5, IoConstants DEF One
    <3> QED
      BY <3>1 DEF SameIo
  <2>6. IoShape' /\ KeyOK' /\ \A x : PN(x)' = PN(x)
    BY <1>0, <2>1, <2>3, <2>4, <2>5, IoEven
  <2> QED
    BY <2>6, IoOnly
<1> QED
  BY <1>1, <1>2 DEF IoThreadStep

(* The kernel completes an operation. *)
LEMMA IoCompletesCore ==
  ASSUME BaseInv, CoreInv, NEW o \in Ios, IoCompletes(o)
  PROVE  CoreInv'
<1>0. /\ ioq \in IoqRec /\ port \in Seq(Ios \cup {NoKey}) /\ io \in [Ios -> IoRec] /\ KeyOK
  BY DEF CoreInv, IoShape, IoState
<1>1. /\ io[o].outstanding > 0 /\ io' = [io EXCEPT ![o].outstanding = @ - 1] /\ port' = Append(port, o)
      /\ ioq' = ioq /\ UNCHANGED poolVars /\ UNCHANGED waitVars /\ UNCHANGED timerVars
  BY DEF IoCompletes, InIo, Completes
<1>2. io[o] \in IoRec /\ io[o].outstanding \in Nat
  BY <1>0 DEF IoRec
<1>3. PICK r : r = [io[o] EXCEPT !.outstanding = @ - 1]
  OBVIOUS
<1>4. r \in IoRec /\ r.outstanding = io[o].outstanding - 1 /\ r.shutting_down = io[o].shutting_down
  BY <1>1, <1>2, <1>3 DEF IoRec
<1>5. PICK f \in [Ios -> IoRec] : f = [io EXCEPT ![o] = r]
  BY <1>0, <1>4
<1>6. io' = f /\ f[o] = r /\ \A x \in Ios \ {o} : f[x] = io[x]
  BY <1>0, <1>1, <1>3, <1>5
<1>7. PICK s \in Seq(Ios \cup {NoKey}) : s = Append(port, o)
  <2>1. PICK S : S = Ios \cup {NoKey}
    OBVIOUS
  <2>2. Append(port, o) \in Seq(S)
    BY <1>0, <2>1
  <2> QED
    BY <2>1, <2>2
<1>8. IoState(ioq, s, f)
  BY <1>0, <1>5, <1>7 DEF IoState
<1>9. ASSUME NEW x \in Ios PROVE SameIo(ioq, s, f, x)
  <2>1. Cnt(port, {x}) \in Nat /\ Cnt(s, {x}) = Cnt(port, {x}) + One(o \in {x})
    BY <1>0, <1>7, CntAppend
  <2>2. One(ioq.pc = "packet" /\ ioq.key = x) \in Nat
    BY DEF One
  <2>3. CASE x = o
    <3>1. One(o \in {x}) = 1
      BY <2>3 DEF One
    <3>2. Cnt(s, {x}) = Cnt(port, {x}) + 1 /\ f[x].outstanding = io[x].outstanding - 1
          /\ f[x].shutting_down = io[x].shutting_down /\ io[x].outstanding \in Nat
      BY <1>2, <1>4, <1>6, <2>1, <2>3, <3>1
    <3>3. f[x].outstanding + Cnt(s, {x}) = io[x].outstanding + Cnt(port, {x})
      BY ONLY <2>1, <3>2
    <3> QED
      BY <3>2, <3>3 DEF SameIo
  <2>4. CASE x # o
    <3>1. One(o \in {x}) = 0 /\ f[x] = io[x]
      BY <1>6, <1>9, <2>4 DEF One
    <3> QED
      BY <2>1, <2>2, <3>1 DEF SameIo
  <2> QED
    BY <2>3, <2>4
<1>10. IoShape' /\ KeyOK' /\ \A x : PN(x)' = PN(x)
  BY <1>0, <1>1, <1>6, <1>7, <1>8, <1>9, IoEven
<1> QED
  BY <1>1, <1>10, IoOnly

(* A packet of o, or its second submission, is in hand. *)
LEMMA PacketIs ==
  ASSUME BaseInv, CoreInv, NEW o \in Ios, ioq.key = o, ioq.pc \in {"packet", "again"}
  PROVE  /\ o \in Objects /\ Type[o] = "io" /\ obj[o].life = "live" /\ obj[o].shutdown = FALSE
         /\ Typed(obj[o], WN(o), CN(o), HN(o), PN(o), InService(o))
         /\ ObjOK(o, obj[o], WN(o), CN(o), HN(o), PN(o), InService(o))
         /\ obj[o] \in ObjRec /\ obj[o].ops \in Nat /\ obj[o].skipped \in Nat /\ obj[o].completions \in Nat
         /\ obj[o].posts \in Nat /\ obj[o].signaled \in Nat
         /\ PN(o) \in PNum /\ PN(o).packets \in Nat /\ PN(o).packets <= obj[o].ops + obj[o].skipped
         /\ PN(o).ends = 0
<1>1. o \in Objects /\ Type[o] = "io"
  BY KindsOfObjects
<1>2. /\ Typed(obj[o], WN(o), CN(o), HN(o), PN(o), InService(o))
      /\ ObjOK(o, obj[o], WN(o), CN(o), HN(o), PN(o), InService(o)) /\ obj[o] \in ObjRec /\ PN(o) \in PNum
  BY <1>1, GoodTyped DEF BaseInv, CoreInv
<1>3. PacketFacts(ioq, port, io, o)
  BY PacketsAre DEF CoreInv, IoShape
<1>4. ioq.pc = "again" => PN(o).again = TRUE
  BY <1>3 DEF PacketFacts, PN
<1>5. ioq.pc = "packet" => PN(o).packets > 0
  <2>1. ioq.pc = "packet" => One(ioq.pc = "packet" /\ ioq.key = o) = 1
    BY DEF One
  <2>2. ioq.pc = "packet" => PacketsOf(ioq, port, io, o) > 0
    BY <1>3, <2>1 DEF PacketsOf, PacketFacts
  <2> QED
    BY <1>3, <2>2 DEF PacketFacts, PN
<1>6. PN(o).ends = 0
  BY <1>3 DEF PacketFacts, PN, One
<1>7. obj[o].life = "live"
  BY <1>1, <1>2, <1>4, <1>5, AliveIf
<1>8. obj[o].shutdown = FALSE
  <2>1. CASE ioq.pc = "packet"
    BY <1>1, <1>2, <1>5, <2>1, AliveIf
  <2>2. CASE ioq.pc = "again"
    BY <1>2, <1>4, <2>2 DEF ObjOK, UsePart, IoPart
  <2> QED
    BY <2>1, <2>2
<1>9. CountPart(o, obj[o], WN(o), PN(o))
  BY <1>2 DEF ObjOK
<1>10. /\ obj[o].ops \in Int /\ obj[o].skipped \in Int /\ obj[o].completions \in Int /\ obj[o].posts \in Int
       /\ obj[o].signaled \in Int /\ PN(o).packets \in Nat
  BY <1>2, TypedIs
<1> QED
  BY <1>1, <1>2, <1>6, <1>7, <1>8, <1>9, <1>10 DEF CountPart

(* The thread leaves a packet of o for another point. *)
LEMMA IoMoves ==
  ASSUME CoreInv, NEW o \in Ios, ioq.key = o, NEW pc \in {"get", "tail", "again"}, IoGoto(pc)
  PROVE  /\ IoShape' /\ KeyOK' /\ KeptPort(o) /\ PN(o)' \in PNum /\ PN(o)'.ends = 0
         /\ PN(o)'.again = (pc = "again") /\ PN(o)'.closes = PN(o).closes
         /\ PN(o)'.packets = PN(o).packets - One(ioq.pc = "packet")
         /\ PN(o).ends = One(ioq.pc = "destroy") /\ PN(o).again = (ioq.pc = "again")
<1>0. IoShape /\ ioq \in IoqRec
  BY DEF CoreInv, IoShape, IoState
<1>1. PICK q : q = [ioq EXCEPT !.pc = pc]
  OBVIOUS
<1>2. q \in IoqRec /\ q.pc = pc /\ q.key = o
  BY <1>0, <1>1 DEF IoqRec
<1>3. ioq' = q /\ port' = port /\ io' = io
  BY <1>1 DEF IoGoto
<1>4. /\ IoShape' /\ KeyOK' /\ KeptPort(o) /\ PN(o) \in PNum /\ PN(o)' \in PNum
      /\ PN(o)'.ends = One(q.pc = "destroy") /\ PN(o).ends = One(ioq.pc = "destroy")
      /\ PN(o)'.again = (q.pc = "again") /\ PN(o).again = (ioq.pc = "again")
      /\ PN(o)'.packets = PN(o).packets + One(q.pc = "packet") - One(ioq.pc = "packet")
      /\ PN(o)'.closes = PN(o).closes
  BY <1>0, <1>2, <1>3, IoHand
<1>5. One(q.pc = "destroy") = 0 /\ One(q.pc = "packet") = 0
  BY <1>2 DEF One
<1>6. PN(o).packets \in Nat /\ One(ioq.pc = "packet") \in Nat
  BY <1>4 DEF PNum, One
<1>7. PN(o)'.packets = PN(o).packets - One(ioq.pc = "packet") /\ PN(o)'.ends = 0
  BY ONLY <1>4, <1>5, <1>6
<1>8. PN(o)'.again = (pc = "again")
  BY <1>2, <1>4
<1> QED
  BY <1>4, <1>7, <1>8

(* The callers stay. *)
LEMMA CallersStill ==
  ASSUME CoreInv, caller' = caller
  PROVE  CallersInv' /\ \A x \in Callers : SameCall(caller[x], caller'[x])
BY CallersSame DEF SameCall

(* A packet is passed over, or forgotten for lack of memory. *)
LEMMA IoForgetsCore ==
  ASSUME BaseInv, BaseInv', CoreInv, NEW o \in Ios, IoSkips(o) \/ IoLacksMemory(o), UNCHANGED waitVars,
         UNCHANGED timerVars
  PROVE  CoreInv'
<1>1. /\ ioq.pc = "packet" /\ ioq.key = o /\ IoGoto("get")
      /\ pools' = pools /\ group' = group /\ worker' = worker /\ caller' = caller
  BY DEF IoSkips, IoLacksMemory, HasPacket
<1>2. /\ o \in Objects /\ Type[o] = "io" /\ obj[o].life = "live" /\ obj[o].shutdown = FALSE
      /\ obj[o] \in ObjRec /\ obj[o].ops \in Nat /\ obj[o].skipped \in Nat
      /\ PN(o) \in PNum /\ PN(o).packets \in Nat /\ PN(o).packets <= obj[o].ops + obj[o].skipped
      /\ PN(o).ends = 0
  BY <1>1, PacketIs
<1>3. /\ IoShape' /\ KeyOK' /\ KeptPort(o) /\ PN(o)' \in PNum /\ PN(o)'.ends = 0
      /\ PN(o)'.closes = PN(o).closes
      /\ PN(o)'.packets = PN(o).packets - One(ioq.pc = "packet")
  BY <1>1, IoMoves
<1>4. One(ioq.pc = "packet") = 1
  BY <1>1 DEF One
<1>5. PICK e : /\ Plain(obj[o], e) /\ e.associated = obj[o].associated /\ e.ops >= 0 /\ e.skipped >= 0
               /\ e.ops + e.skipped = obj[o].ops + obj[o].skipped - 1 /\ obj' = [obj EXCEPT ![o] = e]
  <2>0. obj \in [Objects -> ObjRec]
    BY DEF BaseInv, Shape
  <2>1. CASE IoSkips(o)
    <3>1. obj[o].skipped > 1 /\ obj' = [obj EXCEPT ![o].skipped = @ - 1]
      BY <2>1 DEF IoSkips
    <3>2. PICK n \in Nat : n = obj[o].skipped - 1
      BY <1>2, <3>1
    <3>3. PICK e : e = [obj[o] EXCEPT !.skipped = n]
      OBVIOUS
    <3>4. Plain(obj[o], e) /\ e.associated = obj[o].associated /\ e.ops = obj[o].ops /\ e.skipped = n
      BY <1>2, <3>3, SkippedIs DEF Plain
    <3>5. obj' = [obj EXCEPT ![o] = e]
      BY <1>2, <2>0, <3>1, <3>2, <3>3
    <3>6. e.ops >= 0 /\ e.skipped >= 0 /\ e.ops + e.skipped = obj[o].ops + obj[o].skipped - 1
      BY <1>2, <3>2, <3>4
    <3> QED
      BY <3>4, <3>5, <3>6
  <2>2. CASE IoLacksMemory(o)
    <3>1. obj[o].ops > 0 /\ obj' = [obj EXCEPT ![o].ops = @ - 1]
      BY <2>2 DEF IoLacksMemory
    <3>2. PICK n \in Nat : n = obj[o].ops - 1
      BY <1>2, <3>1
    <3>3. PICK e : e = [obj[o] EXCEPT !.ops = n]
      OBVIOUS
    <3>4. Plain(obj[o], e) /\ e.associated = obj[o].associated /\ e.skipped = obj[o].skipped /\ e.ops = n
      BY <1>2, <3>3, OpsIs DEF Plain
    <3>5. obj' = [obj EXCEPT ![o] = e]
      BY <1>2, <2>0, <3>1, <3>2, <3>3
    <3>6. e.ops >= 0 /\ e.skipped >= 0 /\ e.ops + e.skipped = obj[o].ops + obj[o].skipped - 1
      BY <1>2, <3>2, <3>4
    <3> QED
      BY <3>4, <3>5, <3>6
  <2> QED
    BY <2>1, <2>2
<1>6. PN(o)'.packets <= e.ops + e.skipped
  BY <1>2, <1>3, <1>4, <1>5
<1>7. CallersInv' /\ \A x \in Callers : SameCall(caller[x], caller'[x])
  BY <1>1, CallersStill
<1>8. PN(o)'.ends = PN(o).ends
  BY <1>2, <1>3
<1> QED
  BY <1>1, <1>2, <1>3, <1>5, <1>6, <1>7, <1>8, OpsCore

(* The last packet: the object goes. *)
LEMMA IoReleasesCore ==
  ASSUME BaseInv, BaseInv', CoreInv, NEW o \in Ios, IoReleases(o), UNCHANGED waitVars, UNCHANGED timerVars
  PROVE  CoreInv'
<1>0. Shape /\ Shape' /\ ObjInv /\ IoShape /\ ListedOK /\ MembersOK /\ CallersInv /\ ioq \in IoqRec
  BY DEF BaseInv, CoreInv, IoShape, IoState
<1>1. /\ ioq.pc = "packet" /\ ioq.key = o /\ (obj[o].shutdown \/ io[o].shutting_down) /\ obj[o].ops = 0
      /\ obj[o].skipped <= 1 /\ port' = port /\ io' = io
      /\ pools' = pools /\ group' = group /\ worker' = worker /\ caller' = caller
      /\ obj' = [obj EXCEPT ![o] = [Closed(@, 1, @.owner) EXCEPT !.skipped = 0]]
      /\ ioq' = [ioq EXCEPT !.objcount = @ - 1, !.pc = IF obj[o].refcount = 1 THEN "destroy" ELSE "tail"]
  BY DEF IoReleases, HasPacket, Closing
<1>2. /\ o \in Objects /\ Type[o] = "io" /\ obj[o].life = "live" /\ obj[o].shutdown = FALSE
      /\ Typed(obj[o], WN(o), CN(o), HN(o), PN(o), InService(o))
      /\ ObjOK(o, obj[o], WN(o), CN(o), HN(o), PN(o), InService(o))
      /\ obj[o] \in ObjRec /\ obj[o].ops \in Nat /\ obj[o].skipped \in Nat
      /\ PN(o) \in PNum /\ PN(o).packets \in Nat
      /\ PN(o).ends = 0
  BY <1>1, PacketIs
<1>3. PICK q : q = [ioq EXCEPT !.objcount = @ - 1, !.pc = IF obj[o].refcount = 1 THEN "destroy" ELSE "tail"]
  OBVIOUS
<1>4. /\ q \in IoqRec /\ q.key = o /\ q.pc \in {"destroy", "tail"} /\ (q.pc = "destroy" <=> obj[o].refcount = 1)
  <2>1. PICK m \in Int : m = ioq.objcount - 1
    BY <1>0 DEF IoqRec
  <2>2. CASE obj[o].refcount = 1
    BY <1>0, <1>1, <1>3, <2>1, <2>2 DEF IoqRec
  <2>3. CASE obj[o].refcount # 1
    BY <1>0, <1>1, <1>3, <2>1, <2>3 DEF IoqRec
  <2> QED
    BY <2>2, <2>3
<1>5. /\ IoShape' /\ KeyOK' /\ KeptPort(o) /\ PN(o)' \in PNum
      /\ PN(o)'.ends = One(q.pc = "destroy")
      /\ PN(o)'.again = (q.pc = "again")
      /\ PN(o)'.packets = PN(o).packets + One(q.pc = "packet") - One(ioq.pc = "packet")
      /\ PN(o)'.closes = PN(o).closes
      /\ PN(o).closes = (io[o].shutting_down = TRUE)
      /\ ioq.pc = "packet" => PN(o).packets > 0
  <2>1. ioq' = q
    BY <1>1, <1>3
  <2> QED
    BY <1>0, <1>1, <1>4, <2>1, IoHand
<1>6. PICK n : n = PN(o)'
  OBVIOUS
<1>7. /\ n \in PNum /\ n.ends = PN(o).ends + One(obj[o].refcount = 1) /\ n.packets = PN(o).packets - 1
      /\ n.again = FALSE /\ n.closes = PN(o).closes
  <2>1. One(q.pc = "destroy") = One(obj[o].refcount = 1) /\ One(obj[o].refcount = 1) \in Nat
        /\ One(q.pc = "packet") = 0 /\ One(ioq.pc = "packet") = 1 /\ (q.pc = "again") = FALSE
    BY <1>1, <1>4 DEF One
  <2>2. n.packets = PN(o).packets - 1
    BY <1>2, <1>5, <1>6, <2>1
  <2>3. n.ends = PN(o).ends + One(obj[o].refcount = 1)
    BY <1>2, <1>5, <1>6, <2>1
  <2>4. n \in PNum /\ n.again = FALSE /\ n.closes = PN(o).closes
    BY <1>5, <1>6, <2>1
  <2> QED
    BY <2>2, <2>3, <2>4
<1>8. PN(o).packets > 0 /\ (obj[o].shutdown = TRUE \/ PN(o).closes = TRUE)
  <2>1. io[o].shutting_down \in BOOLEAN
    BY <1>0 DEF IoShape, IoState, IoRec
  <2> QED
    BY <1>1, <1>2, <1>5, <2>1
<1>9. PICK own \in {"none", "user", "group"} : own = obj[o].owner
  BY <1>2, TypedIs
<1>10. PICK c : c = Closed(obj[o], 1, own)
  OBVIOUS
<1>11. ReleasedIs(obj[o], c, 1, own)
  BY <1>2, <1>10, ReleaseIs
<1>12. c \in ObjRec
  BY <1>11 DEF ReleasedIs
<1>13. PICK e : e = [c EXCEPT !.skipped = 0]
  OBVIOUS
<1>14. /\ e \in ObjRec /\ e.life = c.life /\ e.refcount = c.refcount /\ e.owner = c.owner
       /\ e.shutdown = c.shutdown /\ e.grouped = c.grouped /\ e.member = c.member
       /\ e.pending = c.pending /\ e.running = c.running /\ e.associated = c.associated
       /\ e.signaled = c.signaled /\ e.ops = c.ops /\ e.skipped = 0
       /\ e.completions = c.completions /\ e.posts = c.posts
  BY <1>12, <1>13, SkippedIs
<1>15. IoReleasedTo(obj[o], e)
  BY <1>9, <1>11, <1>14 DEF ReleasedIs, IoReleasedTo
<1>16. obj'[o] = e /\ KeptObj(o)
  BY <1>0, <1>1, <1>2, <1>9, <1>10, <1>13 DEF Shape, KeptObj
<1>17. ObjOK(o, e, WN(o), CN(o), HN(o), n, InService(o))
  BY <1>1, <1>2, <1>7, <1>8, <1>15, IoReleasesOK
<1>18. /\ \A x : WN(x)' = WN(x)
       /\ CallersInv' /\ \A x : CN(x)' = CN(x)
  BY <1>1, WorkersSame, CallersSame
<1>19. \A x : HN(x)' = HN(x) /\ InService(x)' = InService(x)
  BY WaitsSame, TimersSame, HoldSame, ServiceKept
<1>20. ObjOK(o, obj'[o], WN(o)', CN(o)', HN(o)', PN(o)', InService(o)')
  BY <1>6, <1>16, <1>17, <1>18, <1>19
<1>21. Good(o)' /\ Kept(o)
  BY <1>5, <1>16, <1>18, <1>19, <1>20 DEF Good, Kept, KeptWork, KeptCall, KeptHold, KeptServ
<1>22. /\ \A x \in Objects : obj'[x].pending = obj[x].pending
       /\ \A x \in Objects : obj'[x].member = obj[x].member
  BY <1>15, <1>16 DEF KeptObj, IoReleasedTo
<1>23. ListedOK' /\ MembersOK'
  BY <1>0, <1>1, <1>22, ListedSame, MembersSame
<1> QED
  BY <1>5, <1>18, <1>21, <1>23, OneCore

(* It is destroyed. *)
LEMMA IoDestroysCore ==
  ASSUME BaseInv, BaseInv', CoreInv, NEW o \in Ios, IoDestroys(o), UNCHANGED waitVars, UNCHANGED timerVars
  PROVE  CoreInv'
<1>0. Shape /\ Shape' /\ ObjInv /\ IoShape /\ ListedOK /\ MembersOK /\ CallersInv
  BY DEF BaseInv, CoreInv
<1>1. /\ ioq.pc = "destroy" /\ ioq.key = o /\ tp_object_destroy(o) /\ IoGoto("tail")
      /\ worker' = worker /\ caller' = caller
  BY DEF IoDestroys
<1>2. o \in Objects
  BY KindsOfObjects
<1>3. /\ IoShape' /\ KeyOK' /\ KeptPort(o) /\ PN(o)' \in PNum /\ PN(o)'.ends = 0
      /\ PN(o)'.again = ("tail" = "again") /\ PN(o)'.closes = PN(o).closes
      /\ PN(o)'.packets = PN(o).packets - One(ioq.pc = "packet")
      /\ PN(o).ends = One(ioq.pc = "destroy") /\ PN(o).again = (ioq.pc = "again")
  BY <1>1, IoMoves
<1>4. /\ Typed(obj[o], WN(o), CN(o), HN(o), PN(o), InService(o))
      /\ ObjOK(o, obj[o], WN(o), CN(o), HN(o), PN(o), InService(o))
      /\ WN(o) \in WNum /\ CN(o) \in CNum /\ PN(o) \in PNum /\ HN(o) \in Nat
  BY <1>0, <1>2, GoodTyped
<1>5. PN(o).ends = 1 /\ One(ioq.pc = "packet") = 0 /\ PN(o).packets \in Nat
  BY <1>1, <1>3, <1>4 DEF One, PNum
<1>6. PICK n : n = PN(o)'
  OBVIOUS
<1>7. n \in PNum /\ n.ends = 0 /\ n.packets = PN(o).packets /\ n.again = PN(o).again /\ n.closes = PN(o).closes
  BY <1>1, <1>3, <1>5, <1>6
<1>8. /\ obj[o].life = "dying" /\ obj[o].pending = 0
      /\ obj[o].member = TRUE => obj[o].grouped = TRUE
  <2>1. WN(o).ends > 0 \/ CN(o).ends > 0 \/ PN(o).ends > 0
    BY <1>5
  <2> QED
    BY <1>0, <1>2, <2>1, DyingIs
<1>9. DestroyedTo(obj[o], obj'[o]) /\ KeptObj(o) /\ MembersOK' /\ ListedOK'
  BY <1>0, <1>1, <1>2, <1>8, DestroyEffect DEF KeptObj
<1>10. SameButEnds(WN(o), CN(o), PN(o), WN(o), CN(o), n)
  BY <1>4, <1>7 DEF SameButEnds
<1>11. Enders(WN(o), CN(o), HN(o), n) = Enders(WN(o), CN(o), HN(o), PN(o)) - 1
  <2>1. WN(o).ends \in Nat /\ CN(o).ends \in Nat /\ HN(o) \in Nat
    BY <1>4 DEF WNum, CNum
  <2> QED
    BY <1>5, <1>7, <2>1 DEF Enders
<1>12. ObjOK(o, obj'[o], WN(o), CN(o), HN(o), n, InService(o))
  BY <1>2, <1>4, <1>8, <1>9, <1>10, <1>11, DestroysOK
<1>13. /\ \A x : WN(x)' = WN(x)
       /\ CallersInv' /\ \A x : CN(x)' = CN(x)
  BY <1>1, WorkersSame, CallersSame
<1>14. \A x : HN(x)' = HN(x) /\ InService(x)' = InService(x)
  BY WaitsSame, TimersSame, HoldSame, ServiceKept
<1>15. ObjOK(o, obj'[o], WN(o)', CN(o)', HN(o)', PN(o)', InService(o)')
  BY <1>6, <1>12, <1>13, <1>14
<1>16. Good(o)' /\ Kept(o)
  BY <1>3, <1>9, <1>13, <1>14, <1>15 DEF Good, Kept, KeptWork, KeptCall, KeptHold, KeptServ
<1> QED
  BY <1>3, <1>9, <1>13, <1>16, OneCore

(* The record with which an I/O object is submitted. *)
LEMMA StoredIs ==
  ASSUME BaseInv, CoreInv, NEW o \in Ios, ioq.key = o, ioq.pc \in {"packet", "again"}, NEW n \in {0, 1},
         n <= obj[o].ops, NEW f, f = Stores(o, [obj[o] EXCEPT !.ops = @ - n])
  PROVE  Ready(obj[o], f) /\ f.completions = obj[o].completions + 1 /\ f.ops = obj[o].ops - n
         /\ f.skipped = obj[o].skipped
<1>1. /\ obj[o] \in ObjRec /\ obj[o].ops \in Nat /\ obj[o].skipped \in Nat /\ obj[o].completions \in Nat
      /\ obj[o].posts \in Nat /\ obj[o].signaled \in Nat
  BY PacketIs
<1>2. PICK m \in Int : m = obj[o].ops - n
  BY <1>1
<1>3. PICK e : e = [obj[o] EXCEPT !.ops = m]
  OBVIOUS
<1>4. /\ e \in ObjRec /\ e.life = obj[o].life /\ e.refcount = obj[o].refcount /\ e.owner = obj[o].owner
      /\ e.shutdown = obj[o].shutdown /\ e.grouped = obj[o].grouped /\ e.member = obj[o].member
      /\ e.pending = obj[o].pending /\ e.running = obj[o].running /\ e.associated = obj[o].associated
      /\ e.signaled = obj[o].signaled /\ e.ops = m /\ e.skipped = obj[o].skipped
      /\ e.completions = obj[o].completions /\ e.posts = obj[o].posts
  BY <1>1, <1>3, OpsIs
<1>5. f = Stores(o, e)
  BY <1>2, <1>3
<1>6. /\ f \in ObjRec /\ f.life = e.life /\ f.refcount = e.refcount /\ f.owner = e.owner
      /\ f.shutdown = e.shutdown /\ f.grouped = e.grouped /\ f.member = e.member
      /\ f.pending = e.pending /\ f.running = e.running /\ f.associated = e.associated
      /\ f.signaled = e.signaled /\ f.ops = e.ops /\ f.skipped = e.skipped
      /\ f.completions = e.completions + 1 /\ f.posts = e.posts
  BY <1>4, <1>5, StoresIs
<1>7. m \in 0..obj[o].ops
  BY <1>1, <1>2
<1> QED
  BY <1>1, <1>2, <1>4, <1>6, <1>7 DEF Ready

(* The I/O thread submits. *)
LEMMA IoSubmitCore ==
  ASSUME BaseInv, BaseInv', CoreInv, NEW o \in Ios, ioq.key = o, ioq.pc \in {"packet", "again"},
         NEW n \in {0, 1}, n <= obj[o].ops, n <= One(ioq.pc = "packet"), NEW f, f = Stores(o, [obj[o] EXCEPT !.ops = @ - n]),
         NEW p, tp_object_submit(o, f, p), NEW pc \in {"tail", "again"}, IoGoto(pc), group' = group,
         caller' = caller, UNCHANGED waitVars, UNCHANGED timerVars
  PROVE  CoreInv'
<1>1. /\ o \in Objects /\ Type[o] = "io" /\ obj[o].life = "live" /\ obj[o].shutdown = FALSE
      /\ obj[o].ops \in Nat /\ obj[o].skipped \in Nat
      /\ PN(o) \in PNum /\ PN(o).packets \in Nat /\ PN(o).packets <= obj[o].ops + obj[o].skipped
      /\ PN(o).ends = 0
  BY PacketIs
<1>2. Ready(obj[o], f) /\ f.completions = obj[o].completions + 1 /\ f.ops = obj[o].ops - n
      /\ f.skipped = obj[o].skipped
  BY StoredIs
<1>3. /\ IoShape' /\ KeyOK' /\ KeptPort(o) /\ PN(o)' \in PNum /\ PN(o)'.ends = 0
      /\ PN(o)'.closes = PN(o).closes
      /\ PN(o)'.packets = PN(o).packets - One(ioq.pc = "packet")
  BY IoMoves
<1>4. One(ioq.pc = "packet") \in {0, 1}
  BY DEF One
<1>5. PN(o)'.packets <= f.ops + f.skipped
  BY <1>1, <1>2, <1>3, <1>4
<1>6. CallersInv' /\ \A x : CN(x)' = CN(x)
  BY CallersSame
<1>7. CN(o) \in CNum
  BY <1>1, GoodTyped DEF BaseInv, CoreInv
<1>8. FewerSubs(CN(o), CN(o)') /\ KeptCall(o)
  <2>1. FewerSubs(CN(o), CN(o))
    BY <1>7 DEF FewerSubs, CNum
  <2> QED
    BY <1>6, <2>1 DEF KeptCall
<1>9. \A x : HN(x)' = HN(x) /\ InService(x)' = InService(x)
  BY WaitsSame, TimersSame, HoldSame, ServiceKept
<1>10. PN(o)'.ends = PN(o).ends
  BY <1>1, <1>3
<1> QED
  BY <1>1, <1>2, <1>3, <1>5, <1>6, <1>8, <1>9, <1>10, SubmitCore

(* The I/O thread. *)
LEMMA IoThreadCore ==
  ASSUME BaseInv, BaseInv', CoreInv, IoThread
  PROVE  CoreInv'
<1>0. UNCHANGED waitVars /\ UNCHANGED timerVars
  BY DEF IoThread, InIo
<1>1. CASE IoThreadStep /\ UNCHANGED poolVars
  BY <1>0, <1>1, IoThreadStepCore
<1>2. ASSUME NEW o \in Ios, IoSkips(o) \/ IoLacksMemory(o) PROVE CoreInv'
  BY <1>0, <1>2, IoForgetsCore
<1>3. ASSUME NEW o \in Ios, IoReleases(o) PROVE CoreInv'
  BY <1>0, <1>3, IoReleasesCore
<1>4. ASSUME NEW o \in Ios, IoDestroys(o) PROVE CoreInv'
  BY <1>0, <1>4, IoDestroysCore
<1>5. ASSUME NEW o \in Ios, IoSubmits(o) PROVE CoreInv'
  <2>1. /\ ioq.pc = "packet" /\ ioq.key = o /\ obj[o].ops > 0 /\ IoGoto("again") /\ group' = group
        /\ caller' = caller
        /\ tp_object_submit(o, Stores(o, [obj[o] EXCEPT !.ops = @ - 1]), [pool EXCEPT !.cs = "io"])
    BY <1>5 DEF IoSubmits, HasPacket
  <2>2. PICK f, p : f = Stores(o, [obj[o] EXCEPT !.ops = @ - 1]) /\ p = [pool EXCEPT !.cs = "io"]
    OBVIOUS
  <2>3. tp_object_submit(o, f, p)
    BY <2>1, <2>2
  <2>4. 1 <= obj[o].ops /\ 1 <= One(ioq.pc = "packet")
    <3>1. obj[o].ops \in Nat
      BY <1>5, <2>1, PacketIs
    <3> QED
      BY <2>1, <3>1 DEF One
  <2> QED
    BY <1>0, <1>5, <2>1, <2>2, <2>3, <2>4, IoSubmitCore
<1>6. ASSUME NEW o \in Ios, IoSubmitsAgain(o) PROVE CoreInv'
  <2>1. /\ ioq.pc \in {"packet", "again"} /\ ioq.key = o /\ IoGoto("tail") /\ group' = group
        /\ caller' = caller /\ tp_object_submit(o, Stores(o, obj[o]), [pool EXCEPT !.cs = Nil])
    BY <1>6 DEF IoSubmitsAgain, HasPacket
  <2>2. PICK f, p : f = Stores(o, obj[o]) /\ p = [pool EXCEPT !.cs = Nil]
    OBVIOUS
  <2>3. tp_object_submit(o, f, p)
    BY <2>1, <2>2
  <2>4. obj[o] \in ObjRec /\ obj[o].ops \in Nat
    BY <1>6, <2>1, PacketIs
  <2>5. obj[o] = [obj[o] EXCEPT !.ops = @ - 0]
    BY <2>4 DEF ObjRec
  <2>6. f = Stores(o, [obj[o] EXCEPT !.ops = @ - 0])
    BY <2>2, <2>5
  <2>7. 0 <= obj[o].ops /\ 0 <= One(ioq.pc = "packet")
    BY <2>4 DEF One
  <2> QED
    BY <1>0, <1>6, <2>1, <2>3, <2>6, <2>7, IoSubmitCore
<1> QED
  BY <1>1, <1>2, <1>3, <1>4, <1>5, <1>6 DEF IoThread, InIo

(* The service threads, the kernel and the clock. *)
LEMMA ServiceCore ==
  ASSUME BaseInv, BaseInv', CoreInv, ServiceMoves
  PROVE  CoreInv'
<1>1. CASE Tick
  <2>1. UNCHANGED poolVars /\ UNCHANGED waitVars /\ UNCHANGED ioVars /\ UNCHANGED timerVars
    BY <1>1 DEF Tick, queueVars
  <2> QED
    BY <2>1, WaitsSame, TimersSame, QueuesOnly
<1> QED
  BY <1>1, TimerThreadCore, IoThreadCore, WaitThreadCore, IoCompletesCore DEF ServiceMoves

(* Every step. *)
LEMMA CoreNext ==
  ASSUME BaseInv, BaseInv', CoreInv, program \in Programs, [Next]_vars
  PROVE  CoreInv'
<1>1. CASE UNCHANGED vars
  <2>1. UNCHANGED poolVars /\ UNCHANGED waitVars /\ UNCHANGED ioVars /\ UNCHANGED timerVars
    BY <1>1 DEF vars, queueVars
  <2> QED
    BY <2>1, WaitsSame, TimersSame, QueuesOnly
<1>2. CASE Next
  <2>1. program.callers \subseteq Callers /\ program.objects \subseteq Objects
    BY CallsOfPrograms
  <2>2. ASSUME NEW h \in Handles, Signal(h) PROVE CoreInv'
    <3>1. SetEvent(h) /\ UNCHANGED poolVars /\ UNCHANGED timerVars /\ UNCHANGED ioVars
      BY <2>2 DEF Signal
    <3>2. HeldKept /\ QueuedKept
      BY <3>1 DEF SetEvent, HeldKept, QueuedKept
    <3> QED
      BY <3>1, <3>2, TimersSame, QueuesOnly
  <2> QED
    BY <1>2, <2>1, <2>2, WorkerMovesCore, CallbackCallsCore, CallerMovesCore, PoolCallsCore, ObjectCallsCore,
       ServiceCore DEF Next
<1> QED
  BY <1>1, <1>2

(* An object before it is allocated. *)
LEMMA FreshOK ==
  ASSUME NEW o \in Objects, NEW w, w.run = 0, w.linked = 0, w.ends = 0, NEW c, c.sub = 0, c.join = 0,
         c.rel = 0, c.wait = 0, c.ends = 0, c.keep = 0, NEW p, p.ends = 0, p.packets = 0,
         p.again = FALSE, p.closes = FALSE
  PROVE  ObjOK(o, NoObject, w, c, 0, p, FALSE)
<1>1. /\ NoObject.life = "none" /\ NoObject.owner = "none" /\ NoObject.refcount = 0
      /\ NoObject.shutdown = FALSE /\ NoObject.grouped = FALSE /\ NoObject.member = FALSE
      /\ NoObject.pending = 0 /\ NoObject.running = 0 /\ NoObject.associated = 0
      /\ NoObject.signaled = 0 /\ NoObject.ops = 0 /\ NoObject.skipped = 0
      /\ NoObject.completions = 0 /\ NoObject.posts = 0
  BY DEF NoObject
<1>2. CountPart(o, NoObject, w, p)
  BY <1>1 DEF CountPart
<1>3. DeadPart(o, NoObject, w, c, 0, p) /\ LivePart(o, NoObject, w, c, 0, p)
  BY <1>1 DEF DeadPart, LivePart, Unused, Enders
<1>4. UsePart(o, NoObject, w, c, p, FALSE)
  BY <1>1 DEF UsePart, SimplePart, UserPart, GroupPart, IoPart
<1> QED
  BY <1>2, <1>3, <1>4 DEF ObjOK

(* The start. *)
LEMMA CoreInit ==
  ASSUME Init
  PROVE  CoreInv
<1>0. /\ pools = [p \in 1..3 |-> <<>>] /\ obj = [o \in Objects |-> NoObject]
      /\ group.members = <<>> /\ worker = [w \in Workers |-> NoWorker]
      /\ caller = [t \in Callers |-> Idle]
  BY DEF Init, PoolInit, tp_group_alloc
<1>1. /\ ioq.objcount = 0 /\ ioq.pc = "none" /\ ioq.key = NoKey /\ port = <<>> /\ ioq \in IoqRec
      /\ io = [o \in Ios |-> [shutting_down |-> FALSE, outstanding |-> 0, started |-> 0]]
  BY DEF Init, IoInit, IoqRec
<1>2. IoShape
  <2>1. <<>> \in Seq(Ios \cup {NoKey})
    OBVIOUS
  <2>2. io \in [Ios -> IoRec]
    BY <1>1 DEF IoRec
  <2> QED
    BY <1>1, <2>1, <2>2 DEF IoShape, IoState
<1>3. KeyOK
  BY <1>1 DEF KeyOK
<1>4. CallersInv
  BY <1>0, IdleIs DEF CallersInv
<1>5. NoObject.pending = 0 /\ NoObject.member = FALSE
  BY DEF NoObject
<1>6. ListedOK
  <2>1. \A p \in 1..3 : pools[p] = <<>>
    BY <1>0
  <2>2. \A o \in Objects : Priority[o] \in 1..3
    BY PoolConstants
  <2> QED
    BY <1>0, <1>5, <2>1, <2>2, NoList DEF ListedOK
<1>7. MembersOK
  BY <1>0, <1>5, NoList DEF MembersOK
<1>8. ASSUME NEW o \in Objects PROVE Good(o)
  <2>1. WN(o).run = 0 /\ WN(o).linked = 0 /\ WN(o).ends = 0
    <3>1. DOMAIN worker = Workers /\ IsFiniteSet(Workers) /\ \A w \in Workers : worker[w].pc = "none"
      BY <1>0, PoolConstants DEF NoWorker
    <3>2. \A w \in Workers : worker[w] \notin RunsOf(o) /\ worker[w] \notin LinksOf(o) /\ worker[w] \notin EndsOf(o)
      BY <3>1 DEF RunsOf, LinksOf, EndsOf
    <3>3. Cnt(worker, RunsOf(o)) = 0
      BY <3>1, <3>2, CntSome
    <3>4. Cnt(worker, LinksOf(o)) = 0
      BY <3>1, <3>2, CntSome
    <3>5. Cnt(worker, EndsOf(o)) = 0
      BY <3>1, <3>2, CntSome
    <3> QED
      BY <3>3, <3>4, <3>5 DEF WN
  <2>2. CN(o).sub = 0 /\ CN(o).join = 0 /\ CN(o).rel = 0 /\ CN(o).wait = 0 /\ CN(o).ends = 0 /\ CN(o).keep = 0
    <3>1. DOMAIN caller = Callers /\ IsFiniteSet(Callers) /\ \A t \in Callers : caller[t] = Idle
      BY <1>0, PoolConstants
    <3>2. Idle.pc = "idle" /\ o \notin Rng(Idle.list)
      BY IdleIs
    <3>3. /\ Idle \notin CallsAt(o, {"submit"}) /\ Idle \notin CallsAt(o, {"join"})
          /\ Idle \notin CallsAt(o, {"release"}) /\ Idle \notin CallsAt(o, {"wait", "sleep"})
          /\ Idle \notin CallsAt(o, {"destroy"}) /\ Idle \notin Keepers(o)
      BY <3>2 DEF CallsAt, Keepers
    <3>4. /\ Cnt(caller, CallsAt(o, {"submit"})) = 0 /\ Cnt(caller, CallsAt(o, {"join"})) = 0
          /\ Cnt(caller, CallsAt(o, {"release"})) = 0 /\ Cnt(caller, CallsAt(o, {"wait", "sleep"})) = 0
          /\ Cnt(caller, CallsAt(o, {"destroy"})) = 0 /\ Cnt(caller, Keepers(o)) = 0
      BY <3>1, <3>3, CntSome
    <3> QED
      BY <3>4 DEF CN
  <2>3. HN(o) = 0
    <3>1. \A b \in Buckets : Len(bucket[b].held) = 0
      BY DEF Init, WaitInit, NewBucket
    <3>2. HeldBy(o) = {}
      BY <3>1, WaitConstants DEF HeldBy
    <3> QED
      BY <3>2, FS_EmptySet DEF HN
  <2>4. PN(o).ends = 0 /\ PN(o).packets = 0 /\ PN(o).again = FALSE /\ PN(o).closes = FALSE
    <3>1. PacketFacts(ioq, port, io, o)
      BY <1>2, PacketsAre DEF IoShape
    <3>2. Cnt(port, {o}) = 0
      <4>1. DOMAIN port = {} /\ IsFiniteSet({})
        BY <1>1, FS_EmptySet
      <4> QED
        BY <4>1, CntSome
    <3>3. /\ One(ioq.pc = "packet" /\ ioq.key = o) = 0 /\ One(ioq.pc = "destroy" /\ ioq.key = o) = 0
          /\ (ioq.pc = "again" /\ ioq.key = o) = FALSE
      BY <1>1 DEF One
    <3>4. o \in Ios => io[o].outstanding = 0 /\ io[o].shutting_down = FALSE
      BY <1>1
    <3>5. PacketsOf(ioq, port, io, o) = 0
      BY <3>2, <3>3, <3>4 DEF PacketsOf
    <3>6. (o \in Ios /\ io[o].shutting_down = TRUE) = FALSE
      BY <3>4
    <3> QED
      BY <3>1, <3>3, <3>5, <3>6 DEF PacketFacts, PN
  <2>5. InService(o) = FALSE
    BY DEF Init, TimerInit, WaitInit, NoTimer, NoWait, InService
  <2>6. obj[o] = NoObject
    BY <1>0
  <2>7. PICK w, c, p : w = WN(o) /\ c = CN(o) /\ p = PN(o)
    OBVIOUS
  <2>8. ObjOK(o, NoObject, w, c, 0, p, FALSE)
    BY <2>1, <2>2, <2>4, <2>7, FreshOK
  <2> QED
    BY <2>3, <2>5, <2>6, <2>7, <2>8 DEF Good
<1> QED
  BY <1>2, <1>3, <1>4, <1>6, <1>7, <1>8 DEF CoreInv, ObjInv

(* It holds throughout. *)
LEMMA CoreAlways == Spec => [](BaseInv /\ CoreInv /\ program \in Programs)
<1>1. Init => BaseInv /\ CoreInv /\ program \in Programs
  BY BaseInit, CoreInit
<1>2. BaseInv /\ CoreInv /\ program \in Programs /\ [Next]_vars => (BaseInv /\ CoreInv /\ program \in Programs)'
  <2> SUFFICES ASSUME BaseInv, CoreInv, program \in Programs, [Next]_vars
               PROVE  (BaseInv /\ CoreInv /\ program \in Programs)'
    OBVIOUS
  <2>1. BaseInv' /\ program' = program
    BY NextOK
  <2> QED
    BY <2>1, CoreNext
<1> QED
  BY <1>1, <1>2, PTL DEF Spec

-----------------------------------------------------------------------------
(* What the counts of pool, group and I/O queue are made of: the worker     *)
(* threads that exist, that are not on their way out, and that run a        *)
(* callback; the objects that are allocated, that hang on the group, and    *)
(* the I/O objects that are not shut down.                                  *)

AllW == Cnt(worker, {r \in WorkerSet : r.pc # "none"})
StayW == Cnt(worker, {r \in WorkerSet : r.pc \notin {"none", "leave"}})
RunW == Cnt(worker, {r \in WorkerSet : r.pc = "callback"})
Queued == Len(pools[1]) + Len(pools[2]) + Len(pools[3])

Alive(ob) == ob.life \in {"live", "dying"}

(* A simple object that TpSimpleTryPost has not bound to its group yet. *)
Pend(o) == Type[o] = "simple" /\ (CN(o).sub > 0 \/ CN(o).join > 0)

Lives == {o \in Objects : Alive(obj[o])}
Bound == {o \in Objects : Alive(obj[o]) /\ obj[o].grouped = TRUE /\ ~Pend(o)}
Opens == {o \in Objects : o \in Ios /\ obj[o].life # "none" /\ obj[o].shutdown = FALSE}

PoolOK(p, n, a, b) ==
    /\ p.refcount = One(p.shutdown = FALSE) + n + a
    /\ p.objcount = n /\ p.num_workers = b
    /\ p.life = "gone" <=> p.refcount = 0
GroupOK(g, n) ==
    /\ g.refcount = One(g.shutdown = FALSE) + n
    /\ g.life = "gone" <=> g.refcount = 0

PoolBal == PoolOK(pool, Cardinality(Lives), AllW, StayW)
BusyBal == pool.num_busy_workers >= Queued + RunW
GroupBal ==
    /\ GroupOK(group, Cardinality(Bound))
    /\ group.shutdown = TRUE => \A o \in Objects : obj[o].grouped = TRUE => ~Pend(o)
    /\ \A o \in Objects : obj[o].life = "none" => obj[o].grouped = FALSE
IoBal == ioq.objcount = Cardinality(Opens)
CountInv == PoolBal /\ BusyBal /\ GroupBal /\ IoBal

-----------------------------------------------------------------------------
(* Workers. *)

(* The counts are numbers. *)
LEMMA WorkersAre ==
  ASSUME Shape
  PROVE  /\ AllW \in Nat /\ StayW \in Nat /\ RunW \in Nat
         /\ \A w \in Workers : /\ worker[w].pc # "none" => AllW > 0
                               /\ worker[w].pc \notin {"none", "leave"} => StayW > 0
         /\ AllW = 0 => \A w \in Workers : worker[w].pc = "none"
  <1>1. IsFiniteSet(Workers) /\ DOMAIN worker = Workers /\ \A w \in Workers : worker[w] \in WorkerSet
    BY PoolConstants DEF Shape
  <1>2. AllW \in Nat /\ (AllW = 0 <=> \A x \in Workers : worker[x] \notin {r \in WorkerSet : r.pc # "none"})
    BY ONLY <1>1, CntSome DEF AllW
  <1>3. StayW \in Nat
         /\ (StayW = 0 <=> \A x \in Workers : worker[x] \notin {r \in WorkerSet : r.pc \notin {"none", "leave"}})
    BY ONLY <1>1, CntSome DEF StayW
  <1>4. RunW \in Nat
    BY ONLY <1>1, CntSome DEF RunW
  <1> QED BY ONLY <1>1, <1>2, <1>3, <1>4

(* One worker goes on. *)
LEMMA OneWorker ==
  ASSUME Shape, Shape', NEW w \in Workers, \A x \in Workers \ {w} : worker'[x].pc = worker[x].pc
  PROVE  /\ AllW' = AllW + One(worker'[w].pc # "none") - One(worker[w].pc # "none")
         /\ StayW' = StayW + One(worker'[w].pc \notin {"none", "leave"})
                           - One(worker[w].pc \notin {"none", "leave"})
         /\ RunW' = RunW + One(worker'[w].pc = "callback") - One(worker[w].pc = "callback")
  <1>1. IsFiniteSet(Workers) /\ DOMAIN worker = Workers /\ DOMAIN worker' = Workers
        /\ (\A x \in Workers : worker[x] \in WorkerSet) /\ \A x \in Workers : worker'[x] \in WorkerSet
    BY PoolConstants DEF Shape
  <1>2. PICK A : A = {r \in WorkerSet : r.pc # "none"}
    OBVIOUS
  <1>3. PICK B : B = {r \in WorkerSet : r.pc \notin {"none", "leave"}}
    OBVIOUS
  <1>4. PICK C : C = {r \in WorkerSet : r.pc = "callback"}
    OBVIOUS
  <1>5. \A x \in Workers : /\ worker[x] \in A <=> worker[x].pc # "none"
                           /\ worker'[x] \in A <=> worker'[x].pc # "none"
                           /\ worker[x] \in B <=> worker[x].pc \notin {"none", "leave"}
                           /\ worker'[x] \in B <=> worker'[x].pc \notin {"none", "leave"}
                           /\ worker[x] \in C <=> worker[x].pc = "callback"
                           /\ worker'[x] \in C <=> worker'[x].pc = "callback"
    BY ONLY <1>1, <1>2, <1>3, <1>4
  <1>6. PICK f, g : f = worker /\ g = worker'
    OBVIOUS
  <1>7. Cnt(g, A) = Cnt(f, A) + One(g[w] \in A) - One(f[w] \in A)
    BY ONLY CntStep, <1>1, <1>5, <1>6, w \in Workers, \A x \in Workers \ {w} : worker'[x].pc = worker[x].pc
  <1>8. Cnt(g, B) = Cnt(f, B) + One(g[w] \in B) - One(f[w] \in B)
    BY ONLY CntStep, <1>1, <1>5, <1>6, w \in Workers, \A x \in Workers \ {w} : worker'[x].pc = worker[x].pc
  <1>9. Cnt(g, C) = Cnt(f, C) + One(g[w] \in C) - One(f[w] \in C)
    BY ONLY CntStep, <1>1, <1>5, <1>6, w \in Workers, \A x \in Workers \ {w} : worker'[x].pc = worker[x].pc
  <1>10. AllW = Cnt(f, A) /\ AllW' = Cnt(g, A) /\ StayW = Cnt(f, B) /\ StayW' = Cnt(g, B)
         /\ RunW = Cnt(f, C) /\ RunW' = Cnt(g, C)
    BY ONLY <1>2, <1>3, <1>4, <1>6 DEF AllW, StayW, RunW
  <1> QED BY ONLY <1>5, <1>6, <1>7, <1>8, <1>9, <1>10, w \in Workers DEF One

(* Workers that the counts do not see move. *)
SamePc(r, s) ==
    /\ s.pc = "none" <=> r.pc = "none"
    /\ s.pc = "leave" <=> r.pc = "leave"
    /\ s.pc = "callback" <=> r.pc = "callback"
WorkKept == AllW' = AllW /\ StayW' = StayW /\ RunW' = RunW

(* They do not. *)
LEMMA StillWorkers ==
  ASSUME Shape, Shape', \A x \in Workers : SamePc(worker[x], worker'[x])
  PROVE  WorkKept
  <1>1. DOMAIN worker = Workers /\ DOMAIN worker' = Workers
        /\ (\A x \in Workers : worker[x] \in WorkerSet) /\ \A x \in Workers : worker'[x] \in WorkerSet
    BY DEF Shape
  <1>2. PICK A : A = {r \in WorkerSet : r.pc # "none"}
    OBVIOUS
  <1>3. PICK B : B = {r \in WorkerSet : r.pc \notin {"none", "leave"}}
    OBVIOUS
  <1>4. PICK C : C = {r \in WorkerSet : r.pc = "callback"}
    OBVIOUS
  <1>6. PICK f, g : f = worker /\ g = worker'
    OBVIOUS
  <1>5. \A x \in Workers : /\ f[x] \in A <=> g[x] \in A
                           /\ f[x] \in B <=> g[x] \in B
                           /\ f[x] \in C <=> g[x] \in C
    BY ONLY <1>1, <1>2, <1>3, <1>4, <1>6, \A x \in Workers : SamePc(worker[x], worker'[x]) DEF SamePc
  <1>7. Cnt(g, A) = Cnt(f, A)
    BY ONLY CntSame, <1>1, <1>5, <1>6
  <1>8. Cnt(g, B) = Cnt(f, B)
    BY ONLY CntSame, <1>1, <1>5, <1>6
  <1>9. Cnt(g, C) = Cnt(f, C)
    BY ONLY CntSame, <1>1, <1>5, <1>6
  <1>10. AllW = Cnt(f, A) /\ AllW' = Cnt(g, A) /\ StayW = Cnt(f, B) /\ StayW' = Cnt(g, B)
         /\ RunW = Cnt(f, C) /\ RunW' = Cnt(g, C)
    BY ONLY <1>2, <1>3, <1>4, <1>6 DEF AllW, StayW, RunW
  <1> QED BY ONLY <1>7, <1>8, <1>9, <1>10 DEF WorkKept

(* A worker is started. *)
WorkMore == AllW' = AllW + 1 /\ StayW' = StayW + 1 /\ RunW' = RunW

(* tp_new_worker_thread *)
LEMMA NewWorkerCounts ==
  ASSUME Shape, Shape', NEW p \in PoolRec, tp_new_worker_thread(p)
  PROVE  /\ WorkMore /\ AllW \in Nat /\ StayW \in Nat /\ RunW \in Nat
         /\ pool' = [p EXCEPT !.refcount = @ + 1, !.num_workers = @ + 1]
  <1>1. PICK n : n = NewWorker
    OBVIOUS
  <1>2. n \in Workers /\ worker[n].pc = "none" /\ worker' = [worker EXCEPT ![n] = [NoWorker EXCEPT !.pc = "run"]]
    BY NewWorkerShape, <1>1 DEF tp_new_worker_thread, Spare
  <1>3. worker'[n].pc = "run" /\ \A x \in Workers \ {n} : worker'[x].pc = worker[x].pc
    BY <1>2 DEF Shape, NoWorker
  <1>4. /\ AllW' = AllW + One(worker'[n].pc # "none") - One(worker[n].pc # "none")
         /\ StayW' = StayW + One(worker'[n].pc \notin {"none", "leave"})
                           - One(worker[n].pc \notin {"none", "leave"})
         /\ RunW' = RunW + One(worker'[n].pc = "callback") - One(worker[n].pc = "callback")
    BY OneWorker, <1>2, <1>3
  <1>5. AllW \in Nat /\ StayW \in Nat /\ RunW \in Nat
    BY WorkersAre
  <1>6. WorkMore
    BY ONLY <1>2, <1>3, <1>4, <1>5 DEF One, WorkMore
  <1> QED BY <1>5, <1>6 DEF tp_new_worker_thread

(* RtlWakeConditionVariable *)
LEMMA WakeCounts ==
  ASSUME Shape, Shape', RtlWakeConditionVariable
  PROVE  WorkKept
  <1>1. \A x \in Workers : SamePc(worker[x], worker'[x])
    <2>1. CASE worker' = worker
      BY <2>1 DEF SamePc
    <2>2. CASE worker' # worker
      <3>1. PICK w \in Sleepers : worker' = [worker EXCEPT ![w].pc = "run"]
        BY <2>2 DEF RtlWakeConditionVariable
      <3>2. w \in Workers /\ worker[w].pc = "asleep" /\ worker[w] \in WorkerSet
        BY <3>1 DEF Sleepers, Shape
      <3>3. worker'[w].pc = "run" /\ \A x \in Workers \ {w} : worker'[x] = worker[x]
        BY <3>1, <3>2 DEF Shape, WorkerSet, WorkerRec
      <3> QED BY <3>2, <3>3 DEF SamePc
    <2> QED BY <2>1, <2>2
  <1> QED BY <1>1, StillWorkers

-----------------------------------------------------------------------------
(* Marks of the objects. *)

(* ob becomes e, and the counts do not see it. *)
Alike(o, ob, e) ==
    /\ Alive(e) <=> Alive(ob)
    /\ e.life = "none" <=> ob.life = "none"
    /\ e.grouped = ob.grouped
    /\ Type[o] = "io" => e.shutdown = ob.shutdown
ObjAlike == \A x \in Objects : Alike(x, obj[x], obj'[x])
PendKept == \A x \in Objects : Pend(x)' <=> Pend(x)
MarksStay == Lives' = Lives /\ Bound' = Bound /\ Opens' = Opens

(* Nothing that is counted changes. *)
LEMMA MarksSame ==
  ASSUME ObjAlike, PendKept
  PROVE  MarksStay
  <1>1. Lives' = Lives
    BY DEF ObjAlike, Alike, Lives
  <1>2. Bound' = Bound
    BY DEF ObjAlike, Alike, Bound, PendKept
  <1>3. Opens' = Opens
    BY KindsOfObjects DEF ObjAlike, Alike, Opens
  <1> QED BY <1>1, <1>2, <1>3 DEF MarksStay

(* The sets are finite. *)
LEMMA MarksAre ==
  /\ IsFiniteSet(Lives) /\ IsFiniteSet(Bound) /\ IsFiniteSet(Opens)
  /\ Cardinality(Lives) \in Nat /\ Cardinality(Bound) \in Nat /\ Cardinality(Opens) \in Nat
  /\ \A o \in Objects : /\ Alive(obj[o]) => Cardinality(Lives) > 0
                        /\ o \in Bound => Cardinality(Bound) > 0
                        /\ o \in Opens => Cardinality(Opens) > 0
  /\ Cardinality(Lives) = 0 => \A o \in Objects : ~Alive(obj[o])
  /\ Cardinality(Bound) = 0 => Bound = {}
  <1>1. IsFiniteSet(Objects) /\ Lives \subseteq Objects /\ Bound \subseteq Objects /\ Opens \subseteq Objects
    BY PoolConstants DEF Lives, Bound, Opens
  <1>2. IsFiniteSet(Lives) /\ IsFiniteSet(Bound) /\ IsFiniteSet(Opens)
    BY <1>1, FS_Subset
  <1>3. Cardinality(Lives) \in Nat /\ Cardinality(Bound) \in Nat /\ Cardinality(Opens) \in Nat
    BY <1>2, FS_CardinalityType
  <1>4. (Cardinality(Lives) = 0 <=> Lives = {}) /\ (Cardinality(Bound) = 0 <=> Bound = {})
        /\ (Cardinality(Opens) = 0 <=> Opens = {})
    BY <1>2, FS_EmptySet
  <1>5. \A o \in Objects : Alive(obj[o]) => o \in Lives
    BY DEF Lives
  <1>6. \A o \in Objects : /\ Alive(obj[o]) => Cardinality(Lives) > 0
                           /\ o \in Bound => Cardinality(Bound) > 0
                           /\ o \in Opens => Cardinality(Opens) > 0
    BY ONLY <1>3, <1>4, <1>5
  <1>7. Cardinality(Lives) = 0 => \A o \in Objects : ~Alive(obj[o])
    BY ONLY <1>4, <1>5
  <1> QED BY ONLY <1>2, <1>3, <1>4, <1>6, <1>7

(* They change by one object. *)
LivesStep(o) == Cardinality(Lives)' = Cardinality(Lives) + One(o \in Lives') - One(o \in Lives)
BoundStep(o) == Cardinality(Bound)' = Cardinality(Bound) + One(o \in Bound') - One(o \in Bound)
OpensStep(o) == Cardinality(Opens)' = Cardinality(Opens) + One(o \in Opens') - One(o \in Opens)

(* They do if the others stay. *)
LEMMA MarksStep ==
  ASSUME NEW o \in Objects, \A x \in Objects \ {o} : Alike(x, obj[x], obj'[x]),
         \A x \in Objects \ {o} : Pend(x)' <=> Pend(x)
  PROVE  LivesStep(o) /\ BoundStep(o) /\ OpensStep(o)
  <1>1. Lives \ {o} = Lives' \ {o}
    BY DEF Alike, Lives
  <1>2. Bound \ {o} = Bound' \ {o}
    BY DEF Alike, Bound
  <1>3. Opens \ {o} = Opens' \ {o}
    BY KindsOfObjects DEF Alike, Opens
  <1>4. IsFiniteSet(Lives) /\ IsFiniteSet(Bound) /\ IsFiniteSet(Opens)
    BY MarksAre
  <1>5. Cardinality(Lives') = Cardinality(Lives) + One(o \in Lives') - One(o \in Lives)
    BY ONLY <1>1, <1>4, SetStep
  <1>6. Cardinality(Bound') = Cardinality(Bound) + One(o \in Bound') - One(o \in Bound)
    BY ONLY <1>2, <1>4, SetStep
  <1>7. Cardinality(Opens') = Cardinality(Opens) + One(o \in Opens') - One(o \in Opens)
    BY ONLY <1>3, <1>4, SetStep
  <1> QED BY <1>5, <1>6, <1>7 DEF LivesStep, BoundStep, OpensStep

-----------------------------------------------------------------------------
(* Callers. *)

(* A caller is, or is not, about to submit or to join. *)
SameSubs(c, d) ==
    c.pc \in {"submit", "join"} \/ d.pc \in {"submit", "join"} => d.pc = c.pc /\ d.obj = c.obj

(* Then the same objects are. *)
LEMMA SubsSame ==
  ASSUME Shape, Shape', \A x \in Callers : SameSubs(caller[x], caller'[x])
  PROVE  PendKept
  <1>1. DOMAIN caller = Callers /\ DOMAIN caller' = Callers
        /\ (\A x \in Callers : caller[x] \in CallerSet) /\ \A x \in Callers : caller'[x] \in CallerSet
    BY DEF Shape
  <1> SUFFICES ASSUME NEW o \in Objects
               PROVE  Pend(o)' <=> Pend(o)
    BY DEF PendKept
  <1>2. PICK A : A = CallsAt(o, {"submit"})
    OBVIOUS
  <1>3. PICK B : B = CallsAt(o, {"join"})
    OBVIOUS
  <1>4. PICK f, g : f = caller /\ g = caller'
    OBVIOUS
  <1>5. \A x \in Callers : (f[x] \in A <=> g[x] \in A) /\ (f[x] \in B <=> g[x] \in B)
    BY ONLY <1>1, <1>2, <1>3, <1>4, \A x \in Callers : SameSubs(caller[x], caller'[x]) DEF SameSubs, CallsAt
  <1>6. Cnt(g, A) = Cnt(f, A)
    BY ONLY CntSame, <1>1, <1>4, <1>5
  <1>7. Cnt(g, B) = Cnt(f, B)
    BY ONLY CntSame, <1>1, <1>4, <1>5
  <1>8. CN(o).sub = Cnt(f, A) /\ CN(o)'.sub = Cnt(g, A) /\ CN(o).join = Cnt(f, B) /\ CN(o)'.join = Cnt(g, B)
    BY <1>2, <1>3, <1>4 DEF CN
  <1> QED BY <1>6, <1>7, <1>8 DEF Pend

(* One caller goes on, outside of that. *)
LEMMA SubsOne ==
  ASSUME Shape, Shape', NEW t \in Callers, \A x \in Callers \ {t} : caller'[x] = caller[x],
         caller[t].pc \notin {"submit", "join"}, caller'[t].pc \notin {"submit", "join"}
  PROVE  PendKept
  <1>1. \A x \in Callers : SameSubs(caller[x], caller'[x])
    BY DEF SameSubs
  <1> QED BY <1>1, SubsSame

(* Callers stay, or are woken. *)
LEMMA SubsWoken ==
  ASSUME Shape, Shape',
         \/ caller' = caller
         \/ \E o, ob : \E events \in SUBSET {"sleep", "gsleep"} : WakeWaiters(o, ob, events)
  PROVE  PendKept
  <1>1. CASE caller' = caller
    BY <1>1, SubsSame DEF SameSubs
  <1>2. CASE \E o, ob : \E events \in SUBSET {"sleep", "gsleep"} : WakeWaiters(o, ob, events)
    <2>1. PICK o, ob : \E events \in SUBSET {"sleep", "gsleep"} : WakeWaiters(o, ob, events)
      BY <1>2
    <2>2. PICK events \in SUBSET {"sleep", "gsleep"} : WakeWaiters(o, ob, events)
      BY <2>1
    <2>3. ASSUME NEW x \in Callers
          PROVE  SameSubs(caller[x], caller'[x])
      <3>1. caller[x] \in CallerSet
        BY DEF Shape
      <3>2. \/ caller'[x] = caller[x]
            \/ /\ caller[x].pc \in events
               /\ caller'[x] = [caller[x] EXCEPT !.pc = IF @ = "gsleep" THEN "gwait" ELSE "wait"]
        BY <2>2 DEF WakeWaiters
      <3>3. CASE caller'[x] = caller[x]
        BY <3>3 DEF SameSubs
      <3>4. CASE /\ caller[x].pc \in events
               /\ caller'[x] = [caller[x] EXCEPT !.pc = IF @ = "gsleep" THEN "gwait" ELSE "wait"]
        <4>1. caller'[x].pc \in {"gwait", "wait"} /\ caller[x].pc \in {"sleep", "gsleep"}
          BY <3>1, <3>4 DEF CallerSet, CallerRec
        <4> QED BY <4>1 DEF SameSubs
      <3> QED BY <3>2, <3>3, <3>4
    <2> QED BY <2>3, SubsSame
  <1> QED BY <1>1, <1>2

-----------------------------------------------------------------------------
(* How the balances are kept. *)

SamePool(p, q) ==
    /\ q.refcount = p.refcount /\ q.objcount = p.objcount /\ q.shutdown = p.shutdown
    /\ q.num_workers = p.num_workers /\ q.life = p.life
SameGroup(g, h) == h.refcount = g.refcount /\ h.shutdown = g.shutdown /\ h.life = g.life

(* The pool's. *)
LEMMA PoolStays ==
  ASSUME PoolBal, Lives' = Lives, AllW' = AllW, StayW' = StayW, SamePool(pool, pool')
  PROVE  PoolBal'
  BY DEF PoolBal, PoolOK, SamePool

(* It is so when a worker is started: somebody refers to the pool. *)
LEMMA PoolGrows ==
  ASSUME PoolBal, Shape, Lives' = Lives, WorkMore, pool.refcount > 0, pool'.refcount = pool.refcount + 1,
         pool'.num_workers = pool.num_workers + 1, pool'.objcount = pool.objcount,
         pool'.shutdown = pool.shutdown, pool'.life = pool.life
  PROVE  PoolBal'
  <1>1. AllW \in Nat /\ StayW \in Nat /\ Cardinality(Lives) \in Nat /\ pool.refcount \in Int
        /\ One(pool.shutdown = FALSE) \in Nat
    BY WorkersAre, MarksAre DEF Shape, PoolRec, One
  <1>2. PICK n : n = Cardinality(Lives) /\ n = Cardinality(Lives)'
    OBVIOUS
  <1>3. PICK k : k = One(pool.shutdown = FALSE) /\ k = One(pool'.shutdown = FALSE)
    OBVIOUS
  <1>4. PoolOK(pool, n, AllW, StayW)
    BY <1>2 DEF PoolBal
  <1>5. PoolOK(pool', n, AllW', StayW')
    BY <1>1, <1>2, <1>3, <1>4 DEF PoolOK, WorkMore
  <1> QED BY <1>2, <1>5 DEF PoolBal

(* The references to the pool are counted. *)
LEMMA PoolAlive ==
  ASSUME PoolBal, Shape
  PROVE  /\ pool.refcount \in Nat /\ pool.objcount \in Nat /\ pool.num_workers \in Nat
         /\ pool.shutdown = FALSE => pool.refcount > 0
         /\ (\E o \in Objects : Alive(obj[o])) => pool.refcount > 0 /\ pool.objcount > 0
         /\ (\E w \in Workers : worker[w].pc # "none") => pool.refcount > 0
         /\ pool.life = "gone" <=> pool.refcount = 0
  <1>1. AllW \in Nat /\ StayW \in Nat /\ Cardinality(Lives) \in Nat /\ pool.refcount \in Int
        /\ One(pool.shutdown = FALSE) \in Nat /\ (pool.shutdown = FALSE => One(pool.shutdown = FALSE) = 1)
        /\ ((\E o \in Objects : Alive(obj[o])) => Cardinality(Lives) > 0)
        /\ ((\E w \in Workers : worker[w].pc # "none") => AllW > 0)
    BY WorkersAre, MarksAre DEF Shape, PoolRec, One
  <1>2. /\ pool.refcount = One(pool.shutdown = FALSE) + Cardinality(Lives) + AllW
        /\ pool.objcount = Cardinality(Lives) /\ pool.num_workers = StayW
        /\ pool.life = "gone" <=> pool.refcount = 0
    BY DEF PoolBal, PoolOK
  <1> QED BY ONLY <1>1, <1>2

(* The group's. *)
LEMMA GroupStays ==
  ASSUME GroupBal, ObjAlike, PendKept, SameGroup(group, group')
  PROVE  GroupBal'
  <1>1. Cardinality(Bound)' = Cardinality(Bound)
    BY MarksSame DEF MarksStay
  <1>2. GroupOK(group', Cardinality(Bound)')
    BY <1>1 DEF GroupBal, GroupOK, SameGroup
  <1>3. group'.shutdown = TRUE => \A o \in Objects : obj'[o].grouped = TRUE => ~Pend(o)'
    BY DEF GroupBal, SameGroup, ObjAlike, Alike, PendKept
  <1>4. \A o \in Objects : obj'[o].life = "none" => obj'[o].grouped = FALSE
    BY DEF GroupBal, ObjAlike, Alike
  <1> QED BY <1>2, <1>3, <1>4 DEF GroupBal

(* The I/O queue's. *)
LEMMA IoStays ==
  ASSUME IoBal, ObjAlike, PendKept, ioq'.objcount = ioq.objcount
  PROVE  IoBal'
  BY MarksSame DEF MarksStay, IoBal

(* The queued items. *)
Places(f) == Len(f[1]) + Len(f[2]) + Len(f[3])

(* They are a number. *)
LEMMA PlacesAre ==
  ASSUME NEW f \in PoolLists
  PROVE  /\ Len(f[1]) \in Nat /\ Len(f[2]) \in Nat /\ Len(f[3]) \in Nat /\ Places(f) \in Nat
         /\ \A q \in 1..3 : f[q] \in Seq(Objects) /\ Len(f[q]) \in Nat
  <1>1. f[1] \in Seq(Objects) /\ f[2] \in Seq(Objects) /\ f[3] \in Seq(Objects)
        /\ \A q \in 1..3 : f[q] \in Seq(Objects)
    BY DEF PoolLists
  <1>2. Len(f[1]) \in Nat /\ Len(f[2]) \in Nat /\ Len(f[3]) \in Nat /\ \A q \in 1..3 : Len(f[q]) \in Nat
    BY <1>1, LenProperties
  <1>3. PICK a \in Nat, b \in Nat, c \in Nat : Len(f[1]) = a /\ Len(f[2]) = b /\ Len(f[3]) = c
    BY <1>2
  <1>4. Places(f) = a + b + c
    BY <1>3 DEF Places
  <1>5. a + b + c \in Nat
    OBVIOUS
  <1> QED BY <1>1, <1>2, <1>4, <1>5

(* One list changes. *)
LEMMA LenStep ==
  ASSUME NEW f \in PoolLists, NEW q \in 1..3, NEW s \in Seq(Objects), NEW g, g = [f EXCEPT ![q] = s]
  PROVE  /\ Places(f) \in Nat /\ Len(s) \in Nat /\ Len(f[q]) \in Nat
         /\ Places(g) = Places(f) + Len(s) - Len(f[q])
  <1>1. DOMAIN f = 1..3
    BY DEF PoolLists
  <1>2. Len(f[1]) \in Nat /\ Len(f[2]) \in Nat /\ Len(f[3]) \in Nat /\ Len(s) \in Nat /\ Len(f[q]) \in Nat
        /\ Places(f) \in Nat
    BY PlacesAre, LenProperties
  <1>3. g[q] = s /\ \A p \in 1..3 : p # q => g[p] = f[p]
    BY <1>1
  <1>4. PICK a \in Nat, b \in Nat, c \in Nat, k \in Nat :
          Len(f[1]) = a /\ Len(f[2]) = b /\ Len(f[3]) = c /\ Len(s) = k /\ Places(f) = a + b + c
    BY <1>2 DEF Places
  <1>5. CASE q = 1
    <2>1. g[1] = s /\ g[2] = f[2] /\ g[3] = f[3]
      BY <1>3, <1>5
    <2>2. Places(g) = k + b + c /\ Len(f[q]) = a
      BY <1>4, <1>5, <2>1 DEF Places
    <2> QED BY ONLY <1>2, <1>4, <2>2, a \in Nat, b \in Nat, c \in Nat, k \in Nat
  <1>6. CASE q = 2
    <2>1. g[1] = f[1] /\ g[2] = s /\ g[3] = f[3]
      BY <1>3, <1>6
    <2>2. Places(g) = a + k + c /\ Len(f[q]) = b
      BY <1>4, <1>6, <2>1 DEF Places
    <2> QED BY ONLY <1>2, <1>4, <2>2, a \in Nat, b \in Nat, c \in Nat, k \in Nat
  <1>7. CASE q = 3
    <2>1. g[1] = f[1] /\ g[2] = f[2] /\ g[3] = s
      BY <1>3, <1>7
    <2>2. Places(g) = a + b + k /\ Len(f[q]) = c
      BY <1>4, <1>7, <2>1 DEF Places
    <2> QED BY ONLY <1>2, <1>4, <2>2, a \in Nat, b \in Nat, c \in Nat, k \in Nat
  <1> QED BY <1>5, <1>6, <1>7

(* The queued items are a number. *)
LEMMA QueuedIs ==
  ASSUME Shape, Shape'
  PROVE  Queued \in Nat /\ Queued' \in Nat /\ Queued = Places(pools) /\ Queued' = Places(pools')
  BY PlacesAre DEF Shape, Queued, Places

(* A step that no balance sees. *)
LEMMA QuietCounts ==
  ASSUME CountInv, Shape, Shape', ObjAlike, PendKept, WorkKept, SamePool(pool, pool'), SameGroup(group, group'),
         pool'.num_busy_workers = pool.num_busy_workers, Queued' <= Queued, ioq'.objcount = ioq.objcount
  PROVE  CountInv'
  <1>1. PoolBal'
    BY PoolStays, MarksSame DEF MarksStay, WorkKept, CountInv
  <1>2. GroupBal' /\ IoBal'
    BY GroupStays, IoStays DEF CountInv
  <1>3. BusyBal'
    <2>1. Queued \in Nat /\ Queued' \in Nat /\ RunW \in Nat /\ RunW' = RunW /\ pool.num_busy_workers \in Int
          /\ pool.num_busy_workers >= Queued + RunW
      BY WorkersAre, QueuedIs DEF WorkKept, CountInv, BusyBal, Shape, PoolRec
    <2> QED BY <2>1 DEF BusyBal
  <1> QED BY <1>1, <1>2, <1>3 DEF CountInv

(* The allocated objects stay. *)
LEMMA LivesSame ==
  ASSUME ObjAlike
  PROVE  Lives' = Lives
  BY DEF ObjAlike, Alike, Lives

(* One object changes, and the counts do not see it. *)
LEMMA OneAlike ==
  ASSUME NEW o, KeptObj(o), o \in Objects => Alike(o, obj[o], obj'[o])
  PROVE  ObjAlike
  BY DEF KeptObj, ObjAlike, Alike

(* An item that is queued counts. *)
LEMMA PrioQueueIs ==
  ASSUME NEW p \in PoolRec, NEW first \in BOOLEAN, NEW q, q = tp_object_prio_queue(p, first)
  PROVE  q \in PoolRec /\ SamePool(p, q) /\ q.num_busy_workers = p.num_busy_workers + One(first)
  <1>1. CASE first = TRUE
    BY <1>1 DEF tp_object_prio_queue, PoolRec, SamePool, One
  <1>2. CASE first = FALSE
    BY <1>2 DEF tp_object_prio_queue, PoolRec, SamePool, One
  <1> QED BY <1>1, <1>2

(* The record with which an object is submitted looks the same. *)
Submittable(o, ob, p) ==
    /\ obj[o].life = "live" /\ ob \in ObjRec /\ ob.life = "live" /\ ob.grouped = obj[o].grouped
    /\ ob.shutdown = obj[o].shutdown
    /\ p \in PoolRec /\ SamePool(pool, p) /\ p.num_busy_workers = pool.num_busy_workers

(* The item of a submission counts, and so does the worker it may start. *)
LEMMA SubmitCounts ==
  ASSUME CountInv, Shape, Shape', NEW o \in Objects, NEW ob, NEW p, Submittable(o, ob, p),
         tp_object_submit(o, ob, p)
  PROVE  ObjAlike /\ PoolBal' /\ BusyBal'
  <1>0. /\ obj[o].life = "live" /\ ob \in ObjRec /\ ob.life = "live" /\ ob.grouped = obj[o].grouped
        /\ ob.shutdown = obj[o].shutdown /\ p \in PoolRec /\ SamePool(pool, p)
        /\ p.num_busy_workers = pool.num_busy_workers /\ PoolBal /\ BusyBal
    BY DEF Submittable, CountInv
  <1>1. PICK first \in BOOLEAN : first <=> ob.pending = 0
    <2>1. TRUE \in BOOLEAN /\ FALSE \in BOOLEAN
      OBVIOUS
    <2> QED BY <2>1, Zenon
  <1>2. PICK q : q = tp_object_prio_queue(p, first)
    OBVIOUS
  <1>3. q \in PoolRec /\ SamePool(p, q) /\ q.num_busy_workers = p.num_busy_workers + One(first)
    BY <1>0, <1>2, PrioQueueIs
  <1>4. /\ obj' = [obj EXCEPT ![o] = [ob EXCEPT !.refcount = @ + 1, !.pending = @ + 1]]
        /\ pools' = IF ob.pending = 0 THEN [pools EXCEPT ![Priority[o]] = Append(@, o)] ELSE pools
        /\ \/ tp_new_worker_thread(tp_object_prio_queue(p, ob.pending = 0))
           \/ pool' = tp_object_prio_queue(p, ob.pending = 0) /\ RtlWakeConditionVariable
    BY DEF tp_object_submit
  <1>5. tp_object_prio_queue(p, ob.pending = 0) = q
    BY <1>1, <1>2 DEF tp_object_prio_queue
  <1>6. tp_new_worker_thread(q) \/ (pool' = q /\ RtlWakeConditionVariable)
    BY <1>4, <1>5
  <1>7. ObjAlike
    <2>1. obj'[o].life = "live" /\ obj'[o].grouped = ob.grouped /\ obj'[o].shutdown = ob.shutdown /\ KeptObj(o)
      BY <1>0, <1>4 DEF Shape, ObjRec, KeptObj
    <2>2. Alike(o, obj[o], obj'[o])
      BY <1>0, <2>1 DEF Alike, Alive
    <2> QED BY <2>1, <2>2, OneAlike
  <1>8. Lives' = Lives
    BY <1>7, LivesSame
  <1>9. Queued \in Nat /\ Queued' = Queued + One(first)
    <2>1. Queued \in Nat /\ Queued = Places(pools) /\ Queued' = Places(pools')
      BY QueuedIs
    <2>2. CASE first = FALSE
      <3>1. pools' = pools
        BY <1>1, <1>4, <2>2
      <3> QED BY <2>1, <2>2, <3>1 DEF One
    <2>3. CASE first = TRUE
      <3>1. PICK k : k = Priority[o]
        OBVIOUS
      <3>2. k \in 1..3 /\ pools \in PoolLists /\ pools[k] \in Seq(Objects)
        BY <3>1, ListOf, PlacesAre DEF Shape
      <3>3. PICK s : s = Append(pools[k], o)
        OBVIOUS
      <3>4. s \in Seq(Objects) /\ Len(s) = Len(pools[k]) + 1
        BY <3>2, <3>3, AppendProperties
      <3>5. pools' = [pools EXCEPT ![k] = s]
        BY <1>1, <1>4, <2>3, <3>1, <3>3
      <3>6. Places(pools) \in Nat /\ Len(s) \in Nat /\ Len(pools[k]) \in Nat
            /\ Places(pools') = Places(pools) + Len(s) - Len(pools[k])
        BY ONLY <3>2, <3>4, <3>5, LenStep
      <3>7. One(first) = 1
        BY <2>3 DEF One
      <3>8. PICK a \in Nat, b \in Nat : a = Len(s) /\ b = Len(pools[k]) /\ a = b + 1
        BY <3>4, <3>6
      <3>9. Places(pools') = Places(pools) + a - b
        BY <3>6, <3>8
      <3> QED BY ONLY <2>1, <3>7, <3>8, <3>9
    <2> QED BY <2>2, <2>3
  <1>10. One(first) \in Nat /\ RunW \in Nat /\ pool.num_busy_workers \in Int
    BY <1>0, WorkersAre DEF One, Shape, PoolRec
  <1>11. pool.num_busy_workers >= Queued + RunW
    BY <1>0 DEF BusyBal
  <1>12. q.num_busy_workers >= Queued' + RunW
    BY ONLY <1>0, <1>3, <1>9, <1>10, <1>11
  <1>13. SamePool(pool, q)
    BY <1>0, <1>3 DEF SamePool
  <1>14. CASE pool' = q /\ RtlWakeConditionVariable
    <2>1. WorkKept
      BY <1>14, WakeCounts
    <2>2. PoolBal'
      BY <1>0, <1>8, <1>13, <1>14, <2>1, PoolStays DEF WorkKept
    <2>3. BusyBal'
      BY <1>12, <1>14, <2>1 DEF BusyBal, WorkKept
    <2> QED BY <1>7, <2>2, <2>3
  <1>15. CASE tp_new_worker_thread(q)
    <2>1. WorkMore /\ pool' = [q EXCEPT !.refcount = @ + 1, !.num_workers = @ + 1]
      BY <1>3, <1>15, NewWorkerCounts
    <2>2. /\ pool'.refcount = q.refcount + 1 /\ pool'.num_workers = q.num_workers + 1
          /\ pool'.objcount = q.objcount /\ pool'.shutdown = q.shutdown /\ pool'.life = q.life
          /\ pool'.num_busy_workers = q.num_busy_workers
      BY <1>3, <2>1 DEF PoolRec
    <2>3. pool.refcount > 0
      BY <1>0, PoolAlive DEF Alive
    <2>4. PoolBal'
      BY <1>0, <1>8, <1>13, <2>1, <2>2, <2>3, PoolGrows DEF SamePool
    <2>5. BusyBal'
      BY <1>12, <2>1, <2>2 DEF BusyBal, WorkMore
    <2> QED BY <1>7, <2>4, <2>5
  <1> QED BY <1>6, <1>14, <1>15

(* A submission by a step that leaves group, callers and I/O objects. *)
LEMMA SubmitCountsAll ==
  ASSUME CountInv, Shape, Shape', NEW o \in Objects, NEW ob, NEW p, Submittable(o, ob, p),
         tp_object_submit(o, ob, p), group' = group, PendKept, ioq'.objcount = ioq.objcount
  PROVE  CountInv'
  <1>1. ObjAlike /\ PoolBal' /\ BusyBal'
    BY SubmitCounts
  <1>2. GroupBal' /\ IoBal'
    BY <1>1, GroupStays, IoStays DEF SameGroup, CountInv
  <1> QED BY <1>1, <1>2 DEF CountInv

(* An object that is dying is in no call. *)
LEMMA DyingPend ==
  ASSUME Shape, CoreInv, NEW o \in Objects, obj[o].life = "dying"
  PROVE  ~Pend(o) /\ obj[o].pending = 0 /\ (obj[o].member = TRUE => obj[o].grouped = TRUE)
  <1>1. /\ Typed(obj[o], WN(o), CN(o), HN(o), PN(o), InService(o))
        /\ ObjOK(o, obj[o], WN(o), CN(o), HN(o), PN(o), InService(o))
    BY GoodTyped DEF CoreInv
  <1>2. DeadPart(o, obj[o], WN(o), CN(o), HN(o), PN(o)) /\ GroupPart(o, obj[o], CN(o))
    BY <1>1 DEF ObjOK, UsePart
  <1>3. CN(o).sub = 0 /\ CN(o).join = 0 /\ obj[o].pending = 0
    BY <1>2 DEF DeadPart, Unused
  <1>4. obj[o].member = TRUE => obj[o].grouped = TRUE
    BY <1>2 DEF GroupPart
  <1> QED BY <1>3, <1>4 DEF Pend

(* What tp_object_destroy leaves of pool and group. *)
LEMMA DestroyLedgers ==
  ASSUME Shape, NEW o \in Objects, tp_object_destroy(o)
  PROVE  /\ pool'.refcount = pool.refcount - 1 /\ pool'.objcount = pool.objcount - 1
         /\ pool'.shutdown = pool.shutdown /\ pool'.num_workers = pool.num_workers
         /\ pool'.num_busy_workers = pool.num_busy_workers
         /\ pool'.life = IF pool.refcount = 1 THEN "gone" ELSE pool.life
         /\ obj[o].grouped = FALSE => group' = group
         /\ obj[o].grouped = TRUE =>
              /\ group'.refcount = group.refcount - 1 /\ group'.shutdown = group.shutdown
              /\ group'.life = IF group.refcount = 1 THEN "gone" ELSE group.life
         /\ obj'[o].life = "gone" /\ obj'[o].shutdown = obj[o].shutdown /\ obj'[o].grouped = obj[o].grouped
         /\ KeptObj(o) /\ pools' = pools
  <1>0. pool \in PoolRec /\ group \in GroupRec /\ obj \in [Objects -> ObjRec]
    BY DEF Shape
  <1>1. /\ obj' = [obj EXCEPT ![o] = [NoObject EXCEPT !.life = "gone", !.shutdown = obj[o].shutdown,
                                                  !.grouped = obj[o].grouped]]
        /\ group' = IF ~obj[o].grouped THEN group
                    ELSE tp_group_release(IF obj[o].member
                                        THEN [group EXCEPT !.members = Without(@, {o})]
                                        ELSE group)
        /\ pool' = tp_threadpool_release([pool EXCEPT !.objcount = @ - 1])
        /\ pools' = pools
    BY DEF tp_object_destroy
  <1>2. PICK p : p = [pool EXCEPT !.objcount = @ - 1]
    OBVIOUS
  <1>3. /\ p \in PoolRec /\ p.refcount = pool.refcount /\ p.objcount = pool.objcount - 1
        /\ p.shutdown = pool.shutdown /\ p.num_workers = pool.num_workers
        /\ p.num_busy_workers = pool.num_busy_workers /\ p.life = pool.life
    BY <1>0, <1>2 DEF PoolRec
  <1>4. pool' = tp_threadpool_release(p)
    BY <1>1, <1>2
  <1>5. /\ pool'.refcount = pool.refcount - 1 /\ pool'.objcount = pool.objcount - 1
        /\ pool'.shutdown = pool.shutdown /\ pool'.num_workers = pool.num_workers
        /\ pool'.num_busy_workers = pool.num_busy_workers
        /\ pool'.life = IF pool.refcount = 1 THEN "gone" ELSE pool.life
    BY <1>3, <1>4, PoolReleaseIs
  <1>6. PICK g : g = IF obj[o].member THEN [group EXCEPT !.members = Without(@, {o})] ELSE group
    OBVIOUS
  <1>7. g \in GroupRec /\ g.refcount = group.refcount /\ g.shutdown = group.shutdown /\ g.life = group.life
    <2>0. Without(group.members, {o}) \in Seq(Objects)
      BY <1>0, WithoutIs DEF GroupRec
    <2>1. CASE g = group
      BY <1>0, <2>1
    <2>2. CASE g = [group EXCEPT !.members = Without(@, {o})]
      BY <1>0, <2>0, <2>2 DEF GroupRec
    <2> QED BY <1>6, <2>1, <2>2
  <1>8. obj[o].grouped = TRUE => group' = tp_group_release(g)
    BY <1>1, <1>6
  <1>9. obj[o].grouped = TRUE => 
              /\ group'.refcount = group.refcount - 1 /\ group'.shutdown = group.shutdown
              /\ group'.life = IF group.refcount = 1 THEN "gone" ELSE group.life
    BY <1>7, <1>8, GroupReleaseIs
  <1>10. obj'[o].life = "gone" /\ obj'[o].shutdown = obj[o].shutdown /\ obj'[o].grouped = obj[o].grouped
         /\ KeptObj(o)
    BY <1>0, <1>1 DEF NoObject, KeptObj
  <1>11. obj[o].grouped = FALSE => group' = group
    BY <1>1
  <1> QED BY <1>1, <1>5, <1>9, <1>10, <1>11

(* A reference less: the arithmetic. *)
LEMMA LessOne ==
  ASSUME NEW r \in Int, NEW k \in Nat, NEW n \in Nat, NEW a \in Nat, NEW m \in Int, n > 0, m = n - 1, r = k + n + a,
         NEW l, NEW z, l = "gone" <=> r = 0, z = IF r = 1 THEN "gone" ELSE l
  PROVE  m \in Nat /\ r - 1 = k + m + a /\ (z = "gone" <=> r - 1 = 0)
  <1>1. r - 1 = k + m + a /\ r > 0 /\ m \in Nat
    OBVIOUS
  <1>2. l # "gone"
    BY <1>1
  <1>3. CASE r = 1
    BY <1>1, <1>3
  <1>4. CASE r # 1
    BY <1>1, <1>2, <1>4
  <1> QED BY <1>3, <1>4

(* An object is destroyed: one less to count. *)
LEMMA DestroyCounts ==
  ASSUME CountInv, CoreInv, Shape, Shape', NEW o \in Objects, obj[o].life = "dying", tp_object_destroy(o),
         PendKept, WorkKept, ioq'.objcount = ioq.objcount
  PROVE  CountInv'
  <1>0. PoolBal /\ BusyBal /\ GroupBal /\ IoBal /\ ~Pend(o)
    BY DyingPend DEF CountInv
  <1>1.  /\ pool'.refcount = pool.refcount - 1 /\ pool'.objcount = pool.objcount - 1
         /\ pool'.shutdown = pool.shutdown /\ pool'.num_workers = pool.num_workers
         /\ pool'.num_busy_workers = pool.num_busy_workers
         /\ pool'.life = IF pool.refcount = 1 THEN "gone" ELSE pool.life
         /\ obj[o].grouped = FALSE => group' = group
         /\ obj[o].grouped = TRUE =>
              /\ group'.refcount = group.refcount - 1 /\ group'.shutdown = group.shutdown
              /\ group'.life = IF group.refcount = 1 THEN "gone" ELSE group.life
         /\ obj'[o].life = "gone" /\ obj'[o].shutdown = obj[o].shutdown /\ obj'[o].grouped = obj[o].grouped
         /\ KeptObj(o) /\ pools' = pools
    BY DestroyLedgers
  <1>2. \A x \in Objects \ {o} : Alike(x, obj[x], obj'[x])
    BY <1>1 DEF KeptObj, Alike
  <1>3. LivesStep(o) /\ BoundStep(o) /\ OpensStep(o)
    BY <1>2, MarksStep DEF PendKept
  <1>4. o \in Lives /\ o \notin Lives' /\ o \notin Bound' /\ (o \in Opens' <=> o \in Opens)
        /\ (o \in Bound <=> obj[o].grouped = TRUE)
    BY <1>0, <1>1 DEF Lives, Bound, Opens, Alive
  <1>5. PICK n \in Nat, m \in Int : n = Cardinality(Lives) /\ m = Cardinality(Lives)' /\ m = n - 1 /\ n > 0
    <2>1. Cardinality(Lives) \in Nat /\ Cardinality(Lives) > 0
      BY <1>4, MarksAre DEF Lives
    <2>2. One(o \in Lives) = 1 /\ One(o \in Lives') = 0
      BY <1>4 DEF One
    <2>3. PICK n \in Nat : n = Cardinality(Lives)
      BY <2>1
    <2>4. Cardinality(Lives)' = n + 0 - 1
      BY <1>3, <2>2, <2>3 DEF LivesStep
    <2>5. n + 0 - 1 \in Int /\ n + 0 - 1 = n - 1
      OBVIOUS
    <2> QED BY <2>1, <2>3, <2>4, <2>5
  <1>6. PoolBal'
    <2>1. PICK k \in Nat : k = One(pool.shutdown = FALSE) /\ k = One(pool'.shutdown = FALSE)
      BY <1>1 DEF One
    <2>2. PICK a \in Nat : a = AllW /\ a = AllW'
      BY WorkersAre DEF WorkKept
    <2>3. pool.refcount \in Int /\ pool.refcount = k + n + a /\ pool.objcount = n /\ pool.num_workers = StayW
          /\ (pool.life = "gone" <=> pool.refcount = 0)
      BY <1>0, <1>5, <2>1, <2>2 DEF PoolBal, PoolOK, Shape, PoolRec
    <2>4. pool'.refcount = k + m + a /\ (pool'.life = "gone" <=> pool'.refcount = 0)
      BY <1>1, <1>5, <2>3, LessOne
    <2>5. pool'.objcount = m /\ pool'.num_workers = StayW'
      BY <1>1, <1>5, <2>3 DEF WorkKept
    <2> QED BY <1>5, <2>1, <2>2, <2>4, <2>5 DEF PoolBal, PoolOK
  <1>7. BusyBal'
    BY <1>0, <1>1 DEF BusyBal, Queued, WorkKept
  <1>8. IoBal'
    <2>1. Cardinality(Opens) \in Nat /\ One(o \in Opens) \in Nat /\ One(o \in Opens') = One(o \in Opens)
      BY <1>4, MarksAre DEF One
    <2>2. Cardinality(Opens)' = Cardinality(Opens)
      BY <1>3, <2>1 DEF OpensStep
    <2> QED BY <1>0, <2>2 DEF IoBal
  <1>9. GroupOK(group', Cardinality(Bound)')
    <2>0. GroupOK(group, Cardinality(Bound)) /\ obj[o].grouped \in BOOLEAN /\ Cardinality(Bound) \in Nat
      BY <1>0, MarksAre DEF GroupBal, Shape, ObjRec
    <2>1. CASE obj[o].grouped = FALSE
      <3>1. Cardinality(Bound)' = Cardinality(Bound)
        BY <1>3, <1>4, <2>0, <2>1 DEF BoundStep, One
      <3> QED BY <1>1, <2>0, <2>1, <3>1
    <2>2. CASE obj[o].grouped = TRUE
      <3>1. PICK r \in Int, k \in Nat, b \in Nat : r = group.refcount /\ k = One(group.shutdown = FALSE) /\ b = Cardinality(Bound)
        BY <2>0 DEF Shape, GroupRec, One
      <3>2. b > 0
        BY <1>4, <2>2, <3>1, MarksAre
      <3>3. PICK c \in Int : c = b - 1
        OBVIOUS
      <3>4. Cardinality(Bound)' = c
        <4>1. One(o \in Bound) = 1 /\ One(o \in Bound') = 0
          BY <1>4, <2>2 DEF One
        <4>2. Cardinality(Bound)' = b + 0 - 1
          BY <1>3, <3>1, <4>1 DEF BoundStep
        <4> QED BY <3>3, <4>2
      <3>5. r = k + b + 0 /\ (group.life = "gone" <=> r = 0)
        BY <2>0, <3>1 DEF GroupOK
      <3>6. r - 1 = k + c + 0 /\ (group'.life = "gone" <=> r - 1 = 0)
        <4>1. group'.life = IF r = 1 THEN "gone" ELSE group.life
          BY <1>1, <2>2, <3>1
        <4> QED BY <3>2, <3>3, <3>5, <4>1, LessOne
      <3>7. group'.refcount = r - 1 /\ One(group'.shutdown = FALSE) = k
        BY <1>1, <2>2, <3>1
      <3> QED BY <3>3, <3>4, <3>6, <3>7 DEF GroupOK
    <2> QED BY <2>0, <2>1, <2>2
  <1>10. GroupBal'
    <2>1. group'.shutdown = group.shutdown
      BY <1>1 DEF Shape, ObjRec
    <2>2. \A x \in Objects : obj'[x].grouped = obj[x].grouped /\ (obj'[x].life = "none" => obj[x].life = "none")
      BY <1>1 DEF KeptObj
    <2> QED BY <1>0, <1>9, <2>1, <2>2 DEF GroupBal, PendKept
  <1> QED BY <1>6, <1>7, <1>8, <1>10 DEF CountInv

-----------------------------------------------------------------------------
(* Steps of workers. *)

(* An object with a reference is alive. *)
LEMMA RefAlive ==
  ASSUME Shape, CoreInv, NEW o \in Objects
  PROVE  /\ obj[o].refcount # 0 => obj[o].life = "live"
         /\ WN(o).run > 0 \/ CN(o).keep > 0 \/ CN(o).join > 0 \/ CN(o).rel > 0 \/ CN(o).sub > 0
              \/ (obj[o].owner # "none" /\ obj[o].shutdown = FALSE) => obj[o].life = "live"
  <1>1. /\ Typed(obj[o], WN(o), CN(o), HN(o), PN(o), InService(o))
        /\ ObjOK(o, obj[o], WN(o), CN(o), HN(o), PN(o), InService(o))
    BY GoodTyped DEF CoreInv
  <1>2. WN(o).run > 0 \/ obj[o].pending > 0 \/ CN(o).keep > 0 \/ CN(o).join > 0 \/ CN(o).rel > 0 \/ CN(o).sub > 0
              \/ (obj[o].owner # "none" /\ obj[o].shutdown = FALSE) \/ PN(o).again = TRUE \/ InService(o) = TRUE
              \/ obj[o].refcount # 0 => obj[o].life = "live"
    BY ONLY <1>1, AliveIf, o \in Objects
  <1> QED BY ONLY <1>2

(* References that are given back are not seen by the counts. *)
LEMMA GivenAlike ==
  ASSUME Shape, CoreInv, NEW o \in Objects, NEW n \in Int, n # 0, NEW e,
         obj[o].refcount = n => e.life = "dying", obj[o].refcount # n => e.life = obj[o].life,
         e.grouped = obj[o].grouped, Type[o] = "io" => e.shutdown = obj[o].shutdown
  PROVE  Alike(o, obj[o], e)
  <1>1. CASE obj[o].refcount = n
    BY <1>1, RefAlive DEF Alike, Alive
  <1>2. CASE obj[o].refcount # n
    BY <1>2 DEF Alike, Alive
  <1> QED BY <1>1, <1>2

(* The number of queued items when the first one is taken. *)
LEMMA TakeQueued ==
  ASSUME Shape, Shape', NEW o \in Objects, pools[Priority[o]] # <<>>, NEW again \in BOOLEAN,
         LET rest == [pools EXCEPT ![Priority[o]] = Tail(@)] IN
         pools' = IF again THEN [rest EXCEPT ![Priority[o]] = Append(@, o)] ELSE rest
  PROVE  Queued \in Nat /\ Queued' = Queued - 1 + One(again)
  <1>1. Queued \in Nat /\ Queued = Places(pools) /\ Queued' = Places(pools')
    BY QueuedIs
  <1>2. PICK k : k = Priority[o]
    OBVIOUS
  <1>3. k \in 1..3 /\ pools \in PoolLists /\ pools[k] \in Seq(Objects) /\ pools[k] # <<>>
        /\ pools[k] \in Seq(OfPriority(k)) /\ o \in OfPriority(k)
    BY <1>2, ListOf, PlacesAre DEF Shape
  <1>4. PICK s : s = Tail(pools[k])
    OBVIOUS
  <1>5. s \in Seq(Objects) /\ Len(s) = Len(pools[k]) - 1 /\ s \in Seq(OfPriority(k))
    BY <1>3, <1>4, TailIs
  <1>6. PICK g : g = [pools EXCEPT ![k] = s]
    OBVIOUS
  <1>7. g \in PoolLists /\ g[k] = s
    BY <1>3, <1>5, <1>6, OneList DEF PoolLists
  <1>8. Places(pools) \in Nat /\ Len(s) \in Nat /\ Len(pools[k]) \in Nat
        /\ Places(g) = Places(pools) + Len(s) - Len(pools[k])
    BY ONLY <1>3, <1>5, <1>6, LenStep
  <1>9. Places(g) = Places(pools) - 1
    <2>1. PICK a \in Nat, b \in Nat : a = Len(s) /\ b = Len(pools[k]) /\ a = b - 1
      BY <1>5, <1>8
    <2>2. Places(g) = Places(pools) + a - b
      BY <1>8, <2>1
    <2> QED BY ONLY <1>1, <2>1, <2>2
  <1>10. CASE again = FALSE
    <2>1. pools' = g /\ One(again) = 0
      BY <1>2, <1>4, <1>6, <1>10 DEF One
    <2> QED BY ONLY <1>1, <1>9, <2>1
  <1>11. CASE again = TRUE
    <2>1. PICK u : u = Append(s, o)
      OBVIOUS
    <2>2. u \in Seq(Objects) /\ Len(u) = Len(s) + 1
      BY <1>5, <2>1, AppendProperties
    <2>3. pools' = [g EXCEPT ![k] = u] /\ One(again) = 1
      BY <1>2, <1>4, <1>6, <1>7, <1>11, <2>1 DEF One
    <2>4. Places(g) \in Nat /\ Len(u) \in Nat /\ Len(g[k]) \in Nat
          /\ Places(pools') = Places(g) + Len(u) - Len(g[k])
      BY ONLY <1>3, <1>7, <2>2, <2>3, LenStep
    <2>5. PICK a \in Nat, b \in Nat : a = Len(u) /\ b = Len(s) /\ a = b + 1
      BY <1>8, <2>2, <2>4
    <2>6. Places(pools') = Places(g) + a - b
      BY <1>7, <2>4, <2>5
    <2> QED BY ONLY <1>1, <1>9, <2>3, <2>5, <2>6
  <1> QED BY <1>10, <1>11

(* A worker takes an item. *)
LEMMA WorkerTakeCounts ==
  ASSUME BaseInv, BaseInv', CoreInv, CountInv, NEW w \in Workers, WorkerTake(w), UNCHANGED queueVars
  PROVE  CountInv'
<1>0. Shape /\ Shape' /\ PoolBal /\ BusyBal /\ GroupBal /\ IoBal
  BY DEF BaseInv, CountInv
<1>1. worker[w].pc = "run" /\ Waiting /\ group' = group /\ caller' = caller /\ ioq' = ioq
  BY DEF WorkerTake, queueVars, ioVars
<1>2. PICK o \in Objects : o = threadpool_get_next_item
  BY <1>0, <1>1, NextItem
<1>3. pools[Priority[o]] # <<>>
  BY <1>0, <1>1, <1>2, NextItem
<1>4. PICK again \in BOOLEAN : again <=> obj[o].pending > 1
  <2>1. TRUE \in BOOLEAN /\ FALSE \in BOOLEAN
    OBVIOUS
  <2> QED
    BY <2>1, Zenon
<1>5. /\ obj' = tp_object_execute(o)
      /\ worker' = [worker EXCEPT ![w] = [NoWorker EXCEPT !.pc = "callback", !.obj = o, !.associated = TRUE]]
      /\ LET rest == [pools EXCEPT ![Priority[o]] = Tail(@)] IN
         pools' = IF again THEN [rest EXCEPT ![Priority[o]] = Append(@, o)] ELSE rest
  BY <1>2, <1>4 DEF WorkerTake
<1>6. pool' = tp_object_prio_queue([pool EXCEPT !.cs = Nil], again)
  BY <1>2, <1>4 DEF WorkerTake, tp_object_prio_queue
<1>7. PICK e : tp_object_execute(o) = [obj EXCEPT ![o] = e] /\ ExecutedIs(obj[o], e, Type[o] = "io")
  BY <1>0, <1>2, ExecuteIs
<1>8. obj'[o] = e /\ KeptObj(o)
  BY <1>0, <1>5, <1>7 DEF Shape, KeptObj
<1>9. ObjAlike /\ PendKept
  <2>1. Alike(o, obj[o], e)
    BY <1>7 DEF ExecutedIs, Alike, Alive
  <2> QED BY <1>0, <1>1, <1>8, <2>1, OneAlike, SubsWoken
<1>10. GroupBal' /\ IoBal'
  BY <1>0, <1>1, <1>9, GroupStays, IoStays DEF SameGroup
<1>11. PICK p : p = [pool EXCEPT !.cs = Nil]
  OBVIOUS
<1>12. p \in PoolRec /\ SamePool(pool, p) /\ p.num_busy_workers = pool.num_busy_workers
  BY <1>0, <1>11 DEF Shape, PoolRec, SamePool
<1>13. SamePool(p, pool') /\ pool'.num_busy_workers = p.num_busy_workers + One(again)
  BY <1>6, <1>11, <1>12, PrioQueueIs
<1>14. SamePool(pool, pool')
  BY <1>12, <1>13 DEF SamePool
<1>15. worker'[w].pc = "callback" /\ \A x \in Workers \ {w} : worker'[x].pc = worker[x].pc
  BY <1>0, <1>5 DEF Shape, NoWorker
<1>16. AllW \in Nat /\ StayW \in Nat /\ RunW \in Nat
  BY <1>0, WorkersAre
<1>17. AllW' = AllW /\ StayW' = StayW /\ RunW' = RunW + 1
  BY <1>0, <1>1, <1>15, <1>16, OneWorker DEF One
<1>18. PoolBal'
  BY <1>0, <1>9, <1>14, <1>17, PoolStays, LivesSame
<1>19. Queued \in Nat /\ Queued' = Queued - 1 + One(again)
  BY ONLY <1>0, <1>2, <1>3, <1>5, TakeQueued, again \in BOOLEAN
<1>20. BusyBal'
  <2>1. pool.num_busy_workers >= Queued + RunW /\ pool.num_busy_workers \in Int /\ One(again) \in Nat
    BY <1>0 DEF BusyBal, Shape, PoolRec, One
  <2>2. pool'.num_busy_workers >= Queued' + RunW'
    BY ONLY <1>12, <1>13, <1>16, <1>17, <1>19, <2>1
  <2> QED BY <2>2 DEF BusyBal
<1> QED BY <1>10, <1>18, <1>20 DEF CountInv

(* A callback returns. *)
LEMMA WorkerReturnCounts ==
  ASSUME BaseInv, BaseInv', CoreInv, CountInv, NEW w \in Workers, WorkerReturn(w), UNCHANGED queueVars
  PROVE  CountInv'
<1>0. Shape /\ Shape' /\ ObjInv /\ IoShape /\ PoolBal /\ BusyBal /\ GroupBal /\ IoBal
  BY DEF BaseInv, CoreInv, CountInv
<1>1. worker[w].pc = "callback" /\ pools' = pools /\ group' = group /\ ioq' = ioq
      /\ pool' = [pool EXCEPT !.num_busy_workers = @ - 1, !.cs = w]
  BY DEF WorkerReturn, queueVars, ioVars
<1>2. PICK o : o = worker[w].obj
  OBVIOUS
<1>3. o \in Objects /\ WN(o).run > 0 /\ worker[w] \in RunsOf(o)
  BY <1>0, <1>1, <1>2, RunsIs
<1>4. PICK a \in BOOLEAN : a = worker[w].associated
  BY <1>0, <1>1, <1>2, RunsIs
<1>5. PICK simple \in BOOLEAN : simple = (Type[o] = "simple")
  OBVIOUS
<1>6. obj[o] \in ObjRec
  BY <1>0, <1>3 DEF Shape
<1>7. PICK ob : ob = Returned(obj[o], a, simple)
  OBVIOUS
<1>8. ReturnedIs(obj[o], ob, a, simple)
  BY <1>6, <1>7, ReturnIs
<1>9. /\ obj' = [obj EXCEPT ![o] = Dropped(ob, 1)]
      /\ WakeWaiters(o, ob, {"gsleep"} \cup (IF a THEN {"sleep"} ELSE {}))
      /\ worker' = [worker EXCEPT ![w] = IF ob.refcount = 1 THEN [NoWorker EXCEPT !.pc = "destroy", !.obj = o]
                                   ELSE [NoWorker EXCEPT !.pc = "run"]]
  BY <1>2, <1>4, <1>5, <1>7 DEF WorkerReturn, Returned
<1>10. /\ ob \in ObjRec /\ ob.refcount = obj[o].refcount /\ ob.grouped = obj[o].grouped /\ ob.life = obj[o].life
       /\ Type[o] = "io" => ob.shutdown = obj[o].shutdown
  BY <1>5, <1>6, <1>8 DEF ReturnedIs, ObjRec
<1>11. PICK e : e = Dropped(ob, 1)
  OBVIOUS
<1>12. GivenBack(ob, e, 1)
  BY <1>10, <1>11, DropGives
<1>13. obj'[o] = e /\ KeptObj(o)
  BY <1>0, <1>3, <1>9, <1>11 DEF Shape, KeptObj
<1>14. ObjAlike /\ PendKept
  <2>1. Alike(o, obj[o], e)
    <3>1. /\ obj[o].refcount = 1 => e.life = "dying"
          /\ obj[o].refcount # 1 => e.life = obj[o].life
          /\ e.grouped = obj[o].grouped /\ (Type[o] = "io" => e.shutdown = obj[o].shutdown)
      BY <1>10, <1>12 DEF GivenBack
    <3> QED BY <1>0, <1>3, <3>1, GivenAlike
  <2>2. PICK events \in SUBSET {"sleep", "gsleep"} : WakeWaiters(o, ob, events)
    <3>1. {"gsleep"} \cup (IF a THEN {"sleep"} ELSE {}) \in SUBSET {"sleep", "gsleep"}
      OBVIOUS
    <3> QED BY <1>9, <3>1, Zenon
  <2>3. \E x, y : \E events_1 \in SUBSET {"sleep", "gsleep"} : WakeWaiters(x, y, events_1)
    BY <2>2, Zenon
  <2> QED BY <1>0, <1>13, <2>1, <2>3, OneAlike, SubsWoken
<1>15. GroupBal' /\ IoBal'
  BY <1>0, <1>1, <1>14, GroupStays, IoStays DEF SameGroup
<1>16. SamePool(pool, pool') /\ pool'.num_busy_workers = pool.num_busy_workers - 1
  BY <1>0, <1>1 DEF Shape, PoolRec, SamePool
<1>17. worker'[w].pc \in {"destroy", "run"} /\ \A x \in Workers \ {w} : worker'[x].pc = worker[x].pc
  BY <1>0, <1>9 DEF Shape, NoWorker
<1>18. AllW \in Nat /\ StayW \in Nat /\ RunW \in Nat
  BY <1>0, WorkersAre
<1>19. AllW' = AllW /\ StayW' = StayW /\ RunW' = RunW - 1
  BY <1>0, <1>1, <1>17, <1>18, OneWorker DEF One
<1>20. PoolBal'
  BY <1>0, <1>14, <1>16, <1>19, PoolStays, LivesSame
<1>21. BusyBal'
  <2>1. pool.num_busy_workers >= Queued + RunW /\ pool.num_busy_workers \in Int /\ Queued \in Nat /\ Queued' = Queued
    BY <1>0, <1>1, QueuedIs DEF BusyBal, Shape, PoolRec, Queued
  <2>2. pool'.num_busy_workers >= Queued' + RunW'
    BY ONLY <1>16, <1>18, <1>19, <2>1
  <2> QED BY <2>2 DEF BusyBal
<1> QED BY <1>15, <1>20, <1>21 DEF CountInv

(* A worker destroys the object whose last reference it dropped. *)
LEMMA WorkerDestroyCounts ==
  ASSUME BaseInv, BaseInv', CoreInv, CountInv, NEW w \in Workers, WorkerDestroy(w), UNCHANGED queueVars
  PROVE  CountInv'
<1>0. Shape /\ Shape'
  BY DEF BaseInv
<1>1. worker[w].pc = "destroy" /\ caller' = caller /\ ioq' = ioq
      /\ worker' = [worker EXCEPT ![w] = [NoWorker EXCEPT !.pc = "run"]]
  BY DEF WorkerDestroy, queueVars, ioVars
<1>2. PICK o : o = worker[w].obj
  OBVIOUS
<1>3. o \in Objects /\ tp_object_destroy(o) /\ worker[w] \in WorkerSet
  BY <1>0, <1>1, <1>2 DEF Shape, WorkerSet, WorkerDestroy
<1>4. obj[o].life = "dying"
  <2>1. worker[w] \in EndsOf(o) /\ IsFiniteSet(Workers) /\ DOMAIN worker = Workers
    BY <1>0, <1>1, <1>2, <1>3, PoolConstants DEF EndsOf, Shape
  <2>2. Cnt(worker, EndsOf(o)) \in Nat /\ Cnt(worker, EndsOf(o)) # 0
    BY ONLY <2>1, CntSome, w \in Workers
  <2>3. WN(o).ends > 0
    BY <2>2 DEF WN
  <2> QED BY <1>0, <1>3, <2>3, DyingIs
<1>5. WorkKept
  <2>1. worker'[w].pc = "run" /\ \A x \in Workers \ {w} : worker'[x].pc = worker[x].pc
    BY <1>0, <1>1 DEF Shape, NoWorker
  <2>2. \A x \in Workers : SamePc(worker[x], worker'[x])
    BY <1>1, <2>1 DEF SamePc
  <2> QED BY <1>0, <2>2, StillWorkers
<1>6. PendKept
  BY <1>0, <1>1, SubsWoken
<1> QED BY <1>0, <1>1, <1>3, <1>4, <1>5, <1>6, DestroyCounts

(* Steps that leave objects and callers alone. *)
LEMMA StillObjects ==
  ASSUME Shape, Shape', obj' = obj, caller' = caller
  PROVE  ObjAlike /\ PendKept /\ Lives' = Lives
  <1>1. ObjAlike
    BY DEF ObjAlike, Alike
  <1> QED BY <1>1, SubsWoken, LivesSame

(* A worker, or none, moves; the pool's count is kept. *)
LEMMA WorkersOnlyCounts ==
  ASSUME CountInv, Shape, Shape', obj' = obj, caller' = caller, pools' = pools, group' = group,
         ioq'.objcount = ioq.objcount, PoolBal', RunW' = RunW, pool'.num_busy_workers = pool.num_busy_workers
  PROVE  CountInv'
  <1>1. GroupBal' /\ IoBal'
    BY StillObjects, GroupStays, IoStays DEF SameGroup, CountInv
  <1>2. BusyBal'
    BY DEF CountInv, BusyBal, Queued
  <1> QED BY <1>1, <1>2 DEF CountInv

(* A worker is on its way out: one less to count. *)
LEMMA PoolLeaves ==
  ASSUME PoolBal, Shape, Lives' = Lives, AllW' = AllW, StayW' = StayW - 1, pool'.refcount = pool.refcount,
         pool'.num_workers = pool.num_workers - 1, pool'.objcount = pool.objcount,
         pool'.shutdown = pool.shutdown, pool'.life = pool.life
  PROVE  PoolBal'
  BY DEF PoolBal, PoolOK

(* The other steps of a worker. *)
LEMMA WorkerRestCounts ==
  ASSUME BaseInv, BaseInv', CountInv, NEW w \in Workers, UNCHANGED queueVars,
         \/ WorkerCheck(w) \/ WorkerSleep(w) \/ WorkerTimeout(w) \/ WorkerTimedOut(w) \/ WorkerLeave(w)
  PROVE  CountInv'
<1>0. Shape /\ Shape' /\ PoolBal /\ pool \in PoolRec /\ worker[w] \in WorkerSet /\ worker \in [Workers -> WorkerSet]
  BY DEF BaseInv, CountInv, Shape
<1>1. ioq' = ioq /\ obj' = obj /\ caller' = caller /\ pools' = pools /\ group' = group
  BY DEF WorkerCheck, WorkerSleep, WorkerTimeout, WorkerTimedOut, WorkerLeave, queueVars, ioVars
<1>2. Lives' = Lives
  BY <1>0, <1>1, StillObjects
<1>3. AllW \in Nat /\ StayW \in Nat /\ RunW \in Nat
  BY <1>0, WorkersAre
<1>4. CASE /\ worker[w].pc \in {"run", "check", "asleep", "timedout"}
           /\ worker'[w].pc \in {"run", "check", "asleep", "timedout"}
           /\ \A x \in Workers \ {w} : worker'[x].pc = worker[x].pc
           /\ SamePool(pool, pool') /\ pool'.num_busy_workers = pool.num_busy_workers
  <2>1. \A x \in Workers : SamePc(worker[x], worker'[x])
    BY <1>4 DEF SamePc
  <2>2. WorkKept
    BY <1>0, <2>1, StillWorkers
  <2>3. PoolBal'
    BY <1>0, <1>2, <1>4, <2>2, PoolStays DEF WorkKept
  <2> QED BY <1>0, <1>1, <1>4, <2>2, <2>3, WorkersOnlyCounts DEF WorkKept
<1>5. CASE /\ worker[w].pc \in {"run", "timedout"} /\ worker'[w].pc = "leave"
           /\ \A x \in Workers \ {w} : worker'[x].pc = worker[x].pc
           /\ pool'.refcount = pool.refcount /\ pool'.num_workers = pool.num_workers - 1
           /\ pool'.objcount = pool.objcount /\ pool'.shutdown = pool.shutdown /\ pool'.life = pool.life
           /\ pool'.num_busy_workers = pool.num_busy_workers
  <2>1. AllW' = AllW /\ StayW' = StayW - 1 /\ RunW' = RunW
    BY <1>0, <1>3, <1>5, OneWorker DEF One
  <2>2. PoolBal'
    BY <1>0, <1>2, <1>5, <2>1, PoolLeaves
  <2> QED BY <1>0, <1>1, <1>5, <2>1, <2>2, WorkersOnlyCounts
<1>6. CASE WorkerCheck(w)
  <2>1. CASE pool.shutdown
    <3>1. worker[w].pc = "run" /\ pool' = [pool EXCEPT !.num_workers = @ - 1, !.cs = Nil]
          /\ worker' = [worker EXCEPT ![w].pc = "leave"]
      BY <1>6, <2>1 DEF WorkerCheck
    <3>2. worker'[w].pc = "leave" /\ \A x \in Workers \ {w} : worker'[x].pc = worker[x].pc
      BY <1>0, <3>1 DEF WorkerSet, WorkerRec
    <3>3. /\ pool'.refcount = pool.refcount /\ pool'.num_workers = pool.num_workers - 1
          /\ pool'.objcount = pool.objcount /\ pool'.shutdown = pool.shutdown /\ pool'.life = pool.life
          /\ pool'.num_busy_workers = pool.num_busy_workers
      BY <1>0, <3>1 DEF PoolRec
    <3> QED BY <1>5, <3>1, <3>2, <3>3
  <2>2. CASE ~pool.shutdown
    <3>1. worker[w].pc = "run" /\ pool' = [pool EXCEPT !.cs = w] /\ worker' = [worker EXCEPT ![w].pc = "check"]
      BY <1>6, <2>2 DEF WorkerCheck
    <3>2. worker'[w].pc = "check" /\ \A x \in Workers \ {w} : worker'[x].pc = worker[x].pc
      BY <1>0, <3>1 DEF WorkerSet, WorkerRec
    <3>3. SamePool(pool, pool') /\ pool'.num_busy_workers = pool.num_busy_workers
      BY <1>0, <3>1 DEF PoolRec, SamePool
    <3> QED BY <1>4, <3>1, <3>2, <3>3
  <2> QED BY <2>1, <2>2
<1>7. CASE WorkerSleep(w)
  <2>1. worker[w].pc = "check" /\ pool' = [pool EXCEPT !.cs = Nil] /\ worker' = [worker EXCEPT ![w].pc = "asleep"]
    BY <1>7 DEF WorkerSleep
  <2>2. worker'[w].pc = "asleep" /\ \A x \in Workers \ {w} : worker'[x].pc = worker[x].pc
    BY <1>0, <2>1 DEF WorkerSet, WorkerRec
  <2>3. SamePool(pool, pool') /\ pool'.num_busy_workers = pool.num_busy_workers
    BY <1>0, <2>1 DEF PoolRec, SamePool
  <2> QED BY <1>4, <2>1, <2>2, <2>3
<1>8. CASE WorkerTimeout(w)
  <2>1. worker[w].pc = "asleep" /\ pool' = pool /\ worker' = [worker EXCEPT ![w].pc = "timedout"]
    BY <1>8 DEF WorkerTimeout
  <2>2. worker'[w].pc = "timedout" /\ \A x \in Workers \ {w} : worker'[x].pc = worker[x].pc
    BY <1>0, <2>1 DEF WorkerSet, WorkerRec
  <2>3. SamePool(pool, pool') /\ pool'.num_busy_workers = pool.num_busy_workers
    BY <1>0, <2>1 DEF SamePool
  <2> QED BY <1>4, <2>1, <2>2, <2>3
<1>9. CASE WorkerTimedOut(w)
  <2>1. CASE MayTerminate
    <3>1. worker[w].pc = "timedout" /\ pool' = [pool EXCEPT !.num_workers = @ - 1]
          /\ worker' = [worker EXCEPT ![w].pc = "leave"]
      BY <1>9, <2>1 DEF WorkerTimedOut
    <3>2. worker'[w].pc = "leave" /\ \A x \in Workers \ {w} : worker'[x].pc = worker[x].pc
      BY <1>0, <3>1 DEF WorkerSet, WorkerRec
    <3>3. /\ pool'.refcount = pool.refcount /\ pool'.num_workers = pool.num_workers - 1
          /\ pool'.objcount = pool.objcount /\ pool'.shutdown = pool.shutdown /\ pool'.life = pool.life
          /\ pool'.num_busy_workers = pool.num_busy_workers
      BY <1>0, <3>1 DEF PoolRec
    <3> QED BY <1>5, <3>1, <3>2, <3>3
  <2>2. CASE ~MayTerminate
    <3>1. worker[w].pc = "timedout" /\ worker' = [worker EXCEPT ![w].pc = "run"]
          /\ pool' = [pool EXCEPT !.cs = w, !.late = IF @ < MaxLate THEN @ + 1 ELSE @]
      BY <1>9, <2>2 DEF WorkerTimedOut
    <3>2. worker'[w].pc = "run" /\ \A x \in Workers \ {w} : worker'[x].pc = worker[x].pc
      BY <1>0, <3>1 DEF WorkerSet, WorkerRec
    <3>3. SamePool(pool, pool') /\ pool'.num_busy_workers = pool.num_busy_workers
      BY <1>0, <3>1 DEF PoolRec, SamePool
    <3> QED BY <1>4, <3>1, <3>2, <3>3
  <2> QED BY <2>1, <2>2
<1>10. CASE WorkerLeave(w)
  <2>1. worker[w].pc = "leave" /\ pool' = tp_threadpool_release(pool) /\ worker' = [worker EXCEPT ![w] = NoWorker]
    BY <1>10 DEF WorkerLeave
  <2>2. worker'[w].pc = "none" /\ \A x \in Workers \ {w} : worker'[x].pc = worker[x].pc
    BY <1>0, <2>1 DEF NoWorker
  <2>3. AllW' = AllW - 1 /\ StayW' = StayW /\ RunW' = RunW /\ AllW > 0
    BY <1>0, <1>3, <2>1, <2>2, OneWorker, WorkersAre DEF One
  <2>4. /\ pool'.refcount = pool.refcount - 1 /\ pool'.objcount = pool.objcount
        /\ pool'.shutdown = pool.shutdown /\ pool'.num_workers = pool.num_workers
        /\ pool'.num_busy_workers = pool.num_busy_workers
        /\ pool'.life = IF pool.refcount = 1 THEN "gone" ELSE pool.life
    BY <1>0, <2>1, PoolReleaseIs
  <2>5. PoolBal'
    <3>1. PICK k \in Nat : k = One(pool.shutdown = FALSE) /\ k = One(pool'.shutdown = FALSE)
      BY <2>4 DEF One
    <3>2. PICK n \in Nat : n = Cardinality(Lives) /\ n = Cardinality(Lives)'
      BY <1>2, MarksAre
    <3>3. PICK a \in Nat : a = AllW
      BY <1>3
    <3>4. PICK m \in Int : m = a - 1
      OBVIOUS
    <3>5. pool.refcount \in Int /\ pool.refcount = k + n + a /\ pool.objcount = n /\ pool.num_workers = StayW
          /\ (pool.life = "gone" <=> pool.refcount = 0)
      BY <1>0, <3>1, <3>2, <3>3 DEF PoolBal, PoolOK, PoolRec
    <3>6. pool.refcount = k + a + n /\ a > 0
      BY <2>3, <3>3, <3>5
    <3>7. pool.refcount - 1 = k + m + n /\ (pool'.life = "gone" <=> pool.refcount - 1 = 0)
      BY <2>4, <3>4, <3>5, <3>6, LessOne
    <3>8. AllW' = m /\ k + m + n = k + n + m
      BY <2>3, <3>3, <3>4
    <3> QED BY <2>3, <2>4, <3>1, <3>2, <3>5, <3>7, <3>8 DEF PoolBal, PoolOK
  <2> QED BY <1>0, <1>1, <2>3, <2>4, <2>5, WorkersOnlyCounts
<1> QED BY <1>6, <1>7, <1>8, <1>9, <1>10

(* Workers. *)
LEMMA WorkerMovesCounts ==
  ASSUME BaseInv, BaseInv', CoreInv, CountInv, NEW w \in Workers, WorkerMoves(w)
  PROVE  CountInv'
  <1>1. WorkerStep(w) /\ UNCHANGED queueVars
    BY DEF WorkerMoves, InPool
  <1> QED BY <1>1, WorkerTakeCounts, WorkerReturnCounts, WorkerDestroyCounts, WorkerRestCounts DEF WorkerStep

(* A step that changes one object, and that no balance sees. *)
LEMMA QuietOne ==
  ASSUME CountInv, Shape, Shape', NEW o, KeptObj(o), o \in Objects => Alike(o, obj[o], obj'[o]), PendKept,
         WorkKept, pool' = pool, SameGroup(group, group'), pools' = pools, ioq'.objcount = ioq.objcount
  PROVE  CountInv'
  <1>1. ObjAlike
    BY OneAlike
  <1>2. SamePool(pool, pool') /\ pool'.num_busy_workers = pool.num_busy_workers
    BY DEF SamePool
  <1>3. Queued' <= Queued
    <2>1. Queued \in Nat /\ Queued' = Queued
      BY QueuedIs DEF Queued
    <2> QED BY <2>1
  <1> QED BY <1>1, <1>2, <1>3, QuietCounts

(* Workers that stay. *)
LEMMA WorkStill ==
  ASSUME worker' = worker
  PROVE  WorkKept
  BY DEF WorkKept, AllW, StayW, RunW

(* A callback is disassociated. *)
LEMMA DisassociateCounts ==
  ASSUME BaseInv, BaseInv', CoreInv, CountInv, NEW w \in Workers, TpDisassociateCallback(w), UNCHANGED queueVars
  PROVE  CountInv'
<1>0. Shape /\ Shape' /\ worker \in [Workers -> WorkerSet]
  BY DEF BaseInv, Shape
<1>1. /\ worker[w].pc = "callback" /\ pools' = pools /\ group' = group /\ pool' = pool /\ ioq' = ioq
      /\ worker' = [worker EXCEPT ![w].associated = FALSE]
  BY DEF TpDisassociateCallback, InCallback, queueVars, ioVars
<1>2. PICK o : o = worker[w].obj
  OBVIOUS
<1>3. o \in Objects /\ obj[o] \in ObjRec
  BY <1>0, <1>1, <1>2, RunsIs DEF Shape
<1>5. PICK n \in Int : n = obj[o].associated - 1
  BY <1>3 DEF ObjRec
<1>6. PICK e : e = [obj[o] EXCEPT !.associated = n]
  OBVIOUS
<1>7. e.life = obj[o].life /\ e.grouped = obj[o].grouped /\ e.shutdown = obj[o].shutdown
  BY <1>3, <1>6 DEF ObjRec
<1>8. obj' = [obj EXCEPT ![o] = e] /\ WakeWaiters(o, e, {"sleep"})
  BY <1>2, <1>5, <1>6 DEF TpDisassociateCallback
<1>9. obj'[o] = e /\ KeptObj(o)
  BY <1>0, <1>3, <1>8 DEF Shape, KeptObj
<1>10. PendKept
  <2>1. {"sleep"} \in SUBSET {"sleep", "gsleep"}
    OBVIOUS
  <2>2. \E x, y : \E events \in SUBSET {"sleep", "gsleep"} : WakeWaiters(x, y, events)
    BY <1>8, <2>1, Zenon
  <2> QED BY <1>0, <2>2, SubsWoken
<1>11. WorkKept
  <2>1. \A x \in Workers : SamePc(worker[x], worker'[x])
    BY <1>0, <1>1 DEF SamePc, WorkerSet, WorkerRec
  <2> QED BY <1>0, <2>1, StillWorkers
<1>12. Alike(o, obj[o], obj'[o])
  BY <1>7, <1>9 DEF Alike, Alive
<1> QED BY <1>0, <1>1, <1>9, <1>10, <1>11, <1>12, QuietOne DEF SameGroup

(* A callback says that it may run long. *)
LEMMA MayRunLongCounts ==
  ASSUME BaseInv, BaseInv', CountInv, NEW w \in Workers, TpCallbackMayRunLong(w), UNCHANGED queueVars
  PROVE  CountInv'
<1>0. Shape /\ Shape' /\ PoolBal /\ pool \in PoolRec
  BY DEF BaseInv, Shape, CountInv
<1>1. obj' = obj /\ pools' = pools /\ group' = group /\ caller' = caller /\ ioq' = ioq /\ worker[w].pc = "callback"
  BY DEF TpCallbackMayRunLong, InCallback, queueVars, ioVars
<1>2. worker \in [Workers -> WorkerSet] /\ worker[w] \in WorkerRec
  BY DEF BaseInv, Shape, WorkerSet
<1>3. PICK r : r = [worker[w] EXCEPT !.may_run_long = TRUE]
  OBVIOUS
<1>4. r.pc = worker[w].pc
  BY <1>2, <1>3 DEF WorkerRec
<1>5. Lives' = Lives
  BY <1>0, <1>1, StillObjects
<1>6. CASE worker' = [worker EXCEPT ![w].may_run_long = TRUE] /\ pool' = pool
  <2>1. \A x \in Workers : worker'[x] = IF x = w THEN r ELSE worker[x]
    BY <1>2, <1>3, <1>6
  <2>2. \A x \in Workers : SamePc(worker[x], worker'[x])
    BY <1>4, <2>1 DEF SamePc
  <2>3. WorkKept
    BY <1>0, <2>2, StillWorkers
  <2>4. PoolBal'
    BY <1>0, <1>5, <1>6, <2>3, PoolStays DEF SamePool, WorkKept
  <2> QED BY <1>0, <1>1, <1>6, <2>3, <2>4, WorkersOnlyCounts DEF WorkKept
<1>7. CASE /\ Spare # {}
           /\ worker' = [worker EXCEPT ![NewWorker] = [NoWorker EXCEPT !.pc = "run"],
                                       ![w].may_run_long = TRUE]
           /\ pool' = [pool EXCEPT !.refcount = @ + 1, !.num_workers = @ + 1]
  <2>0. PICK n : n = NewWorker
    OBVIOUS
  <2>1. n \in Workers /\ worker[n].pc = "none"
    BY <1>7, <2>0 DEF NewWorker, Spare
  <2>2. n # w
    BY <1>1, <2>1
  <2>3. \A x \in Workers : worker'[x] = IF x = w THEN r
                                        ELSE IF x = n THEN [NoWorker EXCEPT !.pc = "run"]
                                        ELSE worker[x]
    BY <1>2, <1>3, <1>7, <2>0, <2>1, <2>2
  <2>4. worker'[n].pc = "run" /\ \A x \in Workers \ {n} : worker'[x].pc = worker[x].pc
    BY <1>4, <2>1, <2>2, <2>3 DEF NoWorker
  <2>5. AllW \in Nat /\ StayW \in Nat /\ RunW \in Nat
    BY <1>0, WorkersAre
  <2>6. WorkMore
    BY <1>0, <2>1, <2>4, <2>5, OneWorker DEF One, WorkMore
  <2>7. pool.refcount > 0
    BY <1>0, <1>1, PoolAlive
  <2>8. /\ pool'.refcount = pool.refcount + 1 /\ pool'.num_workers = pool.num_workers + 1
        /\ pool'.objcount = pool.objcount /\ pool'.shutdown = pool.shutdown /\ pool'.life = pool.life
        /\ pool'.num_busy_workers = pool.num_busy_workers
    BY <1>0, <1>7 DEF PoolRec
  <2>9. PoolBal'
    BY <1>0, <1>5, <2>6, <2>7, <2>8, PoolGrows
  <2> QED BY <1>0, <1>1, <2>6, <2>8, <2>9, WorkersOnlyCounts DEF WorkMore
<1> QED
  BY <1>6, <1>7 DEF TpCallbackMayRunLong

(* A post is submitted with its count. *)
LEMMA PostSubmits ==
  ASSUME Shape, NEW o \in Objects, obj[o].life = "live"
  PROVE  Submittable(o, Counted(o), pool)
  BY CountedIs DEF Submittable, SamePool, Shape

(* A callback posts its object again. *)
LEMMA CallbackPostsCounts ==
  ASSUME BaseInv, BaseInv', CoreInv, CountInv, NEW w \in Workers, CallbackPosts(w), UNCHANGED queueVars
  PROVE  CountInv'
<1>0. Shape /\ Shape'
  BY DEF BaseInv
<1>1. worker[w].pc = "callback" /\ group' = group /\ caller' = caller /\ ioq' = ioq
  BY DEF CallbackPosts, InCallback, queueVars, ioVars
<1>2. PICK o : o = worker[w].obj
  OBVIOUS
<1>3. o \in Objects /\ WN(o).run > 0
  BY <1>0, <1>1, <1>2, RunsIs
<1>4. tp_object_submit(o, Counted(o), pool)
  BY <1>2 DEF CallbackPosts
<1>5. obj[o].life = "live"
  BY <1>0, <1>3, RefAlive
<1>6. Submittable(o, Counted(o), pool)
  BY <1>0, <1>3, <1>5, PostSubmits
<1>7. PendKept
  BY <1>0, <1>1, SubsWoken
<1>8. ioq'.objcount = ioq.objcount
  BY <1>1
<1> QED BY <1>0, <1>1, <1>3, <1>4, <1>6, <1>7, <1>8, SubmitCountsAll

(* A callback releases its object. *)
LEMMA CallbackReleasesCounts ==
  ASSUME BaseInv, BaseInv', CoreInv, CountInv, NEW w \in Workers, CallbackReleasesObject(w)
  PROVE  CountInv'
<1>0. Shape /\ Shape'
  BY DEF BaseInv
<1>1. /\ worker[w].pc = "callback" /\ pools' = pools /\ group' = group /\ pool' = pool /\ ioq' = ioq
      /\ worker' = worker /\ caller' = caller
  BY DEF CallbackReleasesObject, CallbackReleases, InCallback, tp_object_prepare_shutdown, ioVars
<1>2. PICK o : o = worker[w].obj
  OBVIOUS
<1>3. o \in Objects /\ obj[o] \in ObjRec
  BY <1>0, <1>1, <1>2, RunsIs DEF Shape
<1>4. PICK own : own = IF obj[o].owner = "user" THEN "none" ELSE obj[o].owner
  OBVIOUS
<1>5. own \in {"none", "user", "group"}
  BY <1>3, <1>4 DEF ObjRec
<1>6. obj' = [obj EXCEPT ![o] = Closed(obj[o], 1, own)] /\ Type[o] # "io"
  BY <1>2, <1>4 DEF CallbackReleasesObject, CallbackReleases
<1>7. PICK e : e = Closed(obj[o], 1, own)
  OBVIOUS
<1>8. ReleasedIs(obj[o], e, 1, own)
  BY <1>3, <1>5, <1>7, ReleaseIs
<1>9. obj'[o] = e /\ KeptObj(o)
  BY <1>0, <1>3, <1>6, <1>7 DEF Shape, KeptObj
<1>10. Alike(o, obj[o], obj'[o])
  <2>1. /\ obj[o].refcount = 1 => e.life = "dying"
        /\ obj[o].refcount # 1 => e.life = obj[o].life
        /\ e.grouped = obj[o].grouped
    BY <1>8 DEF ReleasedIs
  <2> QED BY <1>0, <1>3, <1>6, <1>9, <2>1, GivenAlike
<1>11. PendKept /\ WorkKept
  BY <1>0, <1>1, SubsWoken, WorkStill
<1> QED BY <1>0, <1>1, <1>9, <1>10, <1>11, QuietOne DEF SameGroup

(* A step that leaves the pool alone, and the number of I/O objects. *)
LEMMA QueuesOnlyCounts ==
  ASSUME BaseInv, BaseInv', CountInv, UNCHANGED poolVars, ioq'.objcount = ioq.objcount
  PROVE  CountInv'
  <1>0. Shape /\ Shape' /\ obj' = obj /\ caller' = caller /\ pools' = pools /\ group' = group /\ pool' = pool
        /\ worker' = worker
    BY DEF BaseInv, poolVars
  <1>1. Lives' = Lives /\ WorkKept
    BY <1>0, StillObjects, WorkStill
  <1>2. PoolBal'
    BY <1>0, <1>1, PoolStays DEF SamePool, WorkKept, CountInv
  <1> QED BY <1>0, <1>1, <1>2, WorkersOnlyCounts DEF WorkKept

(* What callbacks call. *)
LEMMA CallbackCallsCounts ==
  ASSUME BaseInv, BaseInv', CoreInv, CountInv, NEW w \in Workers, CallbackCalls(w)
  PROVE  CountInv'
<1>1. CASE InPool(TpDisassociateCallback(w))
  BY <1>1, DisassociateCounts DEF InPool
<1>2. CASE InPool(TpCallbackMayRunLong(w))
  BY <1>2, MayRunLongCounts DEF InPool
<1>3. CASE InPool(CallbackPosts(w))
  BY <1>3, CallbackPostsCounts DEF InPool
<1>4. CASE CallbackReleasesObject(w)
  BY <1>4, CallbackReleasesCounts
<1>5. CASE \E at \in Timeouts : CallbackSetsTimer(w, at)
  <2>1. UNCHANGED poolVars /\ ioq'.objcount = ioq.objcount
    BY <1>5 DEF CallbackSetsTimer, ioVars
  <2> QED BY <2>1, QueuesOnlyCounts
<1> QED
  BY <1>1, <1>2, <1>3, <1>4, <1>5 DEF CallbackCalls

-----------------------------------------------------------------------------
(* Steps of callers. *)

(* The group's balance, when only objects outside of it are submitted. *)
LEMMA GroupStaysBut ==
  ASSUME GroupBal, ObjAlike, \A x \in Objects : obj[x].grouped = TRUE => (Pend(x)' <=> Pend(x)),
         SameGroup(group, group')
  PROVE  GroupBal'
<1>1. \A x \in Objects : /\ Alive(obj'[x]) <=> Alive(obj[x])
                         /\ obj'[x].grouped = obj[x].grouped
                         /\ obj'[x].life = "none" <=> obj[x].life = "none"
  BY DEF ObjAlike, Alike
<1>2. Bound' = Bound
  BY <1>1 DEF Bound
<1>3. group'.shutdown = group.shutdown /\ GroupOK(group', Cardinality(Bound)')
  BY <1>2 DEF GroupBal, GroupOK, SameGroup
<1>4. group'.shutdown = TRUE => \A o \in Objects : obj'[o].grouped = TRUE => ~Pend(o)'
  BY <1>1, <1>3 DEF GroupBal
<1>5. \A o \in Objects : obj'[o].life = "none" => obj'[o].grouped = FALSE
  BY <1>1 DEF GroupBal
<1> QED BY <1>3, <1>4, <1>5 DEF GroupBal

(* The I/O queue's. *)
LEMMA IoStaysBut ==
  ASSUME IoBal, ObjAlike, ioq'.objcount = ioq.objcount
  PROVE  IoBal'
<1>1. Opens' = Opens
  BY KindsOfObjects DEF Opens, ObjAlike, Alike
<1> QED BY <1>1 DEF IoBal

(* A caller that is at the given point for o counts after the step. *)
LEMMA CallerCountsNext ==
  ASSUME Shape', NEW t \in Callers, NEW A, caller'[t] \in A
  PROVE  Cnt(caller', A) > 0
<1>1. DOMAIN caller' = Callers /\ IsFiniteSet(Callers)
  BY PoolConstants DEF Shape
<1>2. Cnt(caller', A) \in Nat /\ Cnt(caller', A) # 0
  BY <1>1, CntSome
<1> QED
  BY <1>2

(* The submission of a simple object, or of a timer. *)
LEMMA CallerSubmitCounts ==
  ASSUME BaseInv, BaseInv', CoreInv, CountInv, NEW t \in Callers, CallerSubmit(t), UNCHANGED queueVars
  PROVE  CountInv'
<1>0. Shape /\ Shape' /\ CallersInv /\ GroupBal /\ IoBal /\ caller \in [Callers -> CallerSet]
      /\ caller' \in [Callers -> CallerSet]
  BY DEF BaseInv, CoreInv, CountInv, Shape
<1>1. PICK o : o = caller[t].obj
  OBVIOUS
<1> DEFINE c == IF Type[o] # "simple" THEN Idle
                ELSE [caller[t] EXCEPT !.pc = IF obj[o].grouped THEN "join" ELSE "release"]
<1>2. /\ caller[t].pc = "submit" /\ tp_object_submit(o, obj[o], pool) /\ group' = group /\ ioq' = ioq
      /\ caller' = [caller EXCEPT ![t] = c]
  BY <1>1 DEF CallerSubmit, Goto, queueVars, ioVars
<1>3. /\ caller[t] \in CallerSet /\ o \in Objects /\ caller[t].list = <<>> /\ obj[o] \in ObjRec
      /\ \A x : x \notin Rng(caller[t].list)
  BY <1>0, <1>1, <1>2, InCallIs DEF Shape
<1>4. CN(o).sub > 0
  BY <1>0, <1>1, <1>2, <1>3, CallerCounts DEF CallsAt, CN
<1>5. obj[o].life = "live"
  BY <1>0, <1>3, <1>4, RefAlive
<1>6. Submittable(o, obj[o], pool)
  BY <1>0, <1>3, <1>5 DEF Submittable, SamePool, Shape
<1>7. ObjAlike /\ PoolBal' /\ BusyBal'
  BY <1>0, <1>2, <1>3, <1>6, SubmitCounts
<1>8. /\ Type[o] # "simple" => c = Idle
      /\ Type[o] = "simple" /\ obj[o].grouped = TRUE => c.pc = "join" /\ c.obj = o
      /\ Type[o] = "simple" => c.obj = o /\ c.list = <<>>
  BY <1>1, <1>3 DEF CallerSet, CallerRec
<1> HIDE DEF c
<1>9. \A x : x # o => ~InHand(caller[t], x) /\ ~InHand(c, x)
  BY <1>1, <1>3, <1>8, IdleIs, NoList DEF InHand
<1>10. KeptCall(o) /\ caller'[t] = c
  BY <1>0, <1>2, <1>9, CallerGoesOn
<1>11. ASSUME NEW x \in Objects, obj[x].grouped = TRUE
       PROVE  Pend(x)' <=> Pend(x)
  <2>1. CASE x # o
    <3>1. CN(x)' = CN(x)
      BY <1>10, <2>1 DEF KeptCall
    <3> QED BY <3>1 DEF Pend
  <2>2. CASE x = o /\ Type[o] # "simple"
    BY <2>2 DEF Pend
  <2>3. CASE x = o /\ Type[o] = "simple"
    <3>1. caller'[t] \in CallsAt(o, {"join"})
      BY <1>0, <1>8, <1>10, <1>11, <2>3 DEF CallsAt
    <3>2. CN(o)'.join > 0
      BY <1>0, <3>1, CallerCountsNext DEF CN
    <3> QED BY <1>4, <2>3, <3>2 DEF Pend
  <2> QED BY <2>1, <2>2, <2>3
<1>12. GroupBal'
  BY <1>0, <1>2, <1>7, <1>11, GroupStaysBut DEF SameGroup
<1>13. IoBal'
  BY <1>0, <1>2, <1>7, IoStaysBut
<1> QED BY <1>7, <1>12, <1>13 DEF CountInv

(* A simple object joins the group. *)
LEMMA SimpleJoinCounts ==
  ASSUME BaseInv, BaseInv', CoreInv, CountInv, NEW t \in Callers, SimpleJoin(t), UNCHANGED queueVars
  PROVE  CountInv'
<1>0. /\ Shape /\ Shape' /\ CallersInv /\ GroupBal /\ IoBal /\ PoolBal /\ BusyBal /\ ObjInv /\ IoShape
      /\ caller \in [Callers -> CallerSet] /\ caller' \in [Callers -> CallerSet]
  BY DEF BaseInv, CoreInv, CountInv, Shape
<1>1. PICK o : o = caller[t].obj
  OBVIOUS
<1> DEFINE c == [caller[t] EXCEPT !.pc = "release"]
<1>2. /\ caller[t].pc = "join" /\ pools' = pools /\ worker' = worker /\ pool' = pool /\ ioq' = ioq
      /\ group' = [group EXCEPT !.refcount = @ + 1, !.members = Append(@, o)]
      /\ obj' = [obj EXCEPT ![o] = [obj[o] EXCEPT !.member = TRUE]]
      /\ caller' = [caller EXCEPT ![t] = c]
  BY <1>1 DEF SimpleJoin, Goto, queueVars, ioVars
<1>3. /\ caller[t] \in CallerSet /\ o \in Objects /\ caller[t].list = <<>> /\ obj[o] \in ObjRec
      /\ \A x : x \notin Rng(caller[t].list)
  BY <1>0, <1>1, <1>2, InCallIs DEF Shape
<1>4. c.obj = o /\ c.list = <<>> /\ c.pc = "release"
  BY <1>1, <1>3 DEF CallerSet, CallerRec
<1> HIDE DEF c
<1>5. \A x : x # o => ~InHand(caller[t], x) /\ ~InHand(c, x)
  BY <1>1, <1>3, <1>4, NoList DEF InHand
<1>6. CallShift(o, caller[t], c) /\ KeptCall(o) /\ caller'[t] = c
  BY <1>0, <1>2, <1>5, CallerGoesOn
<1>7. CN(o).join > 0
  BY <1>0, <1>1, <1>2, <1>3, CallerCounts DEF CallsAt, CN
<1>8. /\ Type[o] = "simple" /\ obj[o].grouped = TRUE /\ CN(o).join = 1 /\ CN(o).sub = 0 /\ CN(o) \in CNum
      /\ Type[o] # "io"
  <2>1. ObjOK(o, obj[o], WN(o), CN(o), HN(o), PN(o), InService(o)) /\ CN(o) \in CNum
    BY <1>0, <1>3, GoodTyped
  <2>2. /\ Type[o] = "simple" /\ obj[o].grouped = TRUE /\ CN(o).join = 1
        /\ CN(o).sub > 0 => CN(o).join = 0
    BY <1>7, <2>1 DEF ObjOK, UsePart, SimplePart, GroupPart, CNum
  <2> QED BY <2>1, <2>2 DEF CNum
<1>9. obj[o].life = "live" /\ Pend(o)
  BY <1>0, <1>3, <1>7, <1>8, RefAlive DEF Pend
<1>10. ~Pend(o)'
  <2>1. /\ One(caller[t] \in CallsAt(o, {"submit"})) = 0 /\ One(caller[t] \in CallsAt(o, {"join"})) = 1
        /\ One(c \in CallsAt(o, {"submit"})) = 0 /\ One(c \in CallsAt(o, {"join"})) = 0
    BY <1>1, <1>2, <1>3, <1>4 DEF One, CallsAt
  <2>2. CN(o)'.sub = 0 /\ CN(o)'.join = 0
    BY <1>6, <1>8, <2>1 DEF CallShift, CNum
  <2> QED BY <2>2 DEF Pend
<1>11. /\ obj'[o].life = obj[o].life /\ obj'[o].grouped = TRUE /\ obj'[o].shutdown = obj[o].shutdown
       /\ KeptObj(o)
  BY <1>0, <1>2, <1>3, <1>8 DEF Shape, KeptObj, ObjRec
<1>12. /\ \A x \in Objects \ {o} : Alike(x, obj[x], obj'[x])
       /\ \A x \in Objects \ {o} : Pend(x)' <=> Pend(x)
  <2>1. \A x \in Objects \ {o} : CN(x)' = CN(x)
    BY <1>6 DEF KeptCall
  <2> QED BY <1>11, <2>1 DEF KeptObj, Alike, Pend
<1>13. ObjAlike
  BY <1>8, <1>11, <1>12 DEF ObjAlike, Alike, Alive
<1>14. PoolBal' /\ IoBal'
  <2>1. Lives' = Lives /\ AllW' = AllW /\ StayW' = StayW /\ SamePool(pool, pool')
    BY <1>2, <1>13, LivesSame, WorkStill DEF SamePool, WorkKept
  <2>2. ioq'.objcount = ioq.objcount
    BY <1>2
  <2> QED BY <1>0, <1>13, <2>1, <2>2, PoolStays, IoStaysBut
<1>15. BusyBal'
  BY <1>0, <1>2 DEF BusyBal, Queued, RunW
<1>16. BoundStep(o) /\ o \in Bound' /\ o \notin Bound
  BY <1>3, <1>9, <1>10, <1>11, <1>12, MarksStep DEF Bound, Alive
<1>17. group.shutdown = FALSE /\ group \in GroupRec
  <2>1. group \in GroupRec /\ group.shutdown \in BOOLEAN
    BY <1>0 DEF Shape, GroupRec
  <2> QED BY <1>0, <1>3, <1>8, <1>9, <2>1 DEF GroupBal
<1>18. /\ group'.refcount = group.refcount + 1 /\ group'.shutdown = FALSE /\ group'.life = group.life
       /\ group.refcount \in Int
  BY <1>2, <1>17 DEF GroupRec
<1>19. GroupOK(group', Cardinality(Bound)')
  <2>1. PICK n \in Nat : n = Cardinality(Bound)
    BY MarksAre
  <2>2. Cardinality(Bound)' = n + 1
    BY <1>16, <2>1 DEF BoundStep, One
  <2>3. One(group.shutdown = FALSE) = 1 /\ One(group'.shutdown = FALSE) = 1
    BY <1>17, <1>18 DEF One
  <2>4. group.refcount = 1 + n /\ (group.life = "gone" <=> group.refcount = 0)
    BY <1>0, <2>1, <2>3 DEF GroupBal, GroupOK
  <2>5. group'.refcount = 1 + (n + 1) /\ group'.life # "gone" /\ group'.refcount # 0
    BY <1>18, <2>4
  <2> QED BY <2>2, <2>3, <2>5 DEF GroupOK
<1>20. GroupBal'
  <2>1. \A x \in Objects : obj'[x].life = "none" => obj'[x].grouped = FALSE
    BY <1>0, <1>9, <1>11 DEF GroupBal, KeptObj
  <2> QED BY <1>18, <1>19, <2>1 DEF GroupBal
<1> QED BY <1>14, <1>15, <1>20 DEF CountInv

(* One caller goes on, outside of a submission. *)
LEMMA CallerQuiet ==
  ASSUME Shape, Shape', NEW t \in Callers, NEW c, caller' = [caller EXCEPT ![t] = c],
         caller[t].pc \notin {"submit", "join"}, c.pc \notin {"submit", "join"}
  PROVE  PendKept
<1>1. caller'[t] = c /\ \A x \in Callers \ {t} : caller'[x] = caller[x]
  BY DEF Shape
<1> QED BY <1>1, SubsOne

(* TpSimpleTryPost gives its reference back. *)
LEMMA SimpleReleaseCounts ==
  ASSUME BaseInv, BaseInv', CoreInv, CountInv, NEW t \in Callers, SimpleRelease(t), UNCHANGED queueVars
  PROVE  CountInv'
<1>0. Shape /\ Shape' /\ CallersInv
  BY DEF BaseInv, CoreInv
<1>1. PICK o : o = caller[t].obj
  OBVIOUS
<1> DEFINE c == IF obj[o].refcount = 1 THEN [caller[t] EXCEPT !.pc = "destroy"] ELSE Idle
<1>2. /\ caller[t].pc = "release" /\ pools' = pools /\ worker' = worker /\ group' = group /\ pool' = pool
      /\ ioq' = ioq
      /\ obj' = [obj EXCEPT ![o] = Dropped(@, 1)] /\ caller' = [caller EXCEPT ![t] = c]
  BY <1>1 DEF SimpleRelease, Goto, queueVars, ioVars
<1>3. caller[t] \in CallerSet /\ o \in Objects /\ obj[o] \in ObjRec
  BY <1>0, <1>1, <1>2, InCallIs DEF Shape
<1>4. c.pc \in {"destroy", "idle"}
  BY <1>3, IdleIs DEF CallerSet, CallerRec
<1> HIDE DEF c
<1>5. PendKept /\ WorkKept
  BY <1>0, <1>2, <1>4, CallerQuiet, WorkStill
<1>6. PICK e : e = Dropped(obj[o], 1)
  OBVIOUS
<1>7. GivenBack(obj[o], e, 1)
  BY <1>3, <1>6, DropGives
<1>8. obj'[o] = e /\ KeptObj(o)
  BY <1>0, <1>2, <1>3, <1>6 DEF Shape, KeptObj
<1>9. Alike(o, obj[o], obj'[o])
  BY <1>0, <1>3, <1>7, <1>8, GivenAlike DEF GivenBack
<1> QED BY <1>0, <1>2, <1>5, <1>8, <1>9, QuietOne DEF SameGroup

(* A caller destroys the object whose last reference it dropped. *)
LEMMA CallerDestroyCounts ==
  ASSUME BaseInv, BaseInv', CoreInv, CountInv, NEW t \in Callers, CallerDestroy(t), UNCHANGED queueVars
  PROVE  CountInv'
<1>0. Shape /\ Shape'
  BY DEF BaseInv
<1>1. PICK o : o = caller[t].obj
  OBVIOUS
<1>2. PICK pc \in {"idle", "gwait"} : pc = IF caller[t].list = <<>> THEN "idle" ELSE "gwait"
  OBVIOUS
<1> DEFINE c == [caller[t] EXCEPT !.obj = Nil, !.pc = pc]
<1>3. /\ caller[t].pc = "destroy" /\ tp_object_destroy(o) /\ worker' = worker /\ ioq' = ioq
      /\ caller' = [caller EXCEPT ![t] = c]
  BY <1>1, <1>2 DEF CallerDestroy, Goto, queueVars, ioVars
<1>4. caller[t] \in CallerSet /\ o \in Objects
  BY <1>0, <1>1, <1>3 DEF Shape, CallerSet
<1>5. c.pc = pc
  BY <1>4 DEF CallerSet, CallerRec
<1> HIDE DEF c
<1>6. PendKept /\ WorkKept
  BY <1>0, <1>3, <1>5, CallerQuiet, WorkStill
<1>7. CN(o).ends > 0
  BY <1>0, <1>1, <1>3, <1>4, CallerCounts DEF CallsAt, CN
<1>8. obj[o].life = "dying"
  BY <1>0, <1>4, <1>7, DyingIs
<1>9. ioq'.objcount = ioq.objcount
  BY <1>3
<1> QED BY <1>0, <1>3, <1>4, <1>6, <1>8, <1>9, DestroyCounts

(* Only a caller goes on. *)
LEMMA CallerOnlyCounts ==
  ASSUME BaseInv, BaseInv', CountInv, UNCHANGED <<pool, pools, obj, group, worker>>, PendKept,
         ioq'.objcount = ioq.objcount
  PROVE  CountInv'
<1>0. Shape /\ Shape'
  BY DEF BaseInv
<1>1. PICK o : o \notin Objects
  BY PoolConstants
<1>2. KeptObj(o) /\ WorkKept /\ SameGroup(group, group')
  BY WorkStill DEF KeptObj, SameGroup
<1> QED BY <1>0, <1>1, <1>2, QuietOne

(* A wait looks at its object. *)
LEMMA ObjectWaitCounts ==
  ASSUME BaseInv, BaseInv', CountInv, NEW t \in Callers, UNCHANGED queueVars, tp_object_wait(t) \/ GroupWait(t)
  PROVE  CountInv'
<1>0. Shape /\ Shape' /\ caller[t] \in CallerRec
  BY DEF BaseInv, Shape, CallerSet
<1>1. PICK o, h : o = caller[t].obj /\ h = Head(caller[t].list)
  OBVIOUS
<1>2. PICK c \in {Idle, [caller[t] EXCEPT !.pc = "sleep"], [caller[t] EXCEPT !.obj = h, !.pc = "gdrop"],
                  [caller[t] EXCEPT !.obj = h, !.pc = "gsleep"]} : caller' = [caller EXCEPT ![t] = c]
  BY <1>1 DEF tp_object_wait, GroupWait, Goto
<1>3. c.pc \notin {"submit", "join"}
  BY <1>0, <1>2, IdleIs DEF CallerRec
<1>4. caller[t].pc \notin {"submit", "join"} /\ UNCHANGED <<pool, pools, obj, group, worker>>
      /\ ioq'.objcount = ioq.objcount
  BY DEF tp_object_wait, GroupWait, queueVars, ioVars
<1>5. PendKept
  BY <1>0, <1>2, <1>3, <1>4, CallerQuiet
<1> QED BY <1>4, <1>5, CallerOnlyCounts

(* What a cancellation leaves to count: the object is alive, and fewer are  *)
(* queued.                                                                  *)
LEMMA CancelCounts ==
  ASSUME BaseInv, BaseInv', CoreInv, CountInv, NEW o \in Objects, tp_object_cancel(o),
         CN(o).keep > 0 \/ (obj[o].owner # "none" /\ obj[o].shutdown = FALSE),
         PendKept, UNCHANGED <<pool, group, worker>>, ioq'.objcount = ioq.objcount
  PROVE  CountInv'
<1>0. Shape /\ Shape' /\ ListedOK /\ obj[o] \in ObjRec
  BY DEF BaseInv, CoreInv, Shape
<1>1. obj[o].life = "live"
  BY <1>0, RefAlive
<1>2. ForgottenTo(obj[o], obj'[o]) /\ KeptObj(o)
  BY <1>0, CancelEffect DEF KeptObj
<1>3. Alike(o, obj[o], obj'[o])
  <2>1. obj'[o].life \in {"live", "dying"} /\ obj'[o].grouped = obj[o].grouped /\ obj'[o].shutdown = obj[o].shutdown
    BY <1>1, <1>2 DEF ForgottenTo
  <2> QED BY <1>1, <2>1 DEF Alike, Alive
<1>4. ObjAlike
  BY <1>2, <1>3, OneAlike
<1>5. PICK q \in 1..3 : q = Priority[o]
  BY PoolConstants
<1>6. pools \in PoolLists /\ pools[q] \in Seq(Objects)
  BY <1>0 DEF Shape, PoolLists
<1>7. PICK s : s = Without(pools[q], {o})
  OBVIOUS
<1>8. s \in Seq(Objects) /\ Len(s) <= Len(pools[q])
  BY <1>6, <1>7, WithoutIs
<1>9. pools' = [pools EXCEPT ![q] = s]
  BY <1>5, <1>7 DEF tp_object_cancel
<1>10. Queued' <= Queued
  <2>1. /\ Places(pools) \in Nat /\ Len(s) \in Nat /\ Len(pools[q]) \in Nat
        /\ Places(pools') = Places(pools) + Len(s) - Len(pools[q])
    BY <1>6, <1>8, <1>9, LenStep
  <2>2. PICK a \in Nat, b \in Nat, d \in Nat : a = Places(pools) /\ b = Len(s) /\ d = Len(pools[q])
    BY <2>1
  <2>3. Queued = a /\ Queued' = a + b - d /\ b <= d
    BY <1>0, <1>8, <2>1, <2>2, QueuedIs
  <2> QED BY <2>3
<1>11. WorkKept /\ SamePool(pool, pool') /\ SameGroup(group, group') /\ pool'.num_busy_workers = pool.num_busy_workers
  BY WorkStill DEF SamePool, SameGroup
<1> QED BY <1>0, <1>4, <1>10, <1>11, QuietCounts

(* A group release cancels a member. *)
LEMMA GroupCancelCounts ==
  ASSUME BaseInv, BaseInv', CoreInv, CountInv, NEW t \in Callers, GroupCancel(t), UNCHANGED queueVars
  PROVE  CountInv'
<1>0. Shape /\ Shape' /\ CallersInv
  BY DEF BaseInv, CoreInv
<1>1. /\ caller[t].pc = "gcancel" /\ caller[t] \in CallerSet /\ CallerGood(caller[t])
      /\ caller[t].todo \in Seq(Objects) /\ caller[t].todo # <<>>
  BY <1>0, CallerList DEF GroupCancel, CallersInv, CallerSet
<1>2. PICK o, s : o = Head(caller[t].todo) /\ s = Tail(caller[t].todo)
  OBVIOUS
<1>3. PICK pc \in {"gwait", "gcancel"} : pc = IF Len(caller[t].todo) = 1 THEN "gwait" ELSE "gcancel"
  OBVIOUS
<1>4. o \in Objects /\ s \in Seq(Objects) /\ Rng(caller[t].todo) = {o} \cup Rng(s)
  BY <1>1, <1>2, TailIs
<1> DEFINE c == [caller[t] EXCEPT !.todo = s, !.pc = pc]
<1>5. /\ tp_object_cancel(o) /\ caller' = [caller EXCEPT ![t] = c]
      /\ UNCHANGED <<pool, group, worker>> /\ ioq'.objcount = ioq.objcount
  BY <1>2, <1>3 DEF GroupCancel, Goto, queueVars, ioVars
<1>6. c.pc = pc
  BY <1>1 DEF CallerSet, CallerRec
<1> HIDE DEF c
<1>7. o \in Rng(caller[t].list)
  BY <1>1, <1>4 DEF CallerGood
<1>8. CN(o).keep > 0
  BY <1>0, <1>7, KeepIs
<1>9. PendKept
  BY <1>0, <1>1, <1>5, <1>6, CallerQuiet
<1> QED BY <1>4, <1>5, <1>8, <1>9, CancelCounts

(* A group release gives a member back. *)
LEMMA GroupDropCounts ==
  ASSUME BaseInv, BaseInv', CoreInv, CountInv, NEW t \in Callers, GroupDrop(t), UNCHANGED queueVars
  PROVE  CountInv'
<1>0. Shape /\ Shape' /\ ObjInv /\ IoShape
  BY DEF BaseInv, CoreInv
<1>1. /\ caller[t].pc = "gdrop" /\ caller[t].list \in Seq(Objects) /\ caller[t].list # <<>>
  BY <1>0, CallerList DEF GroupDrop
<1>2. PICK o, s : o = Head(caller[t].list) /\ s = Tail(caller[t].list)
  OBVIOUS
<1>3. o \in Objects /\ o \in Rng(caller[t].list) /\ obj[o] \in ObjRec
  BY <1>0, <1>1, <1>2, TailIs DEF Shape
<1>4. PICK n \in {1, 2} : n = IF ~obj[o].shutdown /\ Type[o] # "simple" THEN 2 ELSE 1
  OBVIOUS
<1> DEFINE c == IF obj[o].refcount = n
                  THEN [Idle EXCEPT !.pc = "destroy", !.obj = o, !.list = s]
                ELSE IF s = <<>> THEN Idle ELSE [Idle EXCEPT !.pc = "gwait", !.list = s]
<1>5. /\ obj' = [obj EXCEPT ![o] = Closed(@, n, "none")] /\ caller' = [caller EXCEPT ![t] = c]
      /\ UNCHANGED <<pool, pools, group, worker>> /\ ioq' = ioq
  BY <1>2, <1>4 DEF GroupDrop, Goto, queueVars, ioVars
<1>6. c.pc \in {"destroy", "idle", "gwait"}
  BY DEF Idle
<1> HIDE DEF c
<1>7. PendKept /\ WorkKept
  BY <1>0, <1>1, <1>5, <1>6, CallerQuiet, WorkStill
<1>8. PICK e : e = Closed(obj[o], n, "none")
  OBVIOUS
<1>9. ReleasedIs(obj[o], e, n, "none")
  BY <1>3, <1>8, ReleaseIs
<1>10. obj'[o] = e /\ KeptObj(o)
  BY <1>0, <1>3, <1>5, <1>8 DEF Shape, KeptObj
<1>11. Type[o] # "io"
  <2>1. CN(o).keep > 0
    BY <1>0, <1>3, KeepIs
  <2>2. ObjOK(o, obj[o], WN(o), CN(o), HN(o), PN(o), InService(o))
    BY <1>0, <1>3, GoodTyped
  <2>3. obj[o].grouped = TRUE /\ (Type[o] = "io" => obj[o].grouped = FALSE)
    BY <2>1, <2>2 DEF ObjOK, UsePart, GroupPart
  <2> QED BY <2>3
<1>12. Alike(o, obj[o], obj'[o])
  <2>1. /\ obj[o].refcount = n => e.life = "dying"
        /\ obj[o].refcount # n => e.life = obj[o].life
        /\ e.grouped = obj[o].grouped
    BY <1>9 DEF ReleasedIs
  <2> QED BY <1>0, <1>3, <1>10, <1>11, <2>1, GivenAlike
<1> QED BY <1>0, <1>5, <1>7, <1>10, <1>12, QuietOne DEF SameGroup

(* Callers inside of a call. *)
LEMMA CallerMovesCounts ==
  ASSUME BaseInv, BaseInv', CoreInv, CountInv, NEW t \in Callers, CallerMoves(t)
  PROVE  CountInv'
<1>1. CallerStep(t) /\ UNCHANGED queueVars
  BY DEF CallerMoves, InPool
<1> QED
  BY <1>1, CallerSubmitCounts, SimpleJoinCounts, SimpleReleaseCounts, CallerDestroyCounts, ObjectWaitCounts,
     GroupCancelCounts, GroupDropCounts DEF CallerStep

-----------------------------------------------------------------------------
(* Calls on objects. *)

(* The lock on the pool, for one more object. *)
LEMMA PoolLockCounts ==
  ASSUME Shape, Shape', PoolBal, tp_threadpool_lock, Cardinality(Lives)' = Cardinality(Lives) + 1
  PROVE  PoolBal' /\ RunW' = RunW /\ pool'.num_busy_workers = pool.num_busy_workers
<1>0. pool \in PoolRec /\ pool.refcount \in Int /\ pool.objcount \in Int /\ pool.num_workers \in Int
  BY DEF Shape, PoolRec
<1>1. PICK n \in Nat, k \in Nat, a \in Nat, b \in Nat :
        n = Cardinality(Lives) /\ k = One(pool.shutdown = FALSE) /\ a = AllW /\ b = StayW
  <2>1. One(pool.shutdown = FALSE) \in Nat
    BY DEF One
  <2> QED BY <2>1, WorkersAre, MarksAre
<1>2. /\ pool.refcount = k + n + a /\ pool.objcount = n /\ pool.num_workers = b
      /\ pool.life = "gone" <=> pool.refcount = 0
  BY <1>1 DEF PoolBal, PoolOK
<1>3. PICK r \in Int, m \in Int : r = pool.refcount + 1 /\ m = pool.objcount + 1
  BY <1>0
<1>4. PICK p : p = [pool EXCEPT !.refcount = r, !.objcount = m]
  OBVIOUS
<1>5. /\ p \in PoolRec /\ p.refcount = r /\ p.objcount = m /\ p.num_workers = pool.num_workers
      /\ p.shutdown = pool.shutdown /\ p.life = pool.life /\ p.num_busy_workers = pool.num_busy_workers
  BY <1>0, <1>4 DEF PoolRec
<1>6. /\ pool.life = "live"
      /\ (pool' = p /\ worker' = worker) \/ tp_new_worker_thread(p)
  BY <1>3, <1>4 DEF tp_threadpool_lock
<1>7. Cardinality(Lives)' = n + 1 /\ r = k + (n + 1) + a /\ m = n + 1 /\ r > 0
  BY <1>1, <1>2, <1>3
<1>8. CASE pool' = p /\ worker' = worker
  <2>1. AllW' = a /\ StayW' = b /\ RunW' = RunW
    BY <1>1, <1>8, WorkStill DEF WorkKept
  <2>2. One(pool'.shutdown = FALSE) = k
    BY <1>1, <1>5, <1>8
  <2>3. PoolOK(pool', n + 1, a, b)
    BY <1>2, <1>5, <1>6, <1>7, <1>8, <2>2 DEF PoolOK
  <2> QED BY <1>5, <1>7, <1>8, <2>1, <2>3 DEF PoolBal
<1>9. CASE tp_new_worker_thread(p)
  <2>1. WorkMore /\ pool' = [p EXCEPT !.refcount = @ + 1, !.num_workers = @ + 1]
    BY <1>5, <1>9, NewWorkerCounts
  <2>2. /\ pool'.refcount = r + 1 /\ pool'.num_workers = pool.num_workers + 1 /\ pool'.objcount = m
        /\ pool'.shutdown = pool.shutdown /\ pool'.life = "live"
        /\ pool'.num_busy_workers = pool.num_busy_workers
    BY <1>5, <1>6, <2>1 DEF PoolRec
  <2>3. AllW' = a + 1 /\ StayW' = b + 1 /\ RunW' = RunW
    BY <1>1, <2>1 DEF WorkMore
  <2>4. One(pool'.shutdown = FALSE) = k
    BY <1>1, <2>2
  <2>5. r + 1 = k + (n + 1) + (a + 1) /\ r + 1 # 0
    BY <1>7
  <2>6. PoolOK(pool', n + 1, a + 1, b + 1)
    BY <1>2, <1>7, <2>2, <2>4, <2>5 DEF PoolOK
  <2> QED BY <1>7, <2>2, <2>3, <2>6 DEF PoolBal
<1> QED BY <1>6, <1>8, <1>9

(* A fresh object: what is counted of it. *)
LEMMA FreshMarks ==
  ASSUME Shape, NEW o \in Objects, NEW grp \in BOOLEAN, obj[o].life = "none",
         obj' = [obj EXCEPT ![o] = tp_object_initialize(o, grp)],
         \A x \in Objects \ {o} : Pend(x)' <=> Pend(x)
  PROVE  /\ KeptObj(o) /\ obj'[o].life = "live" /\ obj'[o].grouped = grp /\ obj'[o].shutdown = FALSE
         /\ Cardinality(Lives)' = Cardinality(Lives) + 1
         /\ Cardinality(Bound)' = Cardinality(Bound) + One(grp /\ ~Pend(o)')
         /\ Cardinality(Opens)' = Cardinality(Opens) + One(Type[o] = "io")
         /\ \A x \in Objects \ {o} : Alike(x, obj[x], obj'[x])
<1>1. PICK e : e = tp_object_initialize(o, grp)
  OBVIOUS
<1>2. e.life = "live" /\ e.grouped = grp /\ e.shutdown = FALSE
  BY <1>1, InitializeIs
<1>3. obj'[o] = e /\ KeptObj(o)
  BY <1>1 DEF Shape, KeptObj
<1>4. \A x \in Objects \ {o} : Alike(x, obj[x], obj'[x])
  BY <1>3 DEF KeptObj, Alike
<1>5. LivesStep(o) /\ BoundStep(o) /\ OpensStep(o)
  BY <1>4, MarksStep
<1>6. /\ o \notin Lives /\ o \notin Bound /\ o \notin Opens /\ o \in Lives'
      /\ o \in Bound' <=> (grp /\ ~Pend(o)')
      /\ o \in Opens' <=> Type[o] = "io"
  BY <1>2, <1>3, KindsOfObjects DEF Lives, Bound, Opens, Alive
<1>7. /\ One(o \in Lives) = 0 /\ One(o \in Bound) = 0 /\ One(o \in Opens) = 0 /\ One(o \in Lives') = 1
      /\ One(o \in Bound') = One(grp /\ ~Pend(o)') /\ One(o \in Opens') = One(Type[o] = "io")
  BY <1>6 DEF One
<1>8. /\ Cardinality(Lives) \in Nat /\ Cardinality(Bound) \in Nat /\ Cardinality(Opens) \in Nat
      /\ One(grp /\ ~Pend(o)') \in Nat /\ One(Type[o] = "io") \in Nat
  BY MarksAre DEF One
<1>9. Cardinality(Lives)' = Cardinality(Lives) + 1
  BY <1>5, <1>7, <1>8 DEF LivesStep
<1>10. Cardinality(Bound)' = Cardinality(Bound) + One(grp /\ ~Pend(o)')
  BY <1>5, <1>7, <1>8 DEF BoundStep
<1>11. Cardinality(Opens)' = Cardinality(Opens) + One(Type[o] = "io")
  BY <1>5, <1>7, <1>8 DEF OpensStep
<1> QED BY <1>2, <1>3, <1>4, <1>9, <1>10, <1>11

(* The busy workers, when no item is queued or taken. *)
LEMMA BusyStays ==
  ASSUME BusyBal, pools' = pools, RunW' = RunW, pool'.num_busy_workers = pool.num_busy_workers
  PROVE  BusyBal'
  BY DEF BusyBal, Queued

(* An object is allocated; its queue does the rest. *)
LEMMA AllocCounts ==
  ASSUME BaseInv, BaseInv', CountInv, NEW t \in Callers, NEW o \in Objects, NEW grp \in BOOLEAN,
         TpAlloc(t, o, grp), ioq'.objcount = ioq.objcount + One(Type[o] = "io")
  PROVE  CountInv'
<1>0. Shape /\ Shape' /\ PoolBal /\ BusyBal /\ GroupBal /\ IoBal /\ group \in GroupRec
  BY DEF BaseInv, CountInv, Shape
<1>1. /\ obj[o].life = "none" /\ Type[o] # "simple" /\ tp_threadpool_lock
      /\ obj' = [obj EXCEPT ![o] = tp_object_initialize(o, grp)] /\ pools' = pools /\ caller' = caller
      /\ grp => group.shutdown # TRUE /\ group.life = "live"
                /\ group' = [group EXCEPT !.refcount = @ + 1, !.members = Append(@, o)]
      /\ ~grp => group' = group
  BY DEF TpAlloc
<1>2. PendKept /\ ~Pend(o)'
  BY <1>0, <1>1, SubsWoken DEF Pend
<1>3. \A x \in Objects \ {o} : Pend(x)' <=> Pend(x)
  BY <1>2 DEF PendKept
<1>4. /\ KeptObj(o) /\ obj'[o].life = "live" /\ obj'[o].grouped = grp /\ obj'[o].shutdown = FALSE
      /\ Cardinality(Lives)' = Cardinality(Lives) + 1
      /\ Cardinality(Bound)' = Cardinality(Bound) + One(grp /\ ~Pend(o)')
      /\ Cardinality(Opens)' = Cardinality(Opens) + One(Type[o] = "io")
  BY <1>0, <1>1, <1>3, FreshMarks
<1>5. PoolBal' /\ RunW' = RunW /\ pool'.num_busy_workers = pool.num_busy_workers
  BY <1>0, <1>1, <1>4, PoolLockCounts
<1>6. BusyBal'
  BY <1>0, <1>1, <1>5, BusyStays
<1>7. IoBal'
  BY <1>0, <1>4 DEF IoBal
<1>8. GroupOK(group', Cardinality(Bound)') /\ group'.shutdown = group.shutdown
  <2>1. CASE ~grp
    <3>1. Cardinality(Bound)' = Cardinality(Bound)
      BY <1>4, <2>1, MarksAre DEF One
    <3> QED BY <1>0, <1>1, <2>1, <3>1 DEF GroupBal
  <2>2. CASE grp
    <3>1. /\ group'.refcount = group.refcount + 1 /\ group'.shutdown = group.shutdown
          /\ group'.life = group.life /\ group.refcount \in Int
      <4>1. group.refcount \in Int
        BY <1>0 DEF GroupRec
      <4>2. PICK h : h = [group EXCEPT !.refcount = @ + 1, !.members = Append(@, o)]
        OBVIOUS
      <4>3. h.life = group.life /\ h.shutdown = group.shutdown /\ h.refcount = group.refcount + 1
        BY <1>0, <4>2, JoinIs
      <4> QED BY <1>1, <2>2, <4>1, <4>2, <4>3
    <3>2. PICK n \in Nat, k \in Nat : n = Cardinality(Bound) /\ k = One(group.shutdown = FALSE)
      BY MarksAre DEF One
    <3>3. Cardinality(Bound)' = n + 1
      BY <1>2, <1>4, <2>2, <3>2 DEF One
    <3>4. group.refcount = k + n /\ (group.life = "gone" <=> group.refcount = 0)
      BY <1>0, <3>2 DEF GroupBal, GroupOK
    <3>5. /\ One(group'.shutdown = FALSE) = k /\ group'.refcount = k + (n + 1)
          /\ group'.life # "gone" /\ group'.refcount # 0
      BY <1>1, <2>2, <3>1, <3>2, <3>4
    <3> QED BY <3>1, <3>3, <3>5 DEF GroupOK
  <2> QED BY <2>1, <2>2
<1>9. GroupBal'
  <2>1. group'.shutdown = TRUE => \A x \in Objects : obj'[x].grouped = TRUE => ~Pend(x)'
    BY <1>0, <1>2, <1>3, <1>4, <1>8 DEF GroupBal, KeptObj
  <2>2. \A x \in Objects : obj'[x].life = "none" => obj'[x].grouped = FALSE
    BY <1>0, <1>4 DEF GroupBal, KeptObj
  <2> QED BY <1>8, <2>1, <2>2 DEF GroupBal
<1> QED BY <1>5, <1>6, <1>7, <1>9 DEF CountInv

(* So with the queues. *)
LEMMA AllocAllCounts ==
  ASSUME BaseInv, BaseInv', CoreInv, CountInv, NEW t \in Callers, NEW o \in Objects, NEW grp \in BOOLEAN,
         \/ TpAllocWork(t, o, grp) \/ TpAllocTimer(t, o, grp) \/ TpAllocWait(t, o, grp)
         \/ TpAllocIoCompletion(t, o)
  PROVE  CountInv'
<1>0. ioq \in IoqRec /\ ioq.objcount \in Int
  BY DEF CoreInv, IoShape, IoState, IoqRec
<1>1. CASE TpAllocWork(t, o, grp) \/ TpAllocTimer(t, o, grp) \/ TpAllocWait(t, o, grp)
  <2>1. TpAlloc(t, o, grp) /\ Type[o] # "io" /\ ioq' = ioq
    BY <1>1 DEF TpAllocWork, TpAllocTimer, TpAllocWait, queueVars, ioVars
  <2>2. ioq'.objcount = ioq.objcount + One(Type[o] = "io")
    BY <1>0, <2>1 DEF One
  <2> QED BY <2>1, <2>2, AllocCounts
<1>2. CASE TpAllocIoCompletion(t, o)
  <2>1. TpAlloc(t, o, FALSE) /\ Type[o] = "io" /\ tp_ioqueue_lock(o)
    BY <1>2 DEF TpAllocIoCompletion
  <2>2. ioq'.objcount = ioq.objcount + 1
    BY <1>0, <2>1 DEF tp_ioqueue_lock, IoqRec
  <2>3. ioq'.objcount = ioq.objcount + One(Type[o] = "io")
    BY <2>1, <2>2 DEF One
  <2>4. FALSE \in BOOLEAN
    OBVIOUS
  <2> QED BY <2>1, <2>3, <2>4, AllocCounts
<1> QED BY <1>1, <1>2

(* TpSimpleTryPost allocates its object and goes on to submit it. *)
LEMMA SimpleTryPostCounts ==
  ASSUME BaseInv, BaseInv', CoreInv, CountInv, NEW t \in Callers, NEW o \in Objects, NEW grp \in BOOLEAN,
         TpSimpleTryPost(t, o, grp), UNCHANGED queueVars
  PROVE  CountInv'
<1>0. Shape /\ Shape' /\ PoolBal /\ BusyBal /\ GroupBal /\ IoBal /\ CallersInv
  BY DEF BaseInv, CountInv, CoreInv
<1>1. /\ obj[o].life = "none" /\ Type[o] = "simple" /\ tp_threadpool_lock /\ IsIdle(t)
      /\ obj' = [obj EXCEPT ![o] = tp_object_initialize(o, grp)] /\ pools' = pools /\ group' = group /\ ioq' = ioq
      /\ caller' = [caller EXCEPT ![t] = [Idle EXCEPT !.pc = "submit", !.obj = o]]
      /\ grp => group.shutdown # TRUE
  BY DEF TpSimpleTryPost, Goto, queueVars, ioVars
<1>2. KeptCall(o) /\ CN(o) \in CNum /\ CN(o)'.sub = CN(o).sub + 1
  <2>1. KeptCall(o) /\ CN(o) \in CNum /\ CN(o)'.sub = CN(o).sub + One("submit" = "submit")
    BY <1>0, <1>1, StartCounts
  <2> QED BY <2>1 DEF One
<1>3. Pend(o)' /\ \A x \in Objects \ {o} : Pend(x)' <=> Pend(x)
  <2>1. CN(o)'.sub > 0 /\ \A x \in Objects \ {o} : CN(x)' = CN(x)
    BY <1>2 DEF KeptCall, CNum
  <2> QED BY <1>1, <2>1 DEF Pend
<1>4. /\ KeptObj(o) /\ obj'[o].life = "live" /\ obj'[o].grouped = grp /\ obj'[o].shutdown = FALSE
      /\ Cardinality(Lives)' = Cardinality(Lives) + 1
      /\ Cardinality(Bound)' = Cardinality(Bound) + One(grp /\ ~Pend(o)')
      /\ Cardinality(Opens)' = Cardinality(Opens) + One(Type[o] = "io")
  BY <1>0, <1>1, <1>3, FreshMarks
<1>5. PoolBal' /\ RunW' = RunW /\ pool'.num_busy_workers = pool.num_busy_workers
  BY <1>0, <1>1, <1>4, PoolLockCounts
<1>6. BusyBal'
  BY <1>0, <1>1, <1>5, BusyStays
<1>7. Cardinality(Bound)' = Cardinality(Bound) /\ Cardinality(Opens)' = Cardinality(Opens)
  BY <1>1, <1>3, <1>4, MarksAre DEF One
<1>8. IoBal'
  BY <1>0, <1>1, <1>7 DEF IoBal
<1>9. GroupBal'
  <2>1. group'.shutdown = TRUE => \A x \in Objects : obj'[x].grouped = TRUE => ~Pend(x)'
    BY <1>0, <1>1, <1>3, <1>4 DEF GroupBal, KeptObj
  <2>2. \A x \in Objects : obj'[x].life = "none" => obj'[x].grouped = FALSE
    BY <1>0, <1>4 DEF GroupBal, KeptObj
  <2>3. GroupOK(group', Cardinality(Bound)')
    BY <1>0, <1>1, <1>7 DEF GroupBal
  <2> QED BY <2>1, <2>2, <2>3 DEF GroupBal
<1> QED BY <1>5, <1>6, <1>8, <1>9 DEF CountInv

(* TpPostWork *)
LEMMA PostWorkCounts ==
  ASSUME BaseInv, BaseInv', CoreInv, CountInv, NEW t \in Callers, NEW o \in Objects, TpPostWork(t, o),
         UNCHANGED queueVars
  PROVE  CountInv'
<1>0. Shape /\ Shape' /\ obj[o] \in ObjRec
  BY DEF BaseInv, Shape
<1>1. /\ obj[o].owner = "user" /\ obj[o].shutdown = FALSE /\ tp_object_submit(o, Counted(o), pool)
      /\ group' = group /\ caller' = caller /\ ioq'.objcount = ioq.objcount
  BY <1>0 DEF TpPostWork, Usable, ObjRec, queueVars, ioVars
<1>2. obj[o].life = "live"
  BY <1>0, <1>1, RefAlive
<1>3. Submittable(o, Counted(o), pool)
  BY <1>0, <1>2, PostSubmits
<1>4. PendKept
  BY <1>0, <1>1, SubsWoken
<1> QED BY <1>0, <1>1, <1>3, <1>4, SubmitCountsAll

(* A call for an object of its owner starts to wait. *)
LEMMA WaitForCounts ==
  ASSUME BaseInv, BaseInv', CoreInv, CountInv, NEW t \in Callers, NEW o \in Objects, NEW cancel \in BOOLEAN,
         TpWaitFor(t, o, cancel), UNCHANGED queueVars
  PROVE  CountInv'
<1>0. Shape /\ Shape' /\ obj[o] \in ObjRec
  BY DEF BaseInv, Shape
<1>1. PICK c : c = [Idle EXCEPT !.pc = "wait", !.obj = o]
  OBVIOUS
<1>2. /\ caller[t].pc = "idle" /\ obj[o].owner = "user" /\ obj[o].shutdown = FALSE
      /\ UNCHANGED <<pool, group, worker>> /\ ioq'.objcount = ioq.objcount
      /\ caller' = [caller EXCEPT ![t] = c]
      /\ cancel => tp_object_cancel(o)
      /\ ~cancel => UNCHANGED <<obj, pools>>
  BY <1>0, <1>1 DEF TpWaitFor, IsIdle, Usable, ObjRec, Goto, queueVars, ioVars
<1>3. c.pc = "wait"
  BY <1>1 DEF Idle
<1>4. PendKept
  BY <1>0, <1>2, <1>3, CallerQuiet
<1>5. CASE cancel
  <2>1. tp_object_cancel(o) /\ obj[o].owner # "none" /\ obj[o].shutdown = FALSE
    BY <1>2, <1>5
  <2> QED BY <1>2, <1>4, <2>1, CancelCounts
<1>6. CASE ~cancel
  BY <1>2, <1>4, <1>6, CallerOnlyCounts
<1> QED BY <1>5, <1>6

(* The caller that releases an object, and may go on to destroy it. *)
LEMMA ReleaseQuiet ==
  ASSUME Shape, Shape', NEW t \in Callers, NEW o \in Objects, TpRelease(t, o)
  PROVE  /\ PendKept /\ WorkKept /\ KeptObj(o) /\ pool' = pool /\ pools' = pools /\ group' = group
         /\ obj[o].owner = "user" /\ obj[o].shutdown = FALSE
         /\ obj'[o].shutdown = TRUE /\ obj'[o].grouped = obj[o].grouped
         /\ obj[o].refcount = 1 => obj'[o].life = "dying"
         /\ obj[o].refcount # 1 => obj'[o].life = obj[o].life
<1>0. obj[o] \in ObjRec
  BY DEF Shape
<1>1. PICK c : c = [Idle EXCEPT !.pc = "destroy", !.obj = o]
  OBVIOUS
<1>2. /\ caller[t].pc = "idle" /\ UNCHANGED <<pool, pools, group, worker>>
      /\ obj[o].owner = "user" /\ obj[o].shutdown = FALSE
      /\ obj' = [obj EXCEPT ![o] = Closed(obj[o], 1, "none")]
      /\ caller' = [caller EXCEPT ![t] = c] \/ caller' = [caller EXCEPT ![t] = caller[t]]
  BY <1>0, <1>1 DEF TpRelease, IsIdle, Usable, ObjRec, Goto
<1>3. c.pc = "destroy"
  BY <1>1 DEF Idle
<1>4. PendKept /\ WorkKept
  <2>1. CASE caller' = [caller EXCEPT ![t] = c]
    BY <1>2, <1>3, <2>1, CallerQuiet, WorkStill
  <2>2. CASE caller' = [caller EXCEPT ![t] = caller[t]]
    BY <1>2, <2>2, CallerQuiet, WorkStill
  <2> QED BY <1>2, <2>1, <2>2, WorkStill
<1>5. PICK e : e = Closed(obj[o], 1, "none")
  OBVIOUS
<1>6. ReleasedIs(obj[o], e, 1, "none")
  BY <1>0, <1>5, ReleaseIs
<1>7. obj'[o] = e /\ KeptObj(o)
  BY <1>2, <1>5 DEF Shape, KeptObj
<1> QED BY <1>2, <1>4, <1>6, <1>7 DEF ReleasedIs

(* TpReleaseWork, TpReleaseTimer and TpReleaseWait *)
LEMMA ReleaseObjectCounts ==
  ASSUME BaseInv, BaseInv', CoreInv, CountInv, NEW t \in Callers, NEW o \in Objects, TpReleaseObject(t, o)
  PROVE  CountInv'
<1>0. Shape /\ Shape'
  BY DEF BaseInv
<1>1. Type[o] # "io" /\ TpRelease(t, o) /\ ioq'.objcount = ioq.objcount
  BY DEF TpReleaseObject, tp_object_prepare_shutdown, ioVars
<1>2. /\ PendKept /\ WorkKept /\ KeptObj(o) /\ pool' = pool /\ pools' = pools /\ group' = group
      /\ obj'[o].grouped = obj[o].grouped
      /\ obj[o].refcount = 1 => obj'[o].life = "dying"
      /\ obj[o].refcount # 1 => obj'[o].life = obj[o].life
  BY <1>0, <1>1, ReleaseQuiet
<1>3. Alike(o, obj[o], obj'[o])
  BY <1>0, <1>1, <1>2, GivenAlike
<1> QED BY <1>0, <1>1, <1>2, <1>3, QuietOne DEF SameGroup

(* A timer is set; with the time zero the caller goes on to submit it. *)
LEMMA SetTimerCounts ==
  ASSUME BaseInv, BaseInv', CoreInv, CountInv, NEW t \in Callers, NEW o \in Timers, NEW at, NEW p, NEW n,
         TpSetTimer(t, o, at, p, n)
  PROVE  CountInv'
<1>0. Shape /\ Shape' /\ CallersInv
  BY DEF BaseInv, CoreInv
<1>1. o \in Objects /\ Type[o] = "timer"
  BY KindsOfObjects
<1>2. /\ IsIdle(t) /\ UNCHANGED <<pool, pools, obj, group, worker>> /\ ioq'.objcount = ioq.objcount
      /\ \/ caller' = caller
         \/ caller' = [caller EXCEPT ![t] = [Idle EXCEPT !.pc = "submit", !.obj = o]]
  BY DEF TpSetTimer, ioVars
<1>3. CASE caller' = caller
  BY <1>0, <1>2, <1>3, SubsWoken, CallerOnlyCounts
<1>4. CASE caller' = [caller EXCEPT ![t] = [Idle EXCEPT !.pc = "submit", !.obj = o]]
  <2>1. KeptCall(o)
    BY <1>0, <1>1, <1>2, <1>4, StartCounts
  <2>2. PendKept
    <3>1. \A x \in Objects \ {o} : CN(x)' = CN(x)
      BY <2>1 DEF KeptCall
    <3>2. Type[o] # "simple"
      BY <1>1
    <3> QED BY <3>1, <3>2 DEF PendKept, Pend
  <2> QED BY <1>2, <2>2, CallerOnlyCounts
<1> QED BY <1>2, <1>3, <1>4

(* The operations of an I/O object change. *)
LEMMA OpsCounts ==
  ASSUME BaseInv, BaseInv', CountInv, NEW o \in Objects, NEW n \in Int, obj' = [obj EXCEPT ![o].ops = n],
         pool' = pool, pools' = pools, group' = group, worker' = worker, PendKept, ioq'.objcount = ioq.objcount
  PROVE  CountInv'
<1>0. Shape /\ Shape' /\ obj[o] \in ObjRec
  BY DEF BaseInv, Shape
<1>1. PICK e : e = [obj[o] EXCEPT !.ops = n]
  OBVIOUS
<1>2. e.life = obj[o].life /\ e.grouped = obj[o].grouped /\ e.shutdown = obj[o].shutdown
  BY <1>0, <1>1 DEF ObjRec
<1>3. obj'[o] = e /\ KeptObj(o)
  BY <1>0, <1>1 DEF Shape, KeptObj
<1>4. Alike(o, obj[o], obj'[o])
  BY <1>2, <1>3 DEF Alike, Alive
<1> QED BY <1>0, <1>3, <1>4, WorkStill, QuietOne DEF SameGroup

(* The program starts an operation. *)
LEMMA StartIoCounts ==
  ASSUME BaseInv, BaseInv', CountInv, NEW t \in Callers, NEW o \in Objects, TpStartAsyncIoOperation(t, o)
  PROVE  CountInv'
<1>0. Shape /\ Shape' /\ obj[o] \in ObjRec
  BY DEF BaseInv, Shape
<1>1. PICK n \in Int : n = obj[o].ops + 1
  BY <1>0 DEF ObjRec
<1>2. /\ obj' = [obj EXCEPT ![o].ops = n] /\ pool' = pool /\ pools' = pools /\ group' = group
      /\ worker' = worker /\ caller' = caller /\ ioq'.objcount = ioq.objcount
  BY <1>0, <1>1 DEF TpStartAsyncIoOperation, Starts, Shape
<1>3. PendKept
  BY <1>0, <1>2, SubsWoken
<1> QED BY <1>2, <1>3, OpsCounts

(* The program takes an operation back. *)
LEMMA CancelIoCounts ==
  ASSUME BaseInv, BaseInv', CountInv, NEW t \in Callers, NEW o \in Objects, TpCancelAsyncIoOperation(t, o)
  PROVE  CountInv'
<1>0. Shape /\ Shape' /\ obj[o] \in ObjRec
  BY DEF BaseInv, Shape
<1>1. PICK n \in Int : n = obj[o].ops - 1
  BY <1>0 DEF ObjRec
<1>2. /\ obj' = [obj EXCEPT ![o] = [obj[o] EXCEPT !.ops = n]] /\ pool' = pool /\ pools' = pools /\ group' = group
      /\ worker' = worker /\ ioq'.objcount = ioq.objcount
      /\ WakeWaiters(o, [obj[o] EXCEPT !.ops = n], {"sleep", "gsleep"})
  BY <1>0, <1>1 DEF TpCancelAsyncIoOperation, TakesBack
<1>3. PendKept
  <2>1. {"sleep", "gsleep"} \in SUBSET {"sleep", "gsleep"}
    OBVIOUS
  <2>2. \E x, y : \E events \in SUBSET {"sleep", "gsleep"} : WakeWaiters(x, y, events)
    BY <1>2, <2>1, Zenon
  <2> QED BY <1>0, <2>2, SubsWoken
<1>4. obj' = [obj EXCEPT ![o].ops = n]
  BY <1>2
<1> QED BY <1>2, <1>3, <1>4, OpsCounts

(* An I/O object is shut down: one less that the queue counts. *)
LEMMA IoClosesCounts ==
  ASSUME CountInv, CoreInv, Shape, Shape', NEW o \in Objects, Type[o] = "io", obj[o].shutdown = FALSE,
         obj[o].life = "live", obj'[o].life \in {"live", "dying"}, obj'[o].shutdown = TRUE,
         obj'[o].grouped = obj[o].grouped, KeptObj(o), PendKept, WorkKept, pool' = pool, pools' = pools,
         group' = group, ioq'.objcount = ioq.objcount - 1
  PROVE  CountInv'
<1>0. PoolBal /\ BusyBal /\ GroupBal /\ IoBal /\ IoShape
  BY DEF CountInv, CoreInv
<1>1. \A x \in Objects \ {o} : Alike(x, obj[x], obj'[x])
  BY DEF KeptObj, Alike
<1>2. OpensStep(o) /\ o \in Opens /\ o \notin Opens'
  BY <1>1, MarksStep, KindsOfObjects DEF PendKept, Opens
<1>3. Lives' = Lives
  BY DEF Lives, Alive, KeptObj
<1>4. Bound' = Bound
  BY DEF Bound, Alive, KeptObj, PendKept
<1>5. PoolBal' /\ BusyBal'
  BY <1>0, <1>3, PoolStays, BusyStays DEF SamePool, WorkKept
<1>6. GroupBal'
  <2>1. \A x \in Objects : obj'[x].grouped = obj[x].grouped /\ (obj'[x].life = "none" => obj[x].life = "none")
    BY DEF KeptObj
  <2> QED BY <1>0, <1>4, <2>1 DEF GroupBal, PendKept
<1>7. IoBal'
  <2>1. PICK n \in Nat : n = Cardinality(Opens)
    BY MarksAre
  <2>2. One(o \in Opens) = 1 /\ One(o \in Opens') = 0
    BY <1>2 DEF One
  <2>3. Cardinality(Opens)' = n + 0 - 1
    BY <1>2, <2>1, <2>2 DEF OpensStep
  <2>4. ioq'.objcount = n - 1
    BY <1>0, <2>1 DEF IoBal
  <2>5. Cardinality(Opens)' = n - 1
    BY <2>3
  <2> QED BY <2>4, <2>5 DEF IoBal
<1> QED BY <1>5, <1>6, <1>7 DEF CountInv

(* The program releases an I/O object: at once, or by leaving it to the I/O *)
(* thread.                                                                  *)
LEMMA ReleaseIoCounts ==
  ASSUME BaseInv, BaseInv', CoreInv, CountInv, NEW t \in Callers, NEW o \in Objects, TpReleaseIoCompletion(t, o)
  PROVE  CountInv'
<1>0. Shape /\ Shape' /\ IoShape /\ obj[o] \in ObjRec
  BY DEF BaseInv, CoreInv, Shape
<1>1. Type[o] = "io" /\ obj[o].owner = "user" /\ obj[o].shutdown = FALSE
  BY <1>0 DEF TpReleaseIoCompletion, Usable, ObjRec
<1>2. obj[o].life = "live"
  BY <1>0, <1>1, RefAlive
<1>3. CASE obj[o].ops = 0 /\ obj[o].skipped = 0
  <2>1. TpRelease(t, o) /\ ioq' = [ioq EXCEPT !.objcount = @ - 1]
    BY <1>3 DEF TpReleaseIoCompletion, tp_ioqueue_unlock
  <2>2. ioq'.objcount = ioq.objcount - 1
    BY <1>0, <2>1 DEF IoShape, IoState, IoqRec
  <2>3. /\ PendKept /\ WorkKept /\ KeptObj(o) /\ pool' = pool /\ pools' = pools /\ group' = group
        /\ obj'[o].grouped = obj[o].grouped /\ obj'[o].shutdown = TRUE
        /\ obj[o].refcount = 1 => obj'[o].life = "dying"
        /\ obj[o].refcount # 1 => obj'[o].life = obj[o].life
    BY <1>0, <2>1, ReleaseQuiet
  <2>4. obj'[o].life \in {"live", "dying"}
    BY <1>2, <2>3
  <2> QED BY <1>0, <1>1, <1>2, <2>2, <2>3, <2>4, IoClosesCounts
<1>4. CASE ~(obj[o].ops = 0 /\ obj[o].skipped = 0)
  <2>1. /\ obj' = [obj EXCEPT ![o].owner = "none"] /\ pool' = pool /\ pools' = pools /\ group' = group
        /\ worker' = worker /\ caller' = caller /\ ioq'.objcount = ioq.objcount
    BY <1>4 DEF TpReleaseIoCompletion
  <2>2. PICK e : e = [obj[o] EXCEPT !.owner = "none"]
    OBVIOUS
  <2>3. e.life = obj[o].life /\ e.grouped = obj[o].grouped /\ e.shutdown = obj[o].shutdown
    BY <1>0, <2>2 DEF ObjRec
  <2>4. obj'[o] = e /\ KeptObj(o)
    BY <1>0, <2>1, <2>2 DEF Shape, KeptObj
  <2>5. Alike(o, obj[o], obj'[o])
    BY <2>3, <2>4 DEF Alike, Alive
  <2>6. PendKept /\ WorkKept
    BY <1>0, <2>1, SubsWoken, WorkStill
  <2> QED BY <1>0, <2>1, <2>4, <2>5, <2>6, QuietOne DEF SameGroup
<1> QED BY <1>3, <1>4

(* The calls on an object. *)
LEMMA ObjectCallsCounts ==
  ASSUME BaseInv, BaseInv', CoreInv, CountInv, NEW t \in Callers, NEW o \in Objects, ObjectCalls(t, o)
  PROVE  CountInv'
<1> DEFINE grp == o \in program.grouped
<1>1. grp \in BOOLEAN
  OBVIOUS
<1> HIDE DEF grp
<1>2. CASE /\ \/ TpAllocWork(t, o, grp) \/ TpAllocTimer(t, o, grp) \/ TpAllocWait(t, o, grp)
              \/ TpAllocIoCompletion(t, o)
           /\ UNCHANGED <<now, sets>>
  BY <1>1, <1>2, AllocAllCounts
<1>3. CASE InPool(TpSimpleTryPost(t, o, grp))
  BY <1>1, <1>3, SimpleTryPostCounts DEF InPool
<1>4. CASE InPool(TpPostWork(t, o))
  BY <1>4, PostWorkCounts DEF InPool
<1>5. CASE InPool(TpWaitFor(t, o, FALSE)) \/ InPool(TpWaitFor(t, o, TRUE))
  BY <1>5, WaitForCounts DEF InPool
<1>6. CASE TpReleaseObject(t, o) /\ UNCHANGED <<now, sets>>
  BY <1>6, ReleaseObjectCounts
<1>7. ASSUME o \in Timers, NEW at \in Timeouts, NEW p \in Periods, NEW n \in UsedWindows,
             TpSetTimer(t, o, at, p, n)
      PROVE  CountInv'
  BY <1>7, SetTimerCounts
<1>8. ASSUME NEW h, NEW d, TpSetWait(t, o, h, d)
      PROVE  CountInv'
  <2>1. UNCHANGED poolVars /\ ioq'.objcount = ioq.objcount
    BY <1>8 DEF TpSetWait, ioVars
  <2> QED BY <2>1, QueuesOnlyCounts
<1>9. CASE InIo(\/ TpStartAsyncIoOperation(t, o)
                \/ Can("cancelio") /\ TpCancelAsyncIoOperation(t, o)
                \/ Can("release") /\ TpReleaseIoCompletion(t, o))
  BY <1>9, StartIoCounts, CancelIoCounts, ReleaseIoCounts DEF InIo
<1> QED
  BY <1>2, <1>3, <1>4, <1>5, <1>6, <1>7, <1>8, <1>9 DEF ObjectCalls, grp
=============================================================================
