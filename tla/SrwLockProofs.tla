--------------------------- MODULE SrwLockProofs ---------------------------
(***************************************************************************)
(* Theorems about the slim reader/writer lock: its type, and its safety    *)
(* for any number of threads that acquire it in either mode, wait or try   *)
(* for the exclusive one.  The one entry point that the safety theorems    *)
(* leave out is RtlTryAcquireSRWLockShared: it can lose Hold, and with it  *)
(* mutual exclusion.                                                       *)
(***************************************************************************)
EXTENDS SrwLock, TLAPS, FiniteSetTheorems

(* The two constant words have the type of a lock word. *)
LEMMA FreeIsWord == Free \in Word /\ OneShared \in Word
  BY DEF Free, OneShared, Word, NodePtr

(* What the operators on lock words return is a lock word. *)
LEMMA WordOps ==
  ASSUME NEW w \in Word, NEW t \in Threads
  PROVE  /\ SetHold(w) \in Word
         /\ ClearHold(w) \in Word
         /\ SetLink(w) \in Word
         /\ ClearLink(w) \in Word
         /\ Released(w) \in Word
         /\ Enqueued(t, w) \in Word
         /\ TakenExclusive(w) \in Word
         /\ TakenShared(w) \in Word
         /\ TriedShared(w) \in Word
         /\ OneLess(w) \in Word
         /\ w.tail \in NodePtr
         /\ w.count \in Nat
<1>1. /\ w.tail \in NodePtr /\ w.count \in Nat
      /\ w.hold \in BOOLEAN /\ w.wait \in BOOLEAN
      /\ w.link \in BOOLEAN /\ w.many \in BOOLEAN
  BY DEF Word
<1>2. Enqueued(t, w) \in Word
  <2> DEFINE m == IF w.wait THEN w.many ELSE Exclusive(t) /\ w.count > 1
  <2>1. m \in BOOLEAN
    BY <1>1 DEF Exclusive
  <2>2. t \in NodePtr
    BY DEF NodePtr
  <2> QED
    BY <1>1, <2>1, <2>2 DEF Enqueued, Word
<1>3. /\ SetHold(w) \in Word
      /\ ClearHold(w) \in Word
      /\ SetLink(w) \in Word
      /\ ClearLink(w) \in Word
      /\ Released(w) \in Word
  BY DEF SetHold, ClearHold, SetLink, ClearLink, Released, Word
<1>4. \A u \in Word : \A c \in Nat : [u EXCEPT !.count = c] \in Word
  BY DEF Word
<1>5. TakenShared(w) \in Word /\ TriedShared(w) \in Word
  <2>1. w.count + 1 \in Nat
    BY <1>1
  <2>2. [w EXCEPT !.count = w.count + 1] \in Word
    BY <1>4, <2>1
  <2>3. SetHold(w).count = w.count
    BY DEF SetHold, Word
  <2>4. [SetHold(w) EXCEPT !.count = SetHold(w).count + 1] \in Word
    BY <1>3, <1>4, <2>1, <2>3
  <2> QED
    BY <1>3, <2>2, <2>4 DEF TakenShared, TriedShared
<1>6. OneLess(w) \in Word
  BY FreeIsWord DEF OneLess, Word
<1> QED
  BY <1>1, <1>2, <1>3, <1>5, <1>6 DEF TakenExclusive

(* TypeOK is not inductive alone: the wake-up phase follows first. *)
TypeInv == /\ TypeOK
           /\ \A t \in Threads :
                 pc[t] \in {"wakeChoose", "wakeUnlink", "wakeSignal", "wakeRelease"}
                   => first[t] \in Threads

(* Entering the compress and wake phases, or the slow path of a shared      *)
(* release, writes locals of the right type and does not touch first.       *)
LEMMA EnterType ==
  ASSUME TypeInv, NEW t \in Threads, NEW w \in Word,
         EnterWake(t, w) \/ EnterCompress(t, w)
  PROVE  /\ pc' \in [Threads -> PcSet]
         /\ arg' \in [Threads -> Word]
         /\ curr' \in [Threads -> NodePtr]
         /\ \A u \in Threads \ {t} : pc'[u] = pc[u]
         /\ pc'[t] \in {"compressWalk", "wakeHeld", "wakeWalk"}
<1>1. w.tail \in NodePtr
  BY WordOps
<1>2. \E l \in {"compressWalk", "wakeHeld", "wakeWalk"} :
         /\ pc' = [pc EXCEPT ![t] = l]
         /\ arg' = [arg EXCEPT ![t] = w]
         /\ curr' = [curr EXCEPT ![t] = w.tail]
  BY DEF EnterWake, EnterCompress, Goto
<1> QED
  BY <1>1, <1>2 DEF TypeInv, TypeOK, PcSet

(* So does a shared release that starts, or starts again, from a word. *)
LEMMA ReleaseFromType ==
  ASSUME TypeInv, NEW t \in Threads, NEW w \in Word, ReleaseSharedFrom(t, w)
  PROVE  /\ pc' \in [Threads -> PcSet]
         /\ old' \in [Threads -> Word]
         /\ curr' \in [Threads -> NodePtr]
         /\ \A u \in Threads \ {t} : pc'[u] = pc[u]
         /\ pc'[t] \in {"releaseS", "releaseWalk", "releaseLast"}
<1>1. w.tail \in NodePtr
  BY WordOps
<1>2. \E l \in {"releaseS", "releaseWalk", "releaseLast"} :
         /\ pc' = [pc EXCEPT ![t] = l]
         /\ old' = [old EXCEPT ![t] = w]
         /\ curr' = [curr EXCEPT ![t] = w.tail]
  BY DEF ReleaseSharedFrom, Goto
<1> QED
  BY <1>1, <1>2 DEF TypeInv, TypeOK, PcSet

(* Every step keeps every variable in its type. *)
LEMMA TypeStep == TypeInv /\ [Next]_vars => TypeInv'
<1> SUFFICES ASSUME TypeInv, [Next]_vars PROVE TypeInv'
  OBVIOUS
<1> USE DEF TypeInv, TypeOK, nodeVars, PcSet, CallSet
<1>1. /\ Nil \in NodePtr
      /\ \A n \in Threads : n \in NodePtr
      /\ \A n \in NodePtr : n # Nil => n \in Threads
  BY DEF NodePtr
<1>2. CASE UNCHANGED vars
  BY <1>2 DEF vars
<1>3. ASSUME NEW t \in Threads, Begin(t) \/ End(t) \/ Work(t)
      PROVE  TypeInv'
  <2>1. /\ SetHold(word) \in Word /\ ClearHold(word) \in Word
        /\ SetLink(word) \in Word /\ ClearLink(word) \in Word
        /\ Released(word) \in Word /\ Enqueued(t, word) \in Word
        /\ TakenExclusive(word) \in Word /\ TakenShared(word) \in Word
        /\ TriedShared(word) \in Word /\ OneLess(word) \in Word
        /\ word.count \in Nat
    BY WordOps
  <2>2. old[t] \in Word /\ arg[t] \in Word
    OBVIOUS
  <2>3. \A w \in Word : w.tail \in NodePtr
    BY WordOps
  <2>4. CASE RtlAcquireSRWLockExclusive(t)
    BY <2>4, <2>1 DEF RtlAcquireSRWLockExclusive, Goto
  <2>5. CASE RtlAcquireSRWLockShared(t)
    BY <2>5, <2>1, FreeIsWord DEF RtlAcquireSRWLockShared, Goto
  <2>6. CASE RtlTryAcquireSRWLockExclusive(t)
    BY <2>6, <2>1 DEF RtlTryAcquireSRWLockExclusive, Goto
  <2>7. CASE RtlTryAcquireSRWLockShared(t)
    BY <2>7, <2>1, FreeIsWord DEF RtlTryAcquireSRWLockShared, Goto
  <2>8. CASE RtlReleaseSRWLockExclusive(t)
    BY <2>8, <2>1 DEF RtlReleaseSRWLockExclusive, Goto
  <2>9. CASE RtlReleaseSRWLockShared(t)
    BY <2>9, FreeIsWord, ReleaseFromType DEF RtlReleaseSRWLockShared, Goto
  <2>10. CASE Reload(t)
    BY <2>10 DEF Reload, Goto
  <2>11. CASE Enqueue(t)
    <3>1. /\ word' \in Word
          /\ prev' \in [Threads -> NodePtr] /\ head' \in [Threads -> NodePtr]
          /\ next' \in [Threads -> NodePtr] /\ snap' \in [Threads -> Int]
          /\ excl' \in [Threads -> BOOLEAN] /\ spin' \in [Threads -> BOOLEAN]
          /\ UNCHANGED <<call, old, first>>
      BY <2>11, <1>1, <2>1, <2>3 DEF Enqueue, Exclusive
    <3>2. /\ pc' \in [Threads -> PcSet]
          /\ arg' \in [Threads -> Word] /\ curr' \in [Threads -> NodePtr]
          /\ \A u \in Threads \ {t} : pc'[u] = pc[u]
          /\ pc'[t] \in {"spin", "compressWalk", "wakeHeld", "wakeWalk"}
      <4>1. CASE EnterCompress(t, Enqueued(t, word))
        BY <4>1, <2>1, EnterType
      <4>2. CASE Goto(t, "spin") /\ UNCHANGED <<arg, curr>>
        BY <4>2 DEF Goto
      <4> QED
        BY <2>11, <4>1, <4>2 DEF Enqueue
    <3> QED
      BY <3>1, <3>2
  <2>12. CASE TakeLock(t)
    BY <2>12, <1>1, <2>1, FreeIsWord DEF TakeLock, Return, DropNode, Goto
  <2>13. CASE LoseRace(t)
    BY <2>13 DEF LoseRace, Goto
  <2>14. CASE Park(t)
    BY <2>14 DEF Park, Goto
  <2>15. CASE TryShared(t)
    BY <2>15, <1>1, <2>1, FreeIsWord DEF TryShared, Return, Goto
  <2>16. CASE ClaimWake(t)
    <3>1. CASE word = old[t]
      BY <2>16, <3>1, <2>1, EnterType DEF ClaimWake
    <3>2. CASE word # old[t]
      BY <2>16, <3>2, <1>1, FreeIsWord DEF ClaimWake, Return, Goto
    <3> QED
      BY <3>1, <3>2
  <2>17. CASE ReleaseCount(t)
    BY <2>17, <1>1, <2>1, FreeIsWord, ReleaseFromType DEF ReleaseCount, Return, Goto
  <2>18. CASE ReleaseWalk(t)
    BY <2>18, <1>1 DEF ReleaseWalk
  <2>19. CASE ReleaseSnapshot(t)
    BY <2>19, <1>1, FreeIsWord DEF ReleaseSnapshot, Return, Goto
  <2>20. CASE ReleaseLast(t)
    BY <2>20, <1>1, <2>1, FreeIsWord, EnterType DEF ReleaseLast, Return, Goto
  <2>21. CASE WalkBack(t)
    BY <2>21, <1>1 DEF WalkBack
  <2>22. CASE CompressFound(t)
    BY <2>22, <1>1 DEF CompressFound, Goto
  <2>23. CASE CompressDone(t)
    <3>1. CASE word = arg[t]
      BY <2>23, <3>1, <1>1, <2>1, FreeIsWord
      DEF CompressDone, AfterLinkWork, EndLinkWork, Goto
    <3>2. CASE word # arg[t]
      BY <2>23, <3>2, EnterType DEF CompressDone
    <3> QED
      BY <3>1, <3>2
  <2>24. CASE WakeHeld(t)
    <3>1. CASE word = arg[t]
      BY <2>24, <3>1, <1>1, <2>1, FreeIsWord
      DEF WakeHeld, AfterLinkWork, EndLinkWork, Goto
    <3>2. CASE word # arg[t]
      BY <2>24, <3>2, EnterType DEF WakeHeld
    <3> QED
      BY <3>1, <3>2
  <2>25. CASE WakeFound(t)
    BY <2>25, <1>1 DEF WakeFound, Goto
  <2>26. CASE WakeOneChosen(t)
    BY <2>26, <1>1 DEF WakeOneChosen, Goto
  <2>27. CASE WakeUnlink(t)
    BY <2>27, <2>1 DEF WakeUnlink, Goto
  <2>28. CASE WakeAllChosen(t)
    BY <2>28, <2>3, FreeIsWord, <1>1 DEF WakeAllChosen, EnterWake, Goto
  <2>29. CASE WakeSignal(t)
    BY <2>29, <1>1, FreeIsWord DEF WakeSignal, WakeNext, WakeNextPc, AfterLinkWork, EndLinkWork, Goto
  <2>30. CASE WakeRelease(t)
    BY <2>30, <1>1, FreeIsWord DEF WakeRelease, WakeNext, WakeNextPc, AfterLinkWork, EndLinkWork
  <2> QED
    BY <1>3, <2>4, <2>5, <2>6, <2>7, <2>8, <2>9, <2>10, <2>11, <2>12, <2>13, <2>14, <2>15, <2>16, <2>17, <2>18, <2>19, <2>20, <2>21, <2>22, <2>23, <2>24, <2>25, <2>26, <2>27, <2>28, <2>29, <2>30 DEF Begin, End, Work
<1> QED
  BY <1>2, <1>3 DEF Next

(* Type correctness: no pointer, flag or counter of the lock ever leaves    *)
(* its type, whichever entry points the threads call.                       *)
THEOREM TypeCorrect == Spec => []TypeOK
<1>1. Init => TypeInv
  BY FreeIsWord DEF Init, TypeInv, TypeOK, PcSet, CallSet, NodePtr
<1>2. TypeInv => TypeOK
  BY DEF TypeInv
<1> QED
  BY <1>1, <1>2, TypeStep, PTL DEF Spec

-----------------------------------------------------------------------------
NoSharedTry == \A t \in Threads : "TryAcquireShared" \notin Calls[t]

-----------------------------------------------------------------------------
(* The invariant: who owns the lock and what the word says of it.           *)

LinkWork == {"compressWalk", "compressCas", "wakeHeld", "wakeWalk", "wakeChoose",
             "wakeUnlink", "wakeSignal", "wakeRelease"}

(* The calls that threads are in, and where a Spin bit may be set. *)
Flow ==
    \A t \in Threads :
        /\ pc[t] # "tryCas" /\ call[t] # "TryAcquireShared"
        /\ pc[t] \in {"load", "cas", "spin", "blocked"} => Acquiring(t)
        /\ Acquiring(t) => pc[t] \in {"load", "cas", "spin", "blocked"} \cup LinkWork
        /\ spin[t] => Acquiring(t) /\ (pc[t] = "spin" \/ pc[t] \in LinkWork)

(* Link is set exactly while one thread works on the list, and only with a  *)
(* list to work on.                                                         *)
OwnsLink(t) == pc[t] \in {"compressWalk", "compressCas", "wakeHeld", "wakeWalk",
                          "wakeChoose", "wakeUnlink"}
LinkIsOwned == /\ word.link => word.wait
               /\ word.link <=> \E t \in Threads : OwnsLink(t)
               /\ \A t, u \in Threads : OwnsLink(t) /\ OwnsLink(u) => t = u

(* The shared owner that is to give up Hold. *)
Last == {t \in Threads : pc[t] = "releaseLast"}

(* Hold is set while somebody owns the lock; a writer is alone; the shared  *)
(* owners are counted in the word until a thread waits, and only Many tells *)
(* that there are several after that.                                       *)
Owners ==
    /\ word.hold <=> Writers # {} \/ SharedOwners # {}
    /\ \A t \in Writers : Writers = {t} /\ SharedOwners = {}
    /\ ~word.wait => word.count = Cardinality(SharedOwners) /\ ~word.many
    /\ word.wait => word.count = 0
    /\ word.wait /\ ~word.many => \A t, u \in SharedOwners : t = u
    /\ word.many => word.hold /\ Writers = {}
    /\ \A t \in Last : SharedOwners = {t} /\ word.wait

(* What a thread's copy of the word still says where it relies on it. *)
Copies ==
    \A t \in Threads :
        /\ pc[t] = "releaseX" => old[t].wait /\ ~old[t].hold /\ ~old[t].link
        /\ pc[t] = "releaseS" => ~old[t].wait
        /\ pc[t] = "releaseWalk" => word.many
        /\ pc[t] \in {"compressWalk", "compressCas", "wakeHeld"} => arg[t].hold
        /\ pc[t] \in {"wakeWalk", "wakeChoose"} => ~arg[t].hold
        /\ pc[t] \in {"wakeWalk", "wakeChoose", "wakeUnlink"} => ~word.many

WordInv == /\ TypeInv /\ Flow /\ LinkIsOwned /\ Owners /\ Copies /\ NoLostWakeup

-----------------------------------------------------------------------------
(* Lemmas about the operators.                                              *)

(* The fields of the words that the steps store. *)
LEMMA WordFields ==
  ASSUME NEW w \in Word, NEW t \in Threads
  PROVE  /\ SetHold(w).hold /\ SetHold(w).wait = w.wait /\ SetHold(w).link = w.link
         /\ SetHold(w).many = w.many /\ SetHold(w).count = w.count /\ SetHold(w).tail = w.tail
         /\ ~ClearHold(w).hold /\ ClearHold(w).wait = w.wait /\ ClearHold(w).link = w.link
         /\ ClearHold(w).many = w.many /\ ClearHold(w).count = w.count
         /\ ClearHold(w).tail = w.tail
         /\ SetLink(w).link /\ SetLink(w).hold = w.hold /\ SetLink(w).wait = w.wait
         /\ SetLink(w).many = w.many /\ SetLink(w).count = w.count /\ SetLink(w).tail = w.tail
         /\ ~ClearLink(w).link /\ ClearLink(w).hold = w.hold /\ ClearLink(w).wait = w.wait
         /\ ClearLink(w).many = w.many /\ ClearLink(w).count = w.count
         /\ ClearLink(w).tail = w.tail
         /\ Released(w).link /\ ~Released(w).hold /\ Released(w).wait = w.wait
         /\ ~Released(w).many /\ Released(w).count = w.count /\ Released(w).tail = w.tail
         /\ w.hold \in BOOLEAN /\ w.wait \in BOOLEAN /\ w.link \in BOOLEAN
         /\ w.many \in BOOLEAN /\ w.count \in Nat /\ w.tail \in NodePtr
  BY DEF Word, SetHold, ClearHold, SetLink, ClearLink, Released

(* The word after a thread has enqueued its node. *)
LEMMA EnqueuedFields ==
  ASSUME NEW w \in Word, NEW t \in Threads
  PROVE  /\ Enqueued(t, w).wait /\ Enqueued(t, w).hold = w.hold
         /\ Enqueued(t, w).link = w.wait /\ Enqueued(t, w).count = 0
         /\ Enqueued(t, w).tail = t
         /\ w.wait => Enqueued(t, w).many = w.many
         /\ ~w.wait => (Enqueued(t, w).many <=> Exclusive(t) /\ w.count > 1)
<1>1. Exclusive(t) \in BOOLEAN
  BY DEF Exclusive
<1>2. ~w.wait => Enqueued(t, w).many = (Exclusive(t) /\ w.count > 1)
  BY DEF Word, Enqueued
<1> QED
  BY <1>1, <1>2 DEF Word, Enqueued

(* The word after a shared acquire, and after the release of one of several. *)
LEMMA SharedFields ==
  ASSUME NEW w \in Word
  PROVE  /\ TakenShared(w).hold /\ TakenShared(w).wait = w.wait
         /\ TakenShared(w).link = w.link /\ TakenShared(w).many = w.many
         /\ TakenShared(w).tail = w.tail
         /\ TakenShared(w).count = IF w.wait THEN w.count ELSE w.count + 1
         /\ w.count > 1 => /\ OneLess(w).hold = w.hold /\ OneLess(w).wait = w.wait
                           /\ OneLess(w).link = w.link /\ OneLess(w).many = w.many
                           /\ OneLess(w).tail = w.tail /\ OneLess(w).count = w.count - 1
         /\ w.count <= 1 => OneLess(w) = Free
<1>1. w.count \in Nat
  BY DEF Word
<1>2. /\ TakenShared(w).hold /\ TakenShared(w).wait = w.wait
      /\ TakenShared(w).link = w.link /\ TakenShared(w).many = w.many
      /\ TakenShared(w).tail = w.tail
      /\ TakenShared(w).count = IF w.wait THEN w.count ELSE w.count + 1
  BY DEF Word, TakenShared, SetHold
<1>3. ASSUME w.count > 1
      PROVE  /\ OneLess(w).hold = w.hold /\ OneLess(w).wait = w.wait
             /\ OneLess(w).link = w.link /\ OneLess(w).many = w.many
             /\ OneLess(w).tail = w.tail /\ OneLess(w).count = w.count - 1
  BY <1>1, <1>3 DEF Word, OneLess
<1> QED
  BY <1>2, <1>3 DEF OneLess

(* A free lock, and one with a single shared owner. *)
LEMMA FreeFields ==
  /\ Free.hold = FALSE /\ Free.wait = FALSE /\ Free.link = FALSE /\ Free.many = FALSE
  /\ Free.count = 0 /\ Free.tail = Nil
  /\ OneShared.hold = TRUE /\ OneShared.wait = FALSE /\ OneShared.link = FALSE
  /\ OneShared.many = FALSE
  /\ OneShared.count = 1 /\ OneShared.tail = Nil
  BY DEF Free, OneShared

(* Where a thread is once it enters the compress or wake phase. *)
LEMMA EnterPlace ==
  ASSUME NEW t \in Threads, NEW w,
         EnterWake(t, w) \/ EnterCompress(t, w)
  PROVE  \E l \in {"compressWalk", "wakeHeld", "wakeWalk"} :
            /\ pc' = [pc EXCEPT ![t] = l]
            /\ arg' = [arg EXCEPT ![t] = w]
            /\ curr' = [curr EXCEPT ![t] = w.tail]
            /\ IF l = "wakeWalk" THEN ~w.hold ELSE w.hold
            /\ EnterWake(t, w) => l # "compressWalk"
  BY DEF EnterWake, EnterCompress, Goto

(* Where a thread is once it leaves them. *)
LEMMA LeavePlace ==
  ASSUME NEW t \in Threads, call \in [Threads -> CallSet], old \in [Threads -> Word],
         EndLinkWork(t)
  PROVE  /\ arg' = [arg EXCEPT ![t] = Free]
         /\ curr' = [curr EXCEPT ![t] = Nil]
         /\ first' = [first EXCEPT ![t] = Nil]
         /\ \/ /\ AfterLinkWork(t) = "spin" /\ Acquiring(t)
               /\ UNCHANGED <<call, old>>
            \/ /\ AfterLinkWork(t) = "idle" /\ ~Acquiring(t)
               /\ call' = [call EXCEPT ![t] = "None"]
               /\ old' = [old EXCEPT ![t] = Free]
<1>1. CASE Acquiring(t)
  <2>2. call' = [call EXCEPT ![t] = call[t]] /\ old' = [old EXCEPT ![t] = old[t]]
    BY <1>1 DEF EndLinkWork
  <2> QED
    BY <1>1, <2>2 DEF EndLinkWork, AfterLinkWork
<1>2. CASE ~Acquiring(t)
  BY <1>2 DEF EndLinkWork, AfterLinkWork
<1> QED
  BY <1>1, <1>2

(* Sets of owners are finite. *)
LEMMA CardZero ==
  ASSUME NEW S \in SUBSET Threads
  PROVE  /\ IsFiniteSet(S) /\ Cardinality(S) \in Nat
         /\ Cardinality(S) = 0 <=> S = {}
  BY ThreadsAreFinite, FS_Subset, FS_CardinalityType, FS_EmptySet

(* A set with at most one element. *)
LEMMA CardOne ==
  ASSUME NEW S \in SUBSET Threads, Cardinality(S) <= 1
  PROVE  \A u, v \in S : u = v
<1>1. Cardinality(S) = 0 \/ Cardinality(S) = 1
  BY CardZero
<1> QED
  BY <1>1, CardZero, FS_Singleton

(* Another owner, and one less. *)
LEMMA CardAdd ==
  ASSUME NEW S \in SUBSET Threads, NEW t \in Threads, t \notin S
  PROVE  Cardinality(S \cup {t}) = Cardinality(S) + 1
  BY CardZero, FS_AddElement

(* Removing a member of a set of threads. *)
LEMMA CardRemove ==
  ASSUME NEW S \in SUBSET Threads, NEW t \in S
  PROVE  /\ Cardinality(S \ {t}) = Cardinality(S) - 1
         /\ Cardinality(S) >= 1
         /\ Cardinality(S) = 1 => S = {t}
<1>1. Cardinality(S \ {t}) = Cardinality(S) - 1
  BY CardZero, FS_RemoveElement
<1>2. Cardinality(S \ {t}) \in Nat /\ (Cardinality(S \ {t}) = 0 <=> S \ {t} = {})
  <2>1. S \ {t} \in SUBSET Threads
    OBVIOUS
  <2> QED
    BY <2>1, CardZero
<1> QED
  BY <1>1, <1>2, CardZero

SharedPcs == {"heldS", "releaseS", "releaseWalk", "releaseLast"}

(* What the move of one thread does to the sets of owners. *)
LEMMA OwnerSets ==
  ASSUME pc \in [Threads -> PcSet], NEW t \in Threads, NEW l, pc' = [pc EXCEPT ![t] = l]
  PROVE  /\ Writers' = IF l = "heldX" THEN Writers \cup {t} ELSE Writers \ {t}
         /\ SharedOwners' = IF l \in SharedPcs THEN SharedOwners \cup {t} ELSE SharedOwners \ {t}
         /\ Last' = IF l = "releaseLast" THEN Last \cup {t} ELSE Last \ {t}
         /\ Writers \in SUBSET Threads /\ SharedOwners \in SUBSET Threads
         /\ Last \in SUBSET SharedOwners
         /\ t \in Writers <=> pc[t] = "heldX"
         /\ t \in SharedOwners <=> pc[t] \in SharedPcs
         /\ t \in Last <=> pc[t] = "releaseLast"
BY DEF Writers, SharedOwners, Last, SharedPcs

(* A move that concerns no owner. *)
LEMMA SameOwners ==
  ASSUME pc \in [Threads -> PcSet], NEW t \in Threads, NEW l, pc' = [pc EXCEPT ![t] = l],
         pc[t] \notin SharedPcs \cup {"heldX"}, l \notin SharedPcs \cup {"heldX"}
  PROVE  Writers' = Writers /\ SharedOwners' = SharedOwners /\ Last' = Last
BY OwnerSets DEF Writers, SharedOwners, Last, SharedPcs
-----------------------------------------------------------------------------
(* Every step keeps WordInv.                                                *)

WordGoal == (Flow /\ LinkIsOwned /\ Owners /\ Copies /\ NoLostWakeup)'

(* The frame of a step of t that moves t alone and leaves the word as it    *)
(* is, between places where t owns nothing.                                 *)
LEMMA QuietStep ==
  ASSUME WordInv, NEW t \in Threads, NEW l, pc' = [pc EXCEPT ![t] = l], word' = word,
         pc[t] \notin SharedPcs \cup {"heldX"}, l \notin SharedPcs \cup {"heldX", "tryCas"},
         OwnsLink(t) <=> OwnsLink(t)',
         \A u \in Threads \ {t} : /\ call'[u] = call[u] /\ old'[u] = old[u] /\ arg'[u] = arg[u]
                                  /\ spin'[u] = spin[u],
         call'[t] # "TryAcquireShared",
         l \in {"load", "cas", "spin", "blocked"} => Acquiring(t)',
         Acquiring(t)' => l \in {"load", "cas", "spin", "blocked"} \cup LinkWork,
         spin'[t] => Acquiring(t)' /\ (l = "spin" \/ l \in LinkWork),
         l # "releaseX",
         l \in {"compressWalk", "compressCas", "wakeHeld"} => arg'[t].hold,
         l \in {"wakeWalk", "wakeChoose"} => ~arg'[t].hold,
         l \in {"wakeWalk", "wakeChoose", "wakeUnlink"} => ~word.many,
         \/ l \in {"load", "cas", "wakeSignal", "wakeRelease"}
         \/ l = "spin" /\ ~spin'[t]
         \/ /\ pc[t] \notin {"load", "cas", "wakeSignal", "wakeRelease"}
            /\ ~(pc[t] = "spin" /\ ~spin[t])
            /\ ~(pc[t] = "releaseX" /\ old[t] = word)
         \/ word.hold \/ ~word.wait \/ word.link
  PROVE  WordGoal
<1>0. /\ pc \in [Threads -> PcSet] /\ pc'[t] = l
      /\ \A u \in Threads \ {t} : pc'[u] = pc[u]
  BY DEF WordInv, TypeInv, TypeOK
<1>1. Flow'
  BY <1>0 DEF WordInv, Flow, Acquiring
<1>2. LinkIsOwned'
  <2>1. \A u \in Threads : OwnsLink(u)' <=> OwnsLink(u)
    BY <1>0 DEF OwnsLink
  <2> QED
    BY <2>1 DEF WordInv, LinkIsOwned
<1>3. Owners'
  <2>1. Writers' = Writers /\ SharedOwners' = SharedOwners /\ Last' = Last
    BY <1>0, SameOwners
  <2> QED
    BY <2>1 DEF WordInv, Owners
<1>4. Copies'
  BY <1>0 DEF WordInv, Copies, SharedPcs
<1>5. NoLostWakeup'
  BY <1>0 DEF WordInv, NoLostWakeup
<1> QED
  BY <1>1, <1>2, <1>3, <1>4, <1>5 DEF WordGoal
(* The steps that only read the word, or lose a race for it. *)
LEMMA QuietSteps ==
  ASSUME WordInv, NEW t \in Threads,
         \/ Reload(t) \/ LoseRace(t) \/ Park(t) \/ WalkBack(t) \/ CompressFound(t)
         \/ WakeFound(t) \/ WakeOneChosen(t)
         \/ RtlAcquireSRWLockExclusive(t) /\ word.hold
         \/ RtlAcquireSRWLockShared(t) /\ word # Free
         \/ ClaimWake(t) /\ word # old[t]
         \/ CompressDone(t) /\ word # arg[t]
         \/ WakeHeld(t) /\ word # arg[t]
         \/ WakeAllChosen(t) /\ word # arg[t]
  PROVE  WordGoal
<1>0. /\ pc \in [Threads -> PcSet] /\ call \in [Threads -> CallSet] /\ old \in [Threads -> Word]
      /\ arg \in [Threads -> Word] /\ spin \in [Threads -> BOOLEAN] /\ word \in Word
      /\ Flow /\ LinkIsOwned /\ Owners /\ Copies
  BY DEF WordInv, TypeInv, TypeOK
<1>1. CASE Reload(t)
  <2>1. /\ pc[t] = "load" /\ pc' = [pc EXCEPT ![t] = "cas"] /\ word' = word
        /\ UNCHANGED <<call, arg, spin>> /\ old' = [old EXCEPT ![t] = word]
    BY <1>0, <1>1 DEF Reload, Goto, Flow, nodeVars
  <2> QED
    BY <1>0, <2>1, QuietStep DEF OwnsLink, Flow, Acquiring, SharedPcs, LinkWork
<1>2. CASE LoseRace(t)
  <2>1. /\ pc[t] = "cas" /\ pc' = [pc EXCEPT ![t] = "load"]
        /\ UNCHANGED <<word, call, arg, spin, old>>
    BY <1>0, <1>2 DEF LoseRace, Goto, Flow, nodeVars
  <2> QED
    BY <1>0, <2>1, QuietStep DEF OwnsLink, Flow, Acquiring, SharedPcs, LinkWork
<1>3. CASE Park(t)
  <2>1. /\ pc[t] = "spin" /\ pc' = [pc EXCEPT ![t] = IF spin[t] THEN "blocked" ELSE "cas"]
        /\ UNCHANGED <<word, call, arg, old>> /\ spin' = [spin EXCEPT ![t] = FALSE]
    BY <1>0, <1>3 DEF Park, Goto
  <2>2. CASE spin[t]
    BY <1>0, <2>1, <2>2, QuietStep DEF OwnsLink, Flow, Acquiring, SharedPcs, LinkWork
  <2>3. CASE ~spin[t]
    BY <1>0, <2>1, <2>3, QuietStep DEF OwnsLink, Flow, Acquiring, SharedPcs, LinkWork
  <2> QED
    BY <2>2, <2>3
<1>4. CASE WalkBack(t)
  <2>1. /\ pc[t] \in {"compressWalk", "wakeWalk"} /\ pc' = [pc EXCEPT ![t] = pc[t]]
        /\ UNCHANGED <<word, pc, call, arg, old, spin>>
    BY <1>0, <1>4 DEF WalkBack
  <2> QED
    BY <1>0, <2>1, QuietStep DEF OwnsLink, Flow, Acquiring, SharedPcs, LinkWork, Copies
<1>5. CASE CompressFound(t)
  <2>1. /\ pc[t] = "compressWalk" /\ pc' = [pc EXCEPT ![t] = "compressCas"]
        /\ UNCHANGED <<word, call, arg, old, spin>>
    BY <1>0, <1>5 DEF CompressFound, Goto
  <2> QED
    BY <1>0, <2>1, QuietStep DEF OwnsLink, Flow, Acquiring, SharedPcs, LinkWork, Copies
<1>6. CASE WakeFound(t)
  <2>1. /\ pc[t] = "wakeWalk" /\ pc' = [pc EXCEPT ![t] = "wakeChoose"]
        /\ UNCHANGED <<word, call, arg, old, spin>>
    BY <1>0, <1>6 DEF WakeFound, Goto
  <2> QED
    BY <1>0, <2>1, QuietStep DEF OwnsLink, Flow, Acquiring, SharedPcs, LinkWork, Copies
<1>7. CASE WakeOneChosen(t)
  <2>1. /\ pc[t] = "wakeChoose" /\ pc' = [pc EXCEPT ![t] = "wakeUnlink"]
        /\ UNCHANGED <<word, call, arg, old, spin>>
    BY <1>0, <1>7 DEF WakeOneChosen, Goto
  <2> QED
    BY <1>0, <2>1, QuietStep DEF OwnsLink, Flow, Acquiring, SharedPcs, LinkWork, Copies
<1>8. CASE RtlAcquireSRWLockExclusive(t) /\ word.hold
  <2>1. /\ pc[t] = "idle" /\ pc' = [pc EXCEPT ![t] = "load"]
        /\ call' = [call EXCEPT ![t] = "AcquireExclusive"]
        /\ UNCHANGED <<word, arg, old, spin>>
    BY <1>0, <1>8 DEF RtlAcquireSRWLockExclusive, Goto, nodeVars
  <2> QED
    BY <1>0, <2>1, QuietStep DEF OwnsLink, Flow, Acquiring, SharedPcs, LinkWork
<1>9. CASE RtlAcquireSRWLockShared(t) /\ word # Free
  <2>1. /\ pc[t] = "idle" /\ pc' = [pc EXCEPT ![t] = "cas"]
        /\ call' = [call EXCEPT ![t] = "AcquireShared"]
        /\ UNCHANGED <<word, arg, spin>> /\ old' = [old EXCEPT ![t] = word]
    BY <1>0, <1>9 DEF RtlAcquireSRWLockShared, Goto, nodeVars
  <2> QED
    BY <1>0, <2>1, QuietStep DEF OwnsLink, Flow, Acquiring, SharedPcs, LinkWork
<1>10. CASE ClaimWake(t) /\ word # old[t]
  <2>1. /\ pc[t] = "releaseX" /\ pc' = [pc EXCEPT ![t] = "idle"]
        /\ call' = [call EXCEPT ![t] = "None"] /\ old' = [old EXCEPT ![t] = Free]
        /\ arg' = [arg EXCEPT ![t] = Free]
        /\ UNCHANGED <<word, spin>>
    BY <1>0, <1>10 DEF ClaimWake, Return, Goto, nodeVars
  <2> QED
    BY <1>0, <1>10, <2>1, QuietStep DEF OwnsLink, Flow, Acquiring, SharedPcs, LinkWork
<1>11. CASE (CompressDone(t) \/ WakeHeld(t) \/ WakeAllChosen(t)) /\ word # arg[t]
  <2>1. PICK l \in {"compressWalk", "wakeHeld", "wakeWalk"} :
            /\ pc' = [pc EXCEPT ![t] = l]
            /\ arg' = [arg EXCEPT ![t] = word]
            /\ IF l = "wakeWalk" THEN ~word.hold ELSE word.hold
    BY <1>11, EnterPlace DEF CompressDone, WakeHeld, WakeAllChosen
  <2>2. pc[t] \in {"compressCas", "wakeHeld", "wakeChoose"} /\ UNCHANGED <<word, call, old, spin>>
    BY <1>11 DEF CompressDone, WakeHeld, WakeAllChosen, nodeVars
  <2>3. word.link /\ (word.many => word.hold)
    BY <1>0, <2>2 DEF LinkIsOwned, OwnsLink, Owners
  <2>4. /\ OwnsLink(t) /\ OwnsLink(t)' /\ arg'[t] = word
        /\ \A u \in Threads \ {t} : arg'[u] = arg[u]
    BY <1>0, <2>1, <2>2 DEF OwnsLink
  <2>5. l \in LinkWork
    BY DEF LinkWork
  <2> QED
    BY <1>0, <2>1, <2>2, <2>3, <2>4, <2>5, QuietStep DEF Flow, Acquiring, SharedPcs
<1> QED
  BY <1>1, <1>2, <1>3, <1>4, <1>5, <1>6, <1>7, <1>8, <1>9, <1>10, <1>11

(* A thread takes the lock. *)
LEMMA TakeSteps ==
  ASSUME WordInv, NEW t \in Threads,
         \/ RtlAcquireSRWLockExclusive(t) /\ ~word.hold
         \/ RtlAcquireSRWLockShared(t) /\ word = Free
         \/ RtlTryAcquireSRWLockExclusive(t)
         \/ TakeLock(t)
  PROVE  WordGoal
<1>0. /\ pc \in [Threads -> PcSet] /\ call \in [Threads -> CallSet] /\ old \in [Threads -> Word]
      /\ arg \in [Threads -> Word] /\ spin \in [Threads -> BOOLEAN] /\ word \in Word
      /\ Flow /\ LinkIsOwned /\ Owners /\ Copies /\ NoLostWakeup
  BY DEF WordInv, TypeInv, TypeOK
<1>w. /\ word.hold \in BOOLEAN /\ word.wait \in BOOLEAN /\ word.link \in BOOLEAN
      /\ word.many \in BOOLEAN /\ word.count \in Nat
  BY <1>0, WordFields
<1>1. ASSUME NEW l \in {"heldX", "heldS"}, pc' = [pc EXCEPT ![t] = l], pc[t] \in {"idle", "cas"},
             ~Acquiring(t)', call'[t] # "TryAcquireShared", ~spin'[t],
             \A u \in Threads \ {t} : call'[u] = call[u] /\ old'[u] = old[u] /\ arg'[u] = arg[u] /\ spin'[u] = spin[u],
             word'.hold, word'.wait = word.wait, word'.link = word.link, word'.many = word.many,
             IF l = "heldX" THEN ~word.hold /\ word'.count = word.count
             ELSE /\ ~word.hold \/ (~word.wait /\ word.count # 0)
                  /\ word'.count = IF word.wait THEN word.count ELSE word.count + 1
      PROVE  WordGoal
  <2>0. /\ pc'[t] = l
        /\ \A u \in Threads \ {t} : pc'[u] = pc[u]
    BY <1>0, <1>1
  <2>1. Flow'
    BY <1>0, <1>1, <2>0 DEF Flow, Acquiring
  <2>2. LinkIsOwned'
    <3>1. \A u \in Threads : OwnsLink(u)' <=> OwnsLink(u)
      BY <1>1, <2>0 DEF OwnsLink
    <3> QED
      BY <1>0, <1>1, <3>1 DEF LinkIsOwned
  <2>3. Owners'
    <3>1. CASE l = "heldX"
      <4>1. Writers = {} /\ SharedOwners = {} /\ Last = {}
        BY <1>0, <1>1, <3>1, OwnerSets DEF Owners
      <4>2. Writers' = {t} /\ SharedOwners' = {} /\ Last' = {}
        BY <1>0, <1>1, <3>1, <4>1, OwnerSets DEF SharedPcs
      <4> QED
        BY <1>0, <1>1, <3>1, <4>1, <4>2 DEF Owners
    <3>2. CASE l = "heldS"
      <4>1. /\ Writers = {} /\ Last = {} /\ t \notin SharedOwners
            /\ SharedOwners \in SUBSET Threads
            /\ word.wait => SharedOwners = {} /\ ~word.many
        <5>1. ~word.wait /\ word.count # 0 => SharedOwners # {}
          BY <1>0, OwnerSets, CardZero, <1>1 DEF Owners
        <5> QED
          BY <1>0, <1>1, <3>2, <5>1, OwnerSets DEF Owners, SharedPcs
      <4>2. Writers' = {} /\ SharedOwners' = SharedOwners \cup {t} /\ Last' = {}
        BY <1>0, <1>1, <3>2, <4>1, OwnerSets DEF SharedPcs
      <4>3. Cardinality(SharedOwners \cup {t}) = Cardinality(SharedOwners) + 1
        BY <4>1, CardAdd
      <4>4. ~word.wait => word'.count = Cardinality(SharedOwners')
        BY <1>0, <1>1, <3>2, <4>2, <4>3 DEF Owners
      <4> QED
        BY <1>0, <1>1, <3>2, <4>1, <4>2, <4>4 DEF Owners
    <3> QED
      BY <1>1, <3>1, <3>2
  <2>4. Copies'
    BY <1>0, <1>1, <2>0 DEF Copies
  <2>5. NoLostWakeup'
    BY <1>1 DEF NoLostWakeup
  <2> QED
    BY <2>1, <2>2, <2>3, <2>4, <2>5 DEF WordGoal
<1>i. pc[t] \in {"idle", "cas"} => ~spin[t]
  BY <1>0 DEF Flow, LinkWork
<1>2. CASE (RtlAcquireSRWLockExclusive(t) \/ RtlTryAcquireSRWLockExclusive(t)) /\ ~word.hold
  <2>1. /\ pc[t] = "idle" /\ pc' = [pc EXCEPT ![t] = "heldX"] /\ word' = SetHold(word)
        /\ UNCHANGED <<call, old, arg, spin>>
    BY <1>2 DEF RtlAcquireSRWLockExclusive, RtlTryAcquireSRWLockExclusive, Goto, nodeVars
  <2>2. ~Acquiring(t) /\ call[t] # "TryAcquireShared" /\ UNCHANGED Acquiring(t)
    BY <1>0, <2>1 DEF Flow, Acquiring, LinkWork
  <2> QED
    BY <1>0, <1>1, <1>2, <1>i, <2>1, <2>2, WordFields
<1>3. CASE RtlAcquireSRWLockShared(t) /\ word = Free
  <2>1. /\ pc[t] = "idle" /\ pc' = [pc EXCEPT ![t] = "heldS"] /\ word' = OneShared
        /\ UNCHANGED <<call, old, arg, spin>>
    BY <1>3 DEF RtlAcquireSRWLockShared, Goto, nodeVars
  <2>2. ~Acquiring(t) /\ call[t] # "TryAcquireShared" /\ UNCHANGED Acquiring(t)
    BY <1>0, <2>1 DEF Flow, Acquiring, LinkWork
  <2>3. /\ word'.hold /\ word'.wait = word.wait /\ word'.link = word.link
        /\ word'.many = word.many /\ ~word.hold /\ ~word.wait
        /\ word.count = 0 /\ word'.count = 1
    BY <1>3, <2>1, FreeFields
  <2>4. word'.count = IF word.wait THEN word.count ELSE word.count + 1
    BY <2>3
  <2> QED
    BY <1>1, <1>i, <2>1, <2>2, <2>3, <2>4
<1>4. CASE TakeLock(t)
  <2>1. /\ pc[t] = "cas" /\ word = old[t] /\ ~MustWait(t, word)
        /\ pc' = [pc EXCEPT ![t] = IF Exclusive(t) THEN "heldX" ELSE "heldS"]
        /\ call' = [call EXCEPT ![t] = "None"]
        /\ word' = IF Exclusive(t) THEN TakenExclusive(word) ELSE TakenShared(word)
        /\ ~spin'[t]
        /\ \A u \in Threads \ {t} : call'[u] = call[u] /\ old'[u] = old[u]
                                    /\ arg'[u] = arg[u] /\ spin'[u] = spin[u]
    BY <1>0, <1>4 DEF TakeLock, Return, DropNode, Goto
  <2>2. ~Acquiring(t)' /\ call'[t] = "None"
    BY <1>0, <2>1 DEF Acquiring
  <2>3. CASE Exclusive(t)
    <3>1. pc' = [pc EXCEPT ![t] = "heldX"] /\ word' = SetHold(word) /\ ~word.hold
      BY <2>1, <2>3 DEF TakenExclusive, MustWait
    <3>2. /\ word'.hold /\ word'.wait = word.wait /\ word'.link = word.link
          /\ word'.many = word.many /\ word'.count = word.count
      BY <1>0, <3>1, WordFields
    <3> QED
      BY <1>1, <2>1, <2>2, <3>1, <3>2
  <2>4. CASE ~Exclusive(t)
    <3>1. /\ pc' = [pc EXCEPT ![t] = "heldS"] /\ word' = TakenShared(word)
          /\ ~word.hold \/ (~word.wait /\ word.count # 0)
      BY <2>1, <2>4 DEF MustWait, SharedMustWait
    <3>2. /\ word'.hold /\ word'.wait = word.wait /\ word'.link = word.link
          /\ word'.many = word.many
          /\ word'.count = IF word.wait THEN word.count ELSE word.count + 1
      BY <1>0, <3>1, SharedFields
    <3> QED
      BY <1>1, <2>1, <2>2, <3>1, <3>2
  <2> QED
    BY <2>3, <2>4
<1>5. RtlTryAcquireSRWLockExclusive(t) => ~word.hold
  BY DEF RtlTryAcquireSRWLockExclusive
<1> QED
  BY <1>2, <1>3, <1>4, <1>5

(* A thread publishes its node. *)
LEMMA EnqueueStep ==
  ASSUME WordInv, NEW t \in Threads, Enqueue(t)
  PROVE  WordGoal
<1>0. /\ pc \in [Threads -> PcSet] /\ call \in [Threads -> CallSet] /\ old \in [Threads -> Word]
      /\ arg \in [Threads -> Word] /\ spin \in [Threads -> BOOLEAN] /\ word \in Word
      /\ Flow /\ LinkIsOwned /\ Owners /\ Copies /\ NoLostWakeup
  BY DEF WordInv, TypeInv, TypeOK
<1>w. /\ word.hold \in BOOLEAN /\ word.wait \in BOOLEAN /\ word.link \in BOOLEAN
      /\ word.many \in BOOLEAN /\ word.count \in Nat
  BY <1>0, WordFields
<1>1. /\ pc[t] = "cas" /\ word = old[t] /\ MustWait(t, word) /\ UNCHANGED <<call, old>>
      /\ word.hold /\ Acquiring(t)
      /\ spin'[t] /\ \A u \in Threads \ {t} : spin'[u] = spin[u]
      /\ word' = Enqueued(t, word)
  BY <1>0 DEF Enqueue, MustWait, SharedMustWait, Flow
<1>2. /\ word'.wait /\ word'.hold /\ word'.link = word.wait /\ word'.count = 0
      /\ word.wait => word'.many = word.many
      /\ ~word.wait => (word'.many <=> Exclusive(t) /\ word.count > 1)
  BY <1>0, <1>1, EnqueuedFields
<1>3. PICK l \in {"spin", "compressWalk"} :
        /\ pc' = [pc EXCEPT ![t] = l]
        /\ l = "compressWalk" <=> word.wait /\ ~word.link
        /\ l = "compressWalk" => arg' = [arg EXCEPT ![t] = word']
        /\ l = "spin" => arg' = arg
  <2>1. CASE word.wait /\ ~word.link
    <3>1. EnterCompress(t, word') /\ word'.hold
      BY <1>1, <1>2, <2>1 DEF Enqueue
    <3> QED
      BY <2>1, <3>1 DEF EnterCompress, Goto
  <2>2. CASE ~(word.wait /\ ~word.link)
    BY <2>2 DEF Enqueue, Goto
  <2> QED
    BY <2>1, <2>2
<1>4. /\ pc'[t] = l /\ \A u \in Threads \ {t} : pc'[u] = pc[u] /\ arg'[u] = arg[u]
      /\ l = "compressWalk" => arg'[t].hold
  BY <1>0, <1>2, <1>3
<1>5. Flow'
  BY <1>0, <1>1, <1>3, <1>4 DEF Flow, Acquiring, LinkWork
<1>6. LinkIsOwned'
  <2>1. /\ OwnsLink(t)' <=> word.wait /\ ~word.link
        /\ ~OwnsLink(t)
        /\ \A u \in Threads \ {t} : OwnsLink(u)' <=> OwnsLink(u)
    BY <1>1, <1>3, <1>4 DEF OwnsLink
  <2> QED
    BY <1>0, <1>2, <1>w, <2>1 DEF LinkIsOwned
<1>7. Owners'
  <2>1. Writers' = Writers /\ SharedOwners' = SharedOwners /\ Last' = Last
    BY <1>0, <1>1, <1>3, SameOwners DEF SharedPcs
  <2>2. SharedOwners \in SUBSET Threads
    BY DEF SharedOwners
  <2>3. ASSUME ~word.wait
        PROVE  /\ ~word'.many => \A u, v \in SharedOwners : u = v
               /\ word'.many => SharedOwners # {}
    <3>1. word.count = Cardinality(SharedOwners)
      BY <1>0, <2>3 DEF Owners
    <3>2. ~word'.many => word.count <= 1
      <4>1. CASE Exclusive(t)
        BY <1>2, <1>w, <2>3, <4>1
      <4>2. CASE ~Exclusive(t)
        BY <1>1, <1>w, <2>3, <4>2 DEF MustWait, SharedMustWait
      <4> QED
        BY <4>1, <4>2
    <3>3. word'.many => word.count # 0
      BY <1>2, <1>w, <2>3
    <3> QED
      BY <2>2, <3>1, <3>2, <3>3, CardZero, CardOne
  <2> QED
    BY <1>0, <1>1, <1>2, <1>w, <2>1, <2>3 DEF Owners
<1>8. Copies'
  <2>1. word.many => word'.many
    BY <1>0, <1>2 DEF Owners
  <2>2. ~word.many /\ (\E u \in Threads : pc[u] \in {"wakeWalk", "wakeChoose", "wakeUnlink"})
           => ~word'.many
    BY <1>0, <1>2 DEF LinkIsOwned, OwnsLink
  <2> QED
    BY <1>0, <1>1, <1>3, <1>4, <2>1, <2>2 DEF Copies
<1>9. NoLostWakeup'
  BY <1>2 DEF NoLostWakeup
<1> QED
  BY <1>5, <1>6, <1>7, <1>8, <1>9 DEF WordGoal

(* An exclusive release, and the claim of the wake-up that follows it. *)
LEMMA ReleaseExclusiveSteps ==
  ASSUME WordInv, NEW t \in Threads,
         RtlReleaseSRWLockExclusive(t) \/ (ClaimWake(t) /\ word = old[t])
  PROVE  WordGoal
<1>0. /\ pc \in [Threads -> PcSet] /\ call \in [Threads -> CallSet] /\ old \in [Threads -> Word]
      /\ arg \in [Threads -> Word] /\ spin \in [Threads -> BOOLEAN] /\ word \in Word
      /\ Flow /\ LinkIsOwned /\ Owners /\ Copies /\ NoLostWakeup
  BY DEF WordInv, TypeInv, TypeOK
<1>w. /\ word.hold \in BOOLEAN /\ word.wait \in BOOLEAN /\ word.link \in BOOLEAN
      /\ word.many \in BOOLEAN /\ word.count \in Nat
  BY <1>0, WordFields
<1>1. CASE RtlReleaseSRWLockExclusive(t)
  <2>1. /\ ~word'.hold /\ word'.wait = word.wait /\ word'.link = word.link
        /\ word'.many = word.many /\ word'.count = word.count
    BY <1>0, <1>1, WordFields DEF RtlReleaseSRWLockExclusive
  <2>2. PICK l \in {"releaseX", "idle"} :
          /\ pc[t] = "heldX" /\ pc' = [pc EXCEPT ![t] = l] /\ UNCHANGED <<arg, spin>>
          /\ l = "releaseX" <=> word.wait /\ ~word.link
          /\ l = "releaseX" => /\ call' = [call EXCEPT ![t] = "ReleaseExclusive"]
                               /\ old' = [old EXCEPT ![t] = word']
          /\ l = "idle" => UNCHANGED <<call, old>>
    BY <1>1 DEF RtlReleaseSRWLockExclusive, Goto, nodeVars
  <2>3. /\ pc'[t] = l /\ call'[t] # "TryAcquireShared" /\ ~Acquiring(t)'
        /\ l = "releaseX" => old'[t] = word'
        /\ \A u \in Threads \ {t} : pc'[u] = pc[u] /\ call'[u] = call[u] /\ old'[u] = old[u]
    BY <1>0, <2>2 DEF Flow, Acquiring, LinkWork
  <2>4. Flow'
    BY <1>0, <2>2, <2>3 DEF Flow, Acquiring, LinkWork
  <2>5. LinkIsOwned'
    <3>1. \A u \in Threads : OwnsLink(u)' <=> OwnsLink(u)
      BY <2>2, <2>3 DEF OwnsLink
    <3> QED
      BY <1>0, <2>1, <3>1 DEF LinkIsOwned
  <2>6. Owners'
    <3>1. Writers = {t} /\ SharedOwners = {} /\ Last = {}
      BY <1>0, <2>2 DEF Owners, Writers, SharedOwners, Last
    <3>2. Writers' = {} /\ SharedOwners' = {} /\ Last' = {}
      BY <1>0, <2>2, <3>1, OwnerSets DEF SharedPcs
    <3> QED
      BY <1>0, <2>1, <3>1, <3>2 DEF Owners
  <2>7. Copies'
    BY <1>0, <2>1, <2>2, <2>3 DEF Copies
  <2>8. NoLostWakeup'
    BY <1>w, <2>1, <2>2, <2>3 DEF NoLostWakeup
  <2> QED
    BY <2>4, <2>5, <2>6, <2>7, <2>8 DEF WordGoal
<1>2. CASE ClaimWake(t) /\ word = old[t]
  <2>1. /\ word' = SetLink(word) /\ word'.link /\ word'.hold = word.hold
        /\ word'.wait = word.wait /\ word'.many = word.many /\ word'.count = word.count
    BY <1>0, <1>2, WordFields DEF ClaimWake
  <2>2. pc[t] = "releaseX" /\ word.wait /\ ~word.hold /\ ~word.link
    BY <1>0, <1>2 DEF ClaimWake, Copies
  <2>3. /\ pc' = [pc EXCEPT ![t] = "wakeWalk"] /\ UNCHANGED <<call, old, spin>>
        /\ arg' = [arg EXCEPT ![t] = word']
    BY <1>2, <2>1, <2>2 DEF ClaimWake, EnterWake, Goto, nodeVars
  <2>4. Flow'
    BY <1>0, <2>2, <2>3 DEF Flow, Acquiring, LinkWork
  <2>5. LinkIsOwned'
    <3>1. OwnsLink(t)' /\ \A u \in Threads \ {t} : ~OwnsLink(u)'
      BY <1>0, <2>2, <2>3 DEF OwnsLink, LinkIsOwned
    <3> QED
      BY <2>1, <2>2, <3>1 DEF LinkIsOwned
  <2>6. Owners'
    <3>1. Writers' = Writers /\ SharedOwners' = SharedOwners /\ Last' = Last
      BY <1>0, <2>2, <2>3, SameOwners DEF SharedPcs
    <3> QED
      BY <1>0, <2>1, <3>1 DEF Owners
  <2>7. Copies'
    <3>1. ~word.many
      BY <1>0, <2>2 DEF Owners
    <3> QED
      BY <1>0, <2>1, <2>2, <2>3, <3>1 DEF Copies
  <2>8. NoLostWakeup'
    BY <2>1 DEF NoLostWakeup
  <2> QED
    BY <2>4, <2>5, <2>6, <2>7, <2>8 DEF WordGoal
<1> QED
  BY <1>1, <1>2

(* The frame of a step of a shared owner that stays one. *)
LEMMA StaysShared ==
  ASSUME WordInv, NEW t \in Threads, NEW l \in SharedPcs, pc[t] \in SharedPcs,
         pc' = [pc EXCEPT ![t] = l], word' = word, UNCHANGED <<arg, spin>>,
         \A u \in Threads \ {t} : call'[u] = call[u] /\ old'[u] = old[u],
         ~Acquiring(t)', call'[t] # "TryAcquireShared",
         l = "releaseS" => ~old'[t].wait,
         l = "releaseWalk" => word.many,
         l = "releaseLast" => SharedOwners = {t} /\ word.wait
  PROVE  WordGoal
<1>0. /\ pc \in [Threads -> PcSet] /\ pc'[t] = l
      /\ \A u \in Threads \ {t} : pc'[u] = pc[u]
      /\ Flow /\ LinkIsOwned /\ Owners /\ Copies /\ NoLostWakeup
  BY DEF WordInv, TypeInv, TypeOK
<1>1. Flow'
  BY <1>0 DEF Flow, Acquiring, SharedPcs, LinkWork
<1>2. LinkIsOwned'
  <2>1. \A u \in Threads : OwnsLink(u)' <=> OwnsLink(u)
    BY <1>0 DEF OwnsLink, SharedPcs
  <2> QED
    BY <1>0, <2>1 DEF LinkIsOwned
<1>3. Owners'
  <2>1. Writers' = Writers /\ SharedOwners' = SharedOwners
    BY <1>0 DEF Writers, SharedOwners, SharedPcs
  <2>2. \A u \in Last' : SharedOwners = {u} /\ word.wait
    BY <1>0 DEF Owners, Last
  <2> QED
    BY <1>0, <2>1, <2>2 DEF Owners
<1>4. Copies'
  BY <1>0 DEF Copies, SharedPcs
<1>5. NoLostWakeup'
  BY <1>0 DEF NoLostWakeup, SharedPcs
<1> QED
  BY <1>1, <1>2, <1>3, <1>4, <1>5 DEF WordGoal

(* Where a shared release goes on from a word that is current. *)
LEMMA ReleaseFromPlace ==
  ASSUME WordInv, NEW t \in Threads, t \in SharedOwners, ReleaseSharedFrom(t, word)
  PROVE  \E l \in {"releaseS", "releaseWalk", "releaseLast"} :
            /\ pc' = [pc EXCEPT ![t] = l] /\ old' = [old EXCEPT ![t] = word]
            /\ curr' = [curr EXCEPT ![t] = word.tail]
            /\ l = "releaseS" => ~word.wait
            /\ l # "releaseS" => word.wait
            /\ l = "releaseWalk" => word.many
            /\ l = "releaseLast" => ~word.many /\ SharedOwners = {t}
<1>1. word.wait /\ ~word.many => SharedOwners = {t}
  BY DEF WordInv, Owners
<1> QED
  BY <1>1 DEF ReleaseSharedFrom, Goto

(* The steps of a shared release that keep the lock. *)
LEMMA ReleaseSharedQuiet ==
  ASSUME WordInv, NEW t \in Threads,
         \/ RtlReleaseSRWLockShared(t) /\ word # OneShared
         \/ ReleaseCount(t) /\ word # old[t]
         \/ ReleaseWalk(t)
         \/ ReleaseLast(t) /\ word # old[t]
  PROVE  WordGoal
<1>0. /\ pc \in [Threads -> PcSet] /\ call \in [Threads -> CallSet] /\ old \in [Threads -> Word]
      /\ arg \in [Threads -> Word] /\ spin \in [Threads -> BOOLEAN] /\ word \in Word
      /\ Flow /\ LinkIsOwned /\ Owners /\ Copies /\ NoLostWakeup
  BY DEF WordInv, TypeInv, TypeOK
<1>1. CASE RtlReleaseSRWLockShared(t) /\ word # OneShared
  <2>1. /\ pc[t] = "heldS" /\ ReleaseSharedFrom(t, word) /\ UNCHANGED <<word, arg, spin>>
        /\ call' = [call EXCEPT ![t] = "ReleaseShared"]
    BY <1>1 DEF RtlReleaseSRWLockShared, nodeVars
  <2>2. t \in SharedOwners
    BY <2>1 DEF SharedOwners
  <2>3. PICK l \in {"releaseS", "releaseWalk", "releaseLast"} :
            /\ pc' = [pc EXCEPT ![t] = l] /\ old' = [old EXCEPT ![t] = word]
            /\ l = "releaseS" => ~word.wait
            /\ l # "releaseS" => word.wait
            /\ l = "releaseWalk" => word.many
            /\ l = "releaseLast" => SharedOwners = {t}
    BY <2>1, <2>2, ReleaseFromPlace
  <2>4. l \in SharedPcs /\ pc[t] \in SharedPcs
    BY <2>1 DEF SharedPcs
  <2> QED
    BY <1>0, <2>1, <2>3, <2>4, StaysShared DEF Acquiring
<1>2. CASE ReleaseCount(t) /\ word # old[t]
  <2>1. /\ pc[t] = "releaseS" /\ ReleaseSharedFrom(t, word) /\ UNCHANGED <<word, arg, spin, call>>
    BY <1>2 DEF ReleaseCount, nodeVars
  <2>2. t \in SharedOwners
    BY <2>1 DEF SharedOwners
  <2>3. PICK l \in {"releaseS", "releaseWalk", "releaseLast"} :
            /\ pc' = [pc EXCEPT ![t] = l] /\ old' = [old EXCEPT ![t] = word]
            /\ l = "releaseS" => ~word.wait
            /\ l # "releaseS" => word.wait
            /\ l = "releaseWalk" => word.many
            /\ l = "releaseLast" => SharedOwners = {t}
    BY <2>1, <2>2, ReleaseFromPlace
  <2>4. l \in SharedPcs /\ pc[t] \in SharedPcs
    BY <2>1 DEF SharedPcs
  <2>5. ~Acquiring(t) /\ UNCHANGED Acquiring(t) /\ call[t] # "TryAcquireShared"
    BY <1>0, <2>1 DEF Flow, LinkWork, Acquiring
  <2> QED
    BY <1>0, <2>1, <2>3, <2>4, <2>5, StaysShared
<1>3. CASE ReleaseWalk(t)
  <2>1. /\ pc[t] = "releaseWalk" /\ pc' = [pc EXCEPT ![t] = "releaseWalk"]
        /\ UNCHANGED <<pc, word, arg, spin, call, old>>
    BY <1>0, <1>3 DEF ReleaseWalk, nodeVars
  <2>2. ~Acquiring(t) /\ UNCHANGED Acquiring(t) /\ call[t] # "TryAcquireShared" /\ word.many
    BY <1>0, <2>1 DEF Flow, LinkWork, Acquiring, Copies
  <2> QED
    BY <1>0, <2>1, <2>2, StaysShared DEF SharedPcs
<1>4. CASE ReleaseLast(t) /\ word # old[t]
  <2>1. /\ pc[t] = "releaseLast" /\ pc' = [pc EXCEPT ![t] = "releaseLast"]
        /\ UNCHANGED <<pc, word, arg, spin, call>> /\ old' = [old EXCEPT ![t] = word]
    BY <1>0, <1>4 DEF ReleaseLast, nodeVars
  <2>2. ~Acquiring(t) /\ UNCHANGED Acquiring(t) /\ call[t] # "TryAcquireShared"
    BY <1>0, <2>1 DEF Flow, LinkWork, Acquiring
  <2>3. SharedOwners = {t} /\ word.wait
    BY <1>0, <2>1 DEF Owners, Last
  <2> QED
    BY <1>0, <2>1, <2>2, <2>3, StaysShared DEF SharedPcs
<1> QED
  BY <1>1, <1>2, <1>3, <1>4

(* The steps of a shared release that give the lock up, before any thread   *)
(* waits.                                                                   *)
LEMMA ReleaseSharedCount ==
  ASSUME WordInv, NEW t \in Threads,
         \/ RtlReleaseSRWLockShared(t) /\ word = OneShared
         \/ ReleaseCount(t) /\ word = old[t]
  PROVE  WordGoal
<1>0. /\ pc \in [Threads -> PcSet] /\ call \in [Threads -> CallSet] /\ old \in [Threads -> Word]
      /\ arg \in [Threads -> Word] /\ spin \in [Threads -> BOOLEAN] /\ word \in Word
      /\ Flow /\ LinkIsOwned /\ Owners /\ Copies /\ NoLostWakeup
  BY DEF WordInv, TypeInv, TypeOK
<1>w. /\ word.hold \in BOOLEAN /\ word.wait \in BOOLEAN /\ word.link \in BOOLEAN
      /\ word.many \in BOOLEAN /\ word.count \in Nat
  BY <1>0, WordFields
<1>1. /\ pc[t] \in SharedPcs /\ pc' = [pc EXCEPT ![t] = "idle"] /\ ~word.wait
      /\ word' = OneLess(word) /\ UNCHANGED spin
      /\ \A u \in Threads \ {t} : call'[u] = call[u] /\ old'[u] = old[u] /\ arg'[u] = arg[u]
      /\ ~Acquiring(t)' /\ call'[t] # "TryAcquireShared"
  <2>1. CASE RtlReleaseSRWLockShared(t) /\ word = OneShared
    <3>1. ~Acquiring(t) /\ call[t] # "TryAcquireShared" /\ call' = call /\ pc[t] = "heldS"
      BY <1>0, <2>1 DEF RtlReleaseSRWLockShared, Flow, LinkWork, Acquiring
    <3>2. word.count <= 1
      BY <2>1, FreeFields
    <3> QED
      BY <1>0, <2>1, <3>1, <3>2, FreeFields, SharedFields
      DEF RtlReleaseSRWLockShared, Goto, SharedPcs, nodeVars, Acquiring
  <2>2. CASE ReleaseCount(t) /\ word = old[t]
    <3>1. pc[t] = "releaseS" /\ ~word.wait
      BY <1>0, <2>2 DEF ReleaseCount, Copies
    <3> QED
      BY <1>0, <2>2, <3>1 DEF ReleaseCount, Return, Goto, SharedPcs, nodeVars, Acquiring
  <2> QED
    BY <2>1, <2>2
<1>2. /\ pc'[t] = "idle" /\ \A u \in Threads \ {t} : pc'[u] = pc[u]
  BY <1>0, <1>1
<1>3. /\ SharedOwners \in SUBSET Threads /\ t \in SharedOwners
      /\ SharedOwners' = SharedOwners \ {t} /\ Writers' = Writers
      /\ Last = {} /\ Last' = {} /\ Writers = {} /\ ~word.many /\ word.hold
      /\ word.count = Cardinality(SharedOwners)
  BY <1>0, <1>1, <1>2 DEF SharedOwners, Writers, Last, Owners, SharedPcs
<1>4. /\ word.count >= 1
      /\ word.count = 1 => SharedOwners' = {}
      /\ Cardinality(SharedOwners') = word.count - 1
  BY <1>3, <1>w, CardRemove
<1>5. /\ ~word'.wait /\ ~word'.many /\ word'.link = word.link
      /\ word'.hold <=> SharedOwners' # {}
      /\ word'.count = Cardinality(SharedOwners')
  <2>1. CASE word.count = 1
    <3>1. word' = Free
      BY <1>0, <1>1, <2>1, SharedFields
    <3>2. ~word.link
      BY <1>0, <1>1 DEF LinkIsOwned
    <3>3. word'.link = word.link
      BY <1>w, <3>1, <3>2, FreeFields
    <3>4. SharedOwners' = {} /\ Cardinality(SharedOwners') = 0
      BY <1>4, <1>w, <2>1
    <3> QED
      BY <3>1, <3>3, <3>4, FreeFields
  <2>2. CASE word.count # 1
    <3>1. word.count > 1
      BY <1>4, <1>w, <2>2
    <3>2. SharedOwners' # {}
      <4>1. SharedOwners' \in SUBSET Threads
        BY <1>3
      <4> QED
        BY <1>4, <1>w, <3>1, <4>1, CardZero
    <3> QED
      BY <1>0, <1>1, <1>3, <1>4, <3>1, <3>2, SharedFields
  <2> QED
    BY <2>1, <2>2
<1>6. Flow'
  BY <1>0, <1>1, <1>2 DEF Flow, Acquiring, SharedPcs, LinkWork
<1>7. LinkIsOwned'
  <2>1. \A u \in Threads : OwnsLink(u)' <=> OwnsLink(u)
    BY <1>1, <1>2 DEF OwnsLink, SharedPcs
  <2>2. ~word.link
    BY <1>0, <1>1 DEF LinkIsOwned
  <2> QED
    BY <1>0, <1>5, <2>1, <2>2 DEF LinkIsOwned
<1>8. Owners'
  BY <1>3, <1>5 DEF Owners
<1>9. Copies'
  BY <1>0, <1>1, <1>2, <1>3, <1>5 DEF Copies
<1>10. NoLostWakeup'
  BY <1>5 DEF NoLostWakeup
<1> QED
  BY <1>6, <1>7, <1>8, <1>9, <1>10 DEF WordGoal

(* The last shared owner gives up Hold. *)
LEMMA ReleaseLastStep ==
  ASSUME WordInv, NEW t \in Threads, ReleaseLast(t), word = old[t]
  PROVE  WordGoal
<1>0. /\ pc \in [Threads -> PcSet] /\ call \in [Threads -> CallSet] /\ old \in [Threads -> Word]
      /\ arg \in [Threads -> Word] /\ spin \in [Threads -> BOOLEAN] /\ word \in Word
      /\ Flow /\ LinkIsOwned /\ Owners /\ Copies /\ NoLostWakeup
  BY DEF WordInv, TypeInv, TypeOK
<1>1. /\ pc[t] = "releaseLast" /\ word' = Released(word) /\ word.wait /\ UNCHANGED spin
      /\ ~Acquiring(t) /\ call[t] # "TryAcquireShared"
  BY <1>0 DEF ReleaseLast, Owners, Last, Flow, LinkWork, Acquiring, nodeVars
<1>2. /\ word'.link /\ ~word'.hold /\ word'.wait /\ ~word'.many /\ word'.count = word.count
  BY <1>0, <1>1, WordFields
<1>3. PICK l \in {"idle", "wakeWalk"} :
        /\ pc' = [pc EXCEPT ![t] = l] /\ (l = "wakeWalk" <=> ~word.link)
        /\ l = "wakeWalk" => ~arg'[t].hold
        /\ ~Acquiring(t)' /\ call'[t] # "TryAcquireShared"
        /\ \A u \in Threads \ {t} : call'[u] = call[u] /\ old'[u] = old[u] /\ arg'[u] = arg[u]
  <2>1. CASE word.link
    <3>1. Return(t, "idle")
      BY <1>1, <2>1 DEF ReleaseLast
    <3> QED
      BY <1>0, <2>1, <3>1 DEF Return, Goto, Acquiring
  <2>2. CASE ~word.link
    <3>1. EnterWake(t, word') /\ UNCHANGED <<call, old>>
      BY <1>1, <2>2 DEF ReleaseLast
    <3> QED
      BY <1>0, <1>1, <1>2, <2>2, <3>1 DEF EnterWake, Goto, Acquiring
  <2> QED
    BY <2>1, <2>2
<1>4. pc'[t] = l /\ \A u \in Threads \ {t} : pc'[u] = pc[u]
  BY <1>0, <1>3
<1>5. /\ Writers' = {} /\ SharedOwners' = {} /\ Last' = {}
  <2>1. SharedOwners = {t} /\ Writers = {}
    BY <1>0, <1>1 DEF Owners, Last
  <2> QED
    BY <2>1, <1>3, <1>4 DEF Writers, SharedOwners, Last
<1>6. Flow'
  BY <1>0, <1>1, <1>3, <1>4 DEF Flow, Acquiring, LinkWork
<1>7. LinkIsOwned'
  <2>1. /\ OwnsLink(t)' <=> ~word.link
        /\ ~OwnsLink(t)
        /\ \A u \in Threads \ {t} : OwnsLink(u)' <=> OwnsLink(u)
    BY <1>1, <1>3, <1>4 DEF OwnsLink
  <2> QED
    BY <1>0, <1>2, <2>1 DEF LinkIsOwned
<1>8. Owners'
  BY <1>0, <1>1, <1>2, <1>5 DEF Owners
<1>9. Copies'
  <2>1. \A u \in Threads \ {t} : pc[u] # "releaseWalk"
    BY <1>0, <1>1 DEF Owners, Last, SharedOwners
  <2> QED
    BY <1>0, <1>1, <1>2, <1>3, <1>4, <2>1 DEF Copies
<1>10. NoLostWakeup'
  BY <1>2 DEF NoLostWakeup
<1> QED
  BY <1>6, <1>7, <1>8, <1>9, <1>10 DEF WordGoal

(* The Link owner is done: it clears Link, or takes the whole list. *)
LEMMA LinkDoneSteps ==
  ASSUME WordInv, NEW t \in Threads,
         \/ CompressDone(t) /\ word = arg[t]
         \/ WakeHeld(t) /\ word = arg[t]
         \/ WakeUnlink(t)
         \/ WakeAllChosen(t) /\ word = arg[t]
  PROVE  WordGoal
<1>0. /\ pc \in [Threads -> PcSet] /\ call \in [Threads -> CallSet] /\ old \in [Threads -> Word]
      /\ arg \in [Threads -> Word] /\ spin \in [Threads -> BOOLEAN] /\ word \in Word
      /\ Flow /\ LinkIsOwned /\ Owners /\ Copies /\ NoLostWakeup
  BY DEF WordInv, TypeInv, TypeOK
<1>w. /\ word.hold \in BOOLEAN /\ word.wait \in BOOLEAN /\ word.link \in BOOLEAN
      /\ word.many \in BOOLEAN /\ word.count \in Nat
  BY <1>0, WordFields
<1>1. ASSUME NEW l \in {"spin", "idle", "wakeSignal"}, pc' = [pc EXCEPT ![t] = l], OwnsLink(t),
             UNCHANGED spin, ~word'.link,
             \A u \in Threads \ {t} : call'[u] = call[u] /\ old'[u] = old[u] /\ arg'[u] = arg[u],
             call'[t] # "TryAcquireShared",
             IF l = "idle" THEN ~Acquiring(t)' /\ ~Acquiring(t)
             ELSE call'[t] = call[t] /\ (l = "spin" => Acquiring(t)),
             \/ /\ word'.hold = word.hold /\ word'.wait = word.wait /\ word'.many = word.many
                /\ word'.count = word.count
             \/ word' = Free /\ ~word.hold,
             word'.hold \/ ~word'.wait \/ l = "wakeSignal"
      PROVE  WordGoal
  <2>0. pc'[t] = l /\ \A u \in Threads \ {t} : pc'[u] = pc[u]
    BY <1>0, <1>1
  <2>1. Flow'
    BY <1>0, <1>1, <2>0 DEF Flow, Acquiring, LinkWork
  <2>2. LinkIsOwned'
    <3>1. \A u \in Threads : ~OwnsLink(u)'
      BY <1>0, <1>1, <2>0 DEF OwnsLink, LinkIsOwned
    <3> QED
      BY <1>1, <3>1 DEF LinkIsOwned
  <2>3. Owners'
    <3>1. Writers' = Writers /\ SharedOwners' = SharedOwners /\ Last' = Last
      BY <1>0, <1>1, SameOwners DEF SharedPcs, OwnsLink
    <3>2. CASE word' = Free /\ ~word.hold
      <4>1. Writers = {} /\ SharedOwners = {} /\ Last = {}
        BY <1>0, <3>2 DEF Owners, Last, SharedOwners
      <4>2. Cardinality(SharedOwners) = 0
        BY <4>1, CardZero
      <4> QED
        BY <3>1, <3>2, <4>1, <4>2, FreeFields DEF Owners
    <3>3. CASE /\ word'.hold = word.hold /\ word'.wait = word.wait /\ word'.many = word.many
               /\ word'.count = word.count
      BY <1>0, <3>1, <3>3 DEF Owners
    <3> QED
      BY <1>1, <3>2, <3>3
  <2>4. Copies'
    <3>1. word'.many = word.many
      BY <1>0, <1>1, <1>w, FreeFields DEF Owners
    <3> QED
      BY <1>0, <1>1, <2>0, <3>1 DEF Copies
  <2>5. NoLostWakeup'
    BY <1>1, <2>0 DEF NoLostWakeup
  <2> QED
    BY <2>1, <2>2, <2>3, <2>4, <2>5 DEF WordGoal
<1>2. CASE (CompressDone(t) \/ WakeHeld(t)) /\ word = arg[t]
  <2>1. /\ pc[t] \in {"compressCas", "wakeHeld"} /\ word' = ClearLink(word)
        /\ pc' = [pc EXCEPT ![t] = AfterLinkWork(t)] /\ EndLinkWork(t) /\ UNCHANGED spin
    BY <1>2 DEF CompressDone, WakeHeld, Goto, nodeVars
  <2>2. /\ ~word'.link /\ word'.hold = word.hold /\ word'.wait = word.wait
        /\ word'.many = word.many /\ word'.count = word.count
    BY <1>0, <2>1, WordFields
  <2>3. word'.hold /\ OwnsLink(t)
    BY <1>0, <1>2, <2>1, <2>2 DEF Copies, OwnsLink
  <2>4. \A u \in Threads \ {t} : call'[u] = call[u] /\ old'[u] = old[u] /\ arg'[u] = arg[u]
    BY <1>0, <2>1, LeavePlace
  <2>5. CASE Acquiring(t)
    <3>1. AfterLinkWork(t) = "spin" /\ call' = call
      BY <1>0, <2>1, <2>5, LeavePlace
    <3> QED
      BY <1>0, <1>1, <2>1, <2>2, <2>3, <2>4, <2>5, <3>1 DEF Flow
  <2>6. CASE ~Acquiring(t)
    <3>1. AfterLinkWork(t) = "idle" /\ call'[t] = "None"
      BY <1>0, <2>1, <2>6, LeavePlace
    <3>2. ~Acquiring(t)'
      BY <3>1 DEF Acquiring
    <3> QED
      BY <1>1, <2>1, <2>2, <2>3, <2>4, <2>6, <3>1, <3>2
  <2> QED
    BY <2>5, <2>6
<1>3. CASE WakeUnlink(t)
  <2>1. /\ pc[t] = "wakeUnlink" /\ word' = ClearLink(word)
        /\ pc' = [pc EXCEPT ![t] = "wakeSignal"] /\ UNCHANGED <<spin, call, old, arg>>
    BY <1>3 DEF WakeUnlink, Goto, nodeVars
  <2>2. /\ ~word'.link /\ word'.hold = word.hold /\ word'.wait = word.wait
        /\ word'.many = word.many /\ word'.count = word.count /\ OwnsLink(t)
    BY <1>0, <2>1, WordFields DEF OwnsLink
  <2> QED
    BY <1>0, <1>1, <2>1, <2>2 DEF Flow
<1>4. CASE WakeAllChosen(t) /\ word = arg[t]
  <2>1. /\ pc[t] = "wakeChoose" /\ word' = Free
        /\ pc' = [pc EXCEPT ![t] = "wakeSignal"] /\ UNCHANGED <<spin, call, old, arg>>
    BY <1>4 DEF WakeAllChosen, Goto, nodeVars
  <2>2. ~word.hold /\ OwnsLink(t)
    BY <1>0, <1>4, <2>1 DEF Copies, OwnsLink
  <2> QED
    BY <1>0, <1>1, <2>1, <2>2, FreeFields DEF Flow
<1> QED
  BY <1>2, <1>3, <1>4

(* A waker deals with the first thread of its list. *)
LEMMA SignalSteps ==
  ASSUME WordInv, NEW t \in Threads, WakeSignal(t) \/ WakeRelease(t)
  PROVE  WordGoal
<1>0. /\ pc \in [Threads -> PcSet] /\ call \in [Threads -> CallSet] /\ old \in [Threads -> Word]
      /\ arg \in [Threads -> Word] /\ spin \in [Threads -> BOOLEAN] /\ word \in Word
      /\ Flow /\ LinkIsOwned /\ Owners /\ Copies /\ NoLostWakeup
  BY DEF WordInv, TypeInv, TypeOK
<1>f. PICK f \in Threads : f = first[t]
  BY DEF WakeSignal, WakeRelease, WordInv, TypeInv
<1>1. /\ word' = word /\ pc[t] \in {"wakeSignal", "wakeRelease"}
      /\ spin' = [spin EXCEPT ![f] = FALSE] \/ UNCHANGED spin
      /\ \A u \in Threads \ {t} : call'[u] = call[u] /\ old'[u] = old[u] /\ arg'[u] = arg[u]
      /\ \A u \in Threads \ {t, f} : pc'[u] = pc[u]
      /\ pc'[t] \in {"wakeSignal", "wakeRelease", "spin", "idle"}
      /\ pc'[t] = "idle" => ~Acquiring(t) /\ call'[t] = "None"
      /\ pc'[t] = "spin" => Acquiring(t)
      /\ pc'[t] # "idle" => call'[t] = call[t]
      /\ f # t => \/ pc'[f] = pc[f]
                  \/ pc[f] = "blocked" /\ pc'[f] = "cas"
      /\ pc'[t] \in {"spin", "idle"} => \/ spin[f] /\ spin' = [spin EXCEPT ![f] = FALSE] /\ (f # t => pc'[f] = pc[f])
                                        \/ f # t /\ pc'[f] = "cas"
  <2>1. CASE WakeSignal(t) /\ spin[f]
    <3>1. CASE next[f] = Nil
      <4>1. pc' = [pc EXCEPT ![t] = AfterLinkWork(t)] /\ EndLinkWork(t)
        BY <1>f, <2>1, <3>1 DEF WakeSignal, WakeNext, WakeNextPc, Goto
      <4> QED
        BY <1>0, <1>f, <2>1, <4>1, LeavePlace DEF WakeSignal
    <3>2. CASE next[f] # Nil
      BY <1>0, <1>f, <2>1, <3>2 DEF WakeSignal, WakeNext, WakeNextPc, Goto
    <3> QED
      BY <3>1, <3>2
  <2>2. CASE WakeSignal(t) /\ ~spin[f]
    BY <1>0, <1>f, <2>2 DEF WakeSignal, Goto
  <2>3. CASE WakeRelease(t)
    <3>0. /\ pc[t] = "wakeRelease" /\ pc[f] = "blocked" /\ f # t
          /\ UNCHANGED <<word, spin>>
      BY <1>f, <2>3 DEF WakeRelease, nodeVars
    <3>1. CASE next[f] = Nil
      <4>1. pc' = [pc EXCEPT ![f] = "cas", ![t] = AfterLinkWork(t)] /\ EndLinkWork(t)
        BY <1>f, <2>3, <3>1 DEF WakeRelease, WakeNext, WakeNextPc
      <4> QED
        BY <1>0, <1>f, <3>0, <4>1, LeavePlace
    <3>2. CASE next[f] # Nil
      <4>1. pc' = [pc EXCEPT ![f] = "cas", ![t] = "wakeSignal"] /\ UNCHANGED <<call, old, arg>>
        BY <1>f, <2>3, <3>2 DEF WakeRelease, WakeNext, WakeNextPc
      <4> QED
        BY <1>0, <1>f, <3>0, <4>1
    <3> QED
      BY <3>1, <3>2
  <2> QED
    BY <2>1, <2>2, <2>3
<1>2. Flow'
  BY <1>0, <1>1 DEF Flow, Acquiring, LinkWork
<1>3. LinkIsOwned'
  <2>1. \A u \in Threads : OwnsLink(u)' <=> OwnsLink(u)
    BY <1>1 DEF OwnsLink
  <2> QED
    BY <1>0, <1>1, <2>1 DEF LinkIsOwned
<1>4. Owners'
  <2>1. Writers' = Writers /\ SharedOwners' = SharedOwners /\ Last' = Last
    BY <1>1 DEF Writers, SharedOwners, Last
  <2> QED
    BY <1>0, <1>1, <2>1 DEF Owners
<1>5. Copies'
  BY <1>0, <1>1 DEF Copies
<1>6. NoLostWakeup'
  <2> SUFFICES ASSUME word.wait, ~word.hold, ~word.link
               PROVE  \E u \in Threads : \/ pc'[u] \in {"load", "cas", "wakeSignal", "wakeRelease"}
                                         \/ pc'[u] = "spin" /\ ~spin'[u]
    BY <1>1 DEF NoLostWakeup
  <2>1. CASE pc'[t] \in {"wakeSignal", "wakeRelease"}
    BY <2>1
  <2>2. CASE pc'[t] \in {"spin", "idle"} /\ f # t /\ pc'[f] = "cas"
    BY <2>2
  <2>3. CASE /\ pc'[t] \in {"spin", "idle"} /\ spin[f] /\ spin' = [spin EXCEPT ![f] = FALSE]
             /\ f # t => pc'[f] = pc[f]
    <3>1. Acquiring(f) /\ (pc[f] = "spin" \/ pc[f] \in LinkWork)
      BY <1>0, <2>3 DEF Flow
    <3>2. ~OwnsLink(f) /\ ~spin'[f]
      BY <1>0, <2>3 DEF LinkIsOwned
    <3>3. pc[f] \in {"spin", "wakeSignal", "wakeRelease"}
      BY <3>1, <3>2 DEF LinkWork, OwnsLink
    <3>4. CASE f = t
      BY <1>1, <2>3, <3>1, <3>2, <3>4
    <3>5. CASE f # t
      BY <2>3, <3>2, <3>3, <3>5
    <3> QED
      BY <3>4, <3>5
  <2> QED
    BY <1>1, <2>1, <2>2, <2>3
<1> QED
  BY <1>2, <1>3, <1>4, <1>5, <1>6 DEF WordGoal

-----------------------------------------------------------------------------
(* The invariant: the lists of wait nodes.  own and pos place the nodes:    *)
(* own[n] is Nil for a node on the list that the word points to, and t for  *)
(* one that the waker t has taken off it; pos orders each list.  o is the   *)
(* oldest node of the word's list, k the newest that knows it.              *)

Walk == {"compressWalk", "wakeWalk"}
Wakers == {"wakeUnlink", "wakeSignal", "wakeRelease"}

(* A thread's node is on a list while it waits to be woken. *)
Member(n) == n \in Threads /\ (spin[n] \/ pc[n] = "blocked")
In(own, c, n) == Member(n) /\ own[n] = c
Queued(own, n) == In(own, Nil, n)

Places(own, pos) ==
    \A m, n \in Threads : Member(m) /\ Member(n) /\ own[m] = own[n] /\ pos[m] = pos[n] => m = n

(* The prev pointers lead from the newest node to the oldest, and of the    *)
(* nodes no older than k only k itself knows the oldest.                    *)
Queue(own, pos, o, k) ==
    IF word.wait
      THEN /\ Queued(own, word.tail) /\ Queued(own, o) /\ Queued(own, k)
           /\ head[k] = o
           /\ \A n \in Threads : Queued(own, n) =>
                 /\ pos[o] <= pos[n] /\ pos[n] <= pos[word.tail]
                 /\ n # o => Queued(own, prev[n]) /\ pos[prev[n]] = pos[n] - 1
                 /\ pos[k] < pos[n] => head[n] = Nil
      ELSE word.tail = Nil /\ \A n \in Threads : ~Queued(own, n)

(* The nodes whose next pointer is set: those older than k, and those that  *)
(* the walk of the Link owner has passed.                                   *)
Linked(pos, k, n) ==
    \/ pos[n] < pos[k]
    \/ \E t \in Threads : /\ pc[t] \in Walk
                          /\ pos[curr[t]] <= pos[n] /\ pos[n] < pos[arg[t].tail]

Links(own, pos, k) ==
    \A n \in Threads : Queued(own, n) =>
        IF Linked(pos, k, n) THEN Queued(own, next[n]) /\ pos[next[n]] = pos[n] + 1
                             ELSE next[n] = Nil

(* Walks are on the word's list, and what the Link owner has found is the   *)
(* oldest node.                                                             *)
Walks(own, pos, o, k) ==
    \A t \in Threads :
        /\ pc[t] \in Walk =>
              /\ Queued(own, curr[t]) /\ Queued(own, arg[t].tail)
              /\ pos[k] <= pos[curr[t]] /\ pos[curr[t]] <= pos[arg[t].tail]
        /\ pc[t] = "wakeChoose" => first[t] = o /\ arg[t].tail = k
        /\ pc[t] = "releaseWalk" => Queued(own, curr[t])

(* With Many set, every node that knows the oldest knows the right one, and *)
(* its snapshot counts the shared owners that are to come.                  *)
Snapshot(own, o) ==
    word.many => /\ \A n \in Threads : Queued(own, n) => head[n] \in {Nil, o}
                 /\ head[o] = o
                 /\ snap[o] = Cardinality(SharedOwners \ Last)

(* A waker has the whole rest of its list before it. *)
Chains(own, pos) ==
    /\ \A n \in Threads : Member(n) /\ own[n] # Nil => pc[own[n]] \in Wakers
    /\ \A t \in Threads : pc[t] \in Wakers =>
          /\ In(own, t, first[t])
          /\ pc[t] = "wakeRelease" => ~spin[first[t]]
          /\ \A n \in Threads : In(own, t, n) =>
               /\ pos[first[t]] <= pos[n]
               /\ IF next[n] = Nil
                    THEN \A m \in Threads : In(own, t, m) => pos[m] <= pos[n]
                    ELSE In(own, t, next[n]) /\ pos[next[n]] = pos[n] + 1

Shape(own, pos, o, k) ==
    /\ Places(own, pos) /\ Queue(own, pos, o, k) /\ Links(own, pos, k)
    /\ Walks(own, pos, o, k) /\ Snapshot(own, o) /\ Chains(own, pos)

ListInv == \E own \in [Threads -> NodePtr], pos \in [Threads -> Int],
              o \in NodePtr, k \in NodePtr : Shape(own, pos, o, k)

SrwInv == WordInv /\ ListInv

-----------------------------------------------------------------------------
(* Every step keeps the lists.                                              *)

(* How a thread may move without touching a list: not at all, between       *)
(* places that hold no node, into a walk from the newest node, or on with   *)
(* the same node as a waker.                                                *)
Moves(own, t) ==
    \/ /\ pc'[t] = pc[t] /\ curr'[t] = curr[t] /\ arg'[t] = arg[t] /\ first'[t] = first[t]
    \/ /\ pc[t] \notin Walk \cup Wakers
       /\ pc'[t] \notin Walk \cup Wakers \cup {"wakeChoose", "releaseWalk"}
    \/ /\ pc[t] \notin Walk \cup Wakers
       /\ pc'[t] \in Walk /\ word.wait /\ curr'[t] = word.tail /\ arg'[t].tail = word.tail
    \/ /\ pc[t] \notin Walk \cup Wakers
       /\ pc'[t] = "releaseWalk" /\ Queued(own, curr'[t])
    \/ /\ pc[t] \in Wakers /\ pc'[t] \in Wakers /\ first'[t] = first[t]
       /\ pc'[t] = "wakeRelease" => ~spin'[first[t]]

(* Such a step keeps the lists. *)
LEMMA ListsKept ==
  ASSUME TypeOK, NEW own \in [Threads -> NodePtr], NEW pos \in [Threads -> Int],
         NEW o \in NodePtr, NEW k \in NodePtr, Shape(own, pos, o, k),
         word'.wait = word.wait, word'.tail = word.tail, word.many => word.wait,
         word'.many => /\ word.many
                       /\ \/ snap'[o] = Cardinality(SharedOwners' \ Last')
                          \/ snap'[o] = snap[o] /\ SharedOwners' \ Last' = SharedOwners \ Last,
         \A n \in Threads : Member(n)' <=> Member(n),
         \A n \in Threads : Member(n) => /\ prev'[n] = prev[n] /\ head'[n] = head[n]
                                         /\ next'[n] = next[n] /\ (spin'[n] => spin[n]),
         \A t \in Threads : Moves(own, t)
  PROVE  Shape(own, pos, o, k)'
<1>0. /\ \A c : \A n : In(own, c, n)' <=> In(own, c, n)
      /\ \A n : Queued(own, n)' <=> Queued(own, n)
      /\ \A n : Queued(own, n) => n \in Threads /\ Member(n)
      /\ \A n : Member(n) => n \in Threads
  BY DEF Queued, In, Member
<1>1. Places(own, pos)'
  BY DEF Shape, Places
<1>2. Queue(own, pos, o, k)'
  BY <1>0 DEF Shape, Queue
<1>3. \A n \in Threads : Queued(own, n) => (Linked(pos, k, n)' <=> Linked(pos, k, n))
  <2> SUFFICES ASSUME NEW n \in Threads, NEW t \in Threads, Queued(own, n)
               PROVE  /\ pc'[t] \in Walk /\ pos[curr'[t]] <= pos[n] /\ pos[n] < pos[arg'[t].tail]
                      <=> /\ pc[t] \in Walk
                          /\ pos[curr[t]] <= pos[n] /\ pos[n] < pos[arg[t].tail]
    BY DEF Linked
  <2>1. word.wait => pos[word.tail] \in Int
    BY <1>0 DEF Shape, Queue
  <2> QED
    BY <2>1 DEF Moves, Walk, Wakers
<1>4. Links(own, pos, k)'
  BY <1>0, <1>3 DEF Shape, Links
<1>5. Walks(own, pos, o, k)'
  <2> SUFFICES ASSUME NEW t \in Threads
               PROVE  /\ pc'[t] \in Walk =>
                           /\ Queued(own, curr'[t]) /\ Queued(own, arg'[t].tail)
                           /\ pos[k] <= pos[curr'[t]] /\ pos[curr'[t]] <= pos[arg'[t].tail]
                      /\ pc'[t] = "wakeChoose" => first'[t] = o /\ arg'[t].tail = k
                      /\ pc'[t] = "releaseWalk" => Queued(own, curr'[t])
    BY <1>0 DEF Walks
  <2>1. CASE pc'[t] \in Walk /\ word.wait /\ curr'[t] = word.tail /\ arg'[t].tail = word.tail
    <3>1. Queued(own, word.tail) /\ pos[k] <= pos[word.tail] /\ pos[word.tail] \in Int
      BY <1>0, <2>1 DEF Shape, Queue
    <3> QED
      BY <2>1, <3>1 DEF Walk
  <2>2. CASE ~(pc'[t] \in Walk /\ word.wait /\ curr'[t] = word.tail /\ arg'[t].tail = word.tail)
    BY <2>2 DEF Moves, Shape, Walks, Walk, Wakers
  <2> QED
    BY <2>1, <2>2
<1>6. Snapshot(own, o)'
  <2>1. word.many => Queued(own, o) /\ Member(o)
    BY <1>0 DEF Shape, Queue
  <2> QED
    BY <1>0, <2>1 DEF Shape, Snapshot
<1>7. Chains(own, pos)'
  <2>1. \A t \in Threads : pc'[t] \in Wakers <=> pc[t] \in Wakers
    BY DEF Moves, Walk, Wakers
  <2>2. ASSUME NEW t \in Threads, pc[t] \in Wakers
        PROVE  /\ first'[t] = first[t] /\ In(own, t, first[t])
               /\ pc'[t] = "wakeRelease" => ~spin'[first[t]]
    <3>1. In(own, t, first[t]) /\ Member(first[t]) /\ first[t] \in Threads
      BY <1>0, <2>2 DEF Shape, Chains, In
    <3>2. pc[t] = "wakeRelease" => ~spin[first[t]]
      BY <2>2 DEF Shape, Chains
    <3>3. first'[t] = first[t]
      BY <2>2 DEF Moves, Walk, Wakers
    <3>4. pc'[t] = "wakeRelease" => ~spin'[first[t]]
      BY <2>2, <3>1, <3>2 DEF Moves
    <3> QED
      BY <3>1, <3>3, <3>4
  <2>3. \A n \in Threads : Member(n)' /\ own[n] # Nil => pc'[own[n]] \in Wakers
    <3> SUFFICES ASSUME NEW n \in Threads, Member(n), own[n] # Nil PROVE pc'[own[n]] \in Wakers
      OBVIOUS
    <3>1. own[n] \in Threads /\ pc[own[n]] \in Wakers
      BY DEF NodePtr, Shape, Chains
    <3> QED
      BY <2>1, <3>1
  <2>4. ASSUME NEW t \in Threads, pc'[t] \in Wakers, NEW n \in Threads, In(own, t, n)
        PROVE  /\ pos[first[t]] <= pos[n]
               /\ IF next'[n] = Nil
                    THEN \A m \in Threads : In(own, t, m) => pos[m] <= pos[n]
                    ELSE In(own, t, next'[n]) /\ pos[next'[n]] = pos[n] + 1
    <3>1. next'[n] = next[n]
      BY <2>4 DEF In
    <3> QED
      BY <2>1, <2>4, <3>1 DEF Shape, Chains
  <2> QED
    BY <1>0, <2>1, <2>2, <2>3, <2>4 DEF Chains
<1> QED
  BY <1>1, <1>2, <1>4, <1>5, <1>6, <1>7 DEF Shape

(* The same for a step that moves t alone and writes no node. *)
LEMMA OneMoves ==
  ASSUME WordInv, NEW own \in [Threads -> NodePtr], NEW pos \in [Threads -> Int],
         NEW o \in NodePtr, NEW k \in NodePtr, Shape(own, pos, o, k),
         NEW t \in Threads, NEW l, pc' = [pc EXCEPT ![t] = l],
         pc[t] # "blocked", l # "blocked",
         word'.wait = word.wait, word'.tail = word.tail,
         word'.many => /\ word.many
                       /\ pc[t] \in {"heldS", "releaseS", "releaseWalk"}
                            <=> l \in {"heldS", "releaseS", "releaseWalk"},
         UNCHANGED <<prev, head, next, snap, spin>>,
         \A u \in Threads \ {t} : curr'[u] = curr[u] /\ arg'[u] = arg[u] /\ first'[u] = first[u],
         Moves(own, t)
  PROVE  Shape(own, pos, o, k)'
<1>1. TypeOK /\ pc \in [Threads -> PcSet] /\ word \in Word
  BY DEF WordInv, TypeInv, TypeOK
<1>2. pc'[t] = l /\ \A u \in Threads \ {t} : pc'[u] = pc[u]
  BY <1>1
<1>3. \A n \in Threads : Member(n)' <=> Member(n)
  BY <1>2 DEF Member
<1>4. word'.many => word.many /\ snap'[o] = snap[o] /\ SharedOwners' \ Last' = SharedOwners \ Last
  BY <1>2 DEF SharedOwners, Last
<1>5. \A u \in Threads : Moves(own, u)
  BY <1>2 DEF Moves
<1>6. word.many => word.wait
  BY DEF WordInv, Owners
<1>7. \A n \in Threads : Member(n) => /\ prev'[n] = prev[n] /\ head'[n] = head[n]
                                      /\ next'[n] = next[n] /\ (spin'[n] => spin[n])
  OBVIOUS
<1> QED
  BY <1>1, <1>3, <1>4, <1>5, <1>6, <1>7, ListsKept

(* Acquires and releases that touch no list. *)
LEMMA OwnerSteps ==
  ASSUME WordInv, NEW own \in [Threads -> NodePtr], NEW pos \in [Threads -> Int],
         NEW o \in NodePtr, NEW k \in NodePtr, Shape(own, pos, o, k), NEW t \in Threads,
         \/ RtlAcquireSRWLockExclusive(t) \/ RtlAcquireSRWLockShared(t)
         \/ RtlTryAcquireSRWLockExclusive(t)
         \/ Reload(t) \/ LoseRace(t)
         \/ RtlReleaseSRWLockExclusive(t)
  PROVE  Shape(own, pos, o, k)'
<1>0. /\ pc \in [Threads -> PcSet] /\ word \in Word /\ Owners /\ Flow
      /\ call \in [Threads -> CallSet] /\ old \in [Threads -> Word]
  BY DEF WordInv, TypeInv, TypeOK
<1>1. /\ SetHold(word).wait = word.wait /\ SetHold(word).tail = word.tail
      /\ ClearHold(word).wait = word.wait /\ ClearHold(word).tail = word.tail
      /\ SetHold(word).many = word.many /\ ClearHold(word).many = word.many
  BY <1>0, WordFields
<1>2. ~word.hold => ~word.many
  BY <1>0 DEF Owners
<1>3. ASSUME NEW l \in PcSet, pc' = [pc EXCEPT ![t] = l],
             pc[t] \in {"idle", "load", "cas", "heldX"},
             l \in {"idle", "load", "cas", "heldX", "heldS", "releaseX"},
             word' = word \/ (word'.wait = word.wait /\ word'.tail = word.tail /\ ~word'.many),
             l # "heldS" \/ ~word'.many,
             UNCHANGED <<nodeVars, arg, curr, first>>
      PROVE  Shape(own, pos, o, k)'
  <2>1. Moves(own, t)
    BY <1>0, <1>3 DEF Moves, Walk, Wakers
  <2> QED
    BY <1>0, <1>3, <2>1, OneMoves DEF nodeVars
<1>4. CASE RtlAcquireSRWLockExclusive(t)
  BY <1>0, <1>1, <1>2, <1>3, <1>4 DEF RtlAcquireSRWLockExclusive, Goto, PcSet
<1>5. CASE RtlAcquireSRWLockShared(t)
  BY <1>0, <1>3, <1>5, FreeFields DEF RtlAcquireSRWLockShared, Goto, PcSet
<1>6. CASE RtlTryAcquireSRWLockExclusive(t)
  BY <1>0, <1>1, <1>2, <1>3, <1>6 DEF RtlTryAcquireSRWLockExclusive, Goto, PcSet
<1>7. CASE Reload(t)
  <2>1. call[t] # "TryAcquireShared"
    BY <1>0 DEF Flow
  <2> QED
    BY <1>0, <1>3, <1>7, <2>1 DEF Reload, Goto, PcSet
<1>8. CASE LoseRace(t)
  <2>1. pc[t] = "cas"
    BY <1>0, <1>8 DEF Flow, LoseRace
  <2> QED
    BY <1>0, <1>3, <1>8, <2>1 DEF LoseRace, Goto, PcSet
<1>9. CASE RtlReleaseSRWLockExclusive(t)
  <2>1. ~word.many
    BY <1>0, <1>9 DEF RtlReleaseSRWLockExclusive, Owners, Writers
  <2> QED
    BY <1>0, <1>1, <1>3, <1>9, <2>1 DEF RtlReleaseSRWLockExclusive, Goto, PcSet
<1> QED
  BY <1>4, <1>5, <1>6, <1>7, <1>8, <1>9

(* The steps of a shared release, but for the one that writes a snapshot. *)
LEMMA SharedReleaseSteps ==
  ASSUME WordInv, NEW own \in [Threads -> NodePtr], NEW pos \in [Threads -> Int],
         NEW o \in NodePtr, NEW k \in NodePtr, Shape(own, pos, o, k), NEW t \in Threads,
         RtlReleaseSRWLockShared(t) \/ ReleaseCount(t) \/ ReleaseWalk(t) \/ ReleaseLast(t)
  PROVE  Shape(own, pos, o, k)'
<1>0. /\ pc \in [Threads -> PcSet] /\ word \in Word /\ Owners /\ Copies
      /\ call \in [Threads -> CallSet] /\ old \in [Threads -> Word]
      /\ arg \in [Threads -> Word] /\ curr \in [Threads -> NodePtr]
      /\ first \in [Threads -> NodePtr]
  BY DEF WordInv, TypeInv, TypeOK
<1>1. word.wait => Queued(own, word.tail) /\ Queued(own, o)
  BY DEF Shape, Queue
<1>2. ASSUME pc[t] \in {"heldS", "releaseS"}, ReleaseSharedFrom(t, word),
             UNCHANGED <<word, nodeVars, arg, first>>
      PROVE  Shape(own, pos, o, k)'
  <2>1. t \in SharedOwners
    BY <1>2 DEF SharedOwners
  <2>2. PICK l \in {"releaseS", "releaseWalk", "releaseLast"} :
            /\ pc' = [pc EXCEPT ![t] = l]
            /\ curr' = [curr EXCEPT ![t] = word.tail]
            /\ l = "releaseS" => ~word.wait
            /\ l # "releaseS" => word.wait
            /\ l = "releaseWalk" => word.many
            /\ l = "releaseLast" => ~word.many
    BY <1>2, <2>1, ReleaseFromPlace
  <2>3. Moves(own, t)
    BY <1>0, <1>1, <1>2, <2>2 DEF Moves, Walk, Wakers
  <2> QED
    BY <1>0, <1>2, <2>2, <2>3, OneMoves DEF nodeVars, Owners
<1>3. ASSUME NEW l \in {"idle", "releaseLast", "wakeHeld", "wakeWalk"}, pc' = [pc EXCEPT ![t] = l],
             pc[t] \in SharedPcs,
             word'.wait = word.wait, word'.tail = word.tail,
             ~word'.many \/ (word' = word /\ pc[t] = "releaseLast" /\ l = "releaseLast"),
             UNCHANGED nodeVars,
             \A u \in Threads \ {t} : curr'[u] = curr[u] /\ arg'[u] = arg[u] /\ first'[u] = first[u],
             l = "wakeWalk" => word.wait /\ curr'[t] = word.tail /\ arg'[t].tail = word.tail
      PROVE  Shape(own, pos, o, k)'
  <2>1. Moves(own, t)
    BY <1>0, <1>3 DEF Moves, Walk, Wakers, SharedPcs
  <2> QED
    BY <1>0, <1>3, <2>1, OneMoves DEF nodeVars, SharedPcs
<1>4. CASE RtlReleaseSRWLockShared(t)
  <2>1. CASE word = OneShared
    BY <1>0, <1>3, <1>4, <2>1, FreeFields DEF RtlReleaseSRWLockShared, Goto, SharedPcs
  <2>2. CASE word # OneShared
    BY <1>2, <1>4, <2>2 DEF RtlReleaseSRWLockShared
  <2> QED
    BY <2>1, <2>2
<1>5. CASE ReleaseCount(t)
  <2>1. CASE word = old[t]
    <3>1. /\ pc[t] = "releaseS" /\ ~word.wait /\ ~word.many /\ word.count \in Nat
          /\ word' = OneLess(word) /\ Return(t, "idle") /\ UNCHANGED nodeVars
      BY <1>0, <1>5, <2>1, WordFields DEF ReleaseCount, Copies, Owners
    <3>2. word.tail = Nil /\ word.wait = FALSE
      BY <1>0, <3>1, WordFields DEF Shape, Queue
    <3>3. word'.wait = word.wait /\ word'.tail = word.tail /\ ~word'.many
      <4>1. CASE word.count > 1
        BY <1>0, <3>1, <4>1, SharedFields
      <4>2. CASE word.count <= 1
        BY <1>0, <3>1, <3>2, <4>2, SharedFields, FreeFields
      <4> QED
        BY <3>1, <4>1, <4>2
    <3> QED
      BY <1>0, <1>3, <3>1, <3>3 DEF Return, Goto, SharedPcs
  <2>2. CASE word # old[t]
    BY <1>2, <1>5, <2>2 DEF ReleaseCount
  <2> QED
    BY <2>1, <2>2
<1>6. CASE ReleaseWalk(t)
  <2>1. /\ pc[t] = "releaseWalk" /\ head[curr[t]] = Nil /\ curr[t] # Nil
        /\ curr' = [curr EXCEPT ![t] = prev[curr[t]]]
        /\ UNCHANGED <<word, nodeVars, pc, arg, first>> /\ pc' = [pc EXCEPT ![t] = "releaseWalk"]
    BY <1>0, <1>6 DEF ReleaseWalk
  <2>2. word.many /\ word.wait
    BY <1>0, <2>1 DEF Copies, Owners
  <2>3. Queued(own, curr[t]) /\ head[o] = o /\ o \in Threads /\ curr[t] \in Threads
    BY <1>1, <2>1, <2>2 DEF Shape, Walks, Snapshot, Queued, In, Member
  <2>4. curr[t] # o
    BY <2>1, <2>3, NilIsNoThread
  <2>5. Queued(own, prev[curr[t]])
    BY <2>2, <2>3, <2>4 DEF Shape, Queue
  <2>6. Moves(own, t)
    BY <1>0, <2>1, <2>5 DEF Moves, Walk, Wakers
  <2> QED
    BY <1>0, <2>1, <2>6, OneMoves DEF nodeVars
<1>7. CASE ReleaseLast(t)
  <2>1. CASE word = old[t]
    <3>1. /\ pc[t] = "releaseLast" /\ word.wait /\ word' = Released(word) /\ UNCHANGED nodeVars
      BY <1>0, <1>7, <2>1 DEF ReleaseLast, Owners, Last
    <3>2. word'.wait = word.wait /\ word'.tail = word.tail /\ ~word'.many
      BY <1>0, <3>1, WordFields
    <3>3. CASE word.link
      <4>1. Return(t, "idle")
        BY <1>7, <2>1, <3>3 DEF ReleaseLast
      <4> QED
        BY <1>0, <1>3, <3>1, <3>2, <4>1 DEF Return, Goto, SharedPcs
    <3>4. CASE ~word.link
      <4>1. EnterWake(t, word') /\ UNCHANGED first
        BY <1>7, <2>1, <3>1, <3>4 DEF ReleaseLast
      <4> QED
        BY <1>0, <1>3, <3>1, <3>2, <4>1 DEF EnterWake, Goto, SharedPcs
    <3> QED
      BY <3>3, <3>4
  <2>2. CASE word # old[t]
    <3>1. /\ pc[t] = "releaseLast" /\ pc' = [pc EXCEPT ![t] = "releaseLast"]
          /\ UNCHANGED <<word, nodeVars, arg, curr, first>>
      BY <1>0, <1>7, <2>2 DEF ReleaseLast
    <3> QED
      BY <1>0, <1>3, <3>1 DEF SharedPcs
  <2> QED
    BY <2>1, <2>2
<1> QED
  BY <1>4, <1>5, <1>6, <1>7

(* The steps of the Link owner and of a waker that touch no list. *)
LEMMA LinkSteps ==
  ASSUME WordInv, NEW own \in [Threads -> NodePtr], NEW pos \in [Threads -> Int],
         NEW o \in NodePtr, NEW k \in NodePtr, Shape(own, pos, o, k), NEW t \in Threads,
         \/ ClaimWake(t) \/ CompressDone(t) \/ WakeHeld(t)
         \/ WakeAllChosen(t) /\ word # arg[t]
         \/ WakeUnlink(t)
         \/ WakeSignal(t) /\ ~spin[first[t]]
  PROVE  Shape(own, pos, o, k)'
<1>0. /\ pc \in [Threads -> PcSet] /\ word \in Word /\ Owners /\ Copies /\ LinkIsOwned
      /\ call \in [Threads -> CallSet] /\ old \in [Threads -> Word]
      /\ arg \in [Threads -> Word] /\ curr \in [Threads -> NodePtr]
      /\ first \in [Threads -> NodePtr] /\ head \in [Threads -> NodePtr]
      /\ spin \in [Threads -> BOOLEAN]
  BY DEF WordInv, TypeInv, TypeOK
<1>1. /\ SetLink(word).wait = word.wait /\ SetLink(word).tail = word.tail
      /\ ClearLink(word).wait = word.wait /\ ClearLink(word).tail = word.tail
      /\ SetLink(word).many = word.many /\ ClearLink(word).many = word.many
  BY <1>0, WordFields
<1>2. ASSUME NEW l \in {"idle", "spin", "compressWalk", "wakeHeld", "wakeWalk"},
             pc' = [pc EXCEPT ![t] = l],
             pc[t] \in {"releaseX", "compressCas", "wakeHeld", "wakeChoose"},
             word'.wait = word.wait, word'.tail = word.tail, word'.many = word.many,
             UNCHANGED <<prev, head, next, snap, spin>>,
             \A u \in Threads \ {t} : curr'[u] = curr[u] /\ arg'[u] = arg[u] /\ first'[u] = first[u],
             l \in Walk => word.wait /\ curr'[t] = word.tail /\ arg'[t].tail = word.tail
      PROVE  Shape(own, pos, o, k)'
  <2>1. Moves(own, t)
    BY <1>0, <1>2 DEF Moves, Walk, Wakers
  <2> QED
    BY <1>0, <1>2, <2>1, OneMoves
<1>3. CASE ClaimWake(t)
  <2>1. CASE word = old[t]
    <3>1. /\ pc[t] = "releaseX" /\ word.wait /\ word' = SetLink(word) /\ EnterWake(t, SetLink(word))
          /\ UNCHANGED <<nodeVars, first>>
      BY <1>0, <1>3, <2>1 DEF ClaimWake, Copies
    <3>2. PICK l \in {"compressWalk", "wakeHeld", "wakeWalk"} :
            /\ pc' = [pc EXCEPT ![t] = l] /\ arg' = [arg EXCEPT ![t] = word']
            /\ curr' = [curr EXCEPT ![t] = word.tail]
      BY <1>1, <3>1, EnterPlace
    <3> QED
      BY <1>0, <1>1, <1>2, <3>1, <3>2 DEF nodeVars
  <2>2. CASE word # old[t]
    BY <1>0, <1>2, <1>3, <2>2 DEF ClaimWake, Return, Goto, nodeVars, Walk
  <2> QED
    BY <2>1, <2>2
<1>4. CASE CompressDone(t) \/ WakeHeld(t)
  <2>0. /\ pc[t] \in {"compressCas", "wakeHeld"} /\ UNCHANGED nodeVars
        /\ \/ /\ word = arg[t] /\ word' = ClearLink(word)
              /\ pc' = [pc EXCEPT ![t] = AfterLinkWork(t)] /\ EndLinkWork(t)
           \/ /\ word # arg[t] /\ (EnterCompress(t, word) \/ EnterWake(t, word))
              /\ UNCHANGED <<word, first>>
    BY <1>4 DEF CompressDone, WakeHeld, Goto
  <2>1. CASE word = arg[t]
    BY <1>0, <1>1, <1>2, <2>0, <2>1, LeavePlace DEF nodeVars, Walk
  <2>2. CASE word # arg[t]
    <3>1. word.wait
      BY <1>0, <2>0 DEF LinkIsOwned, OwnsLink
    <3>2. PICK l \in {"compressWalk", "wakeHeld", "wakeWalk"} :
            /\ pc' = [pc EXCEPT ![t] = l] /\ arg' = [arg EXCEPT ![t] = word]
            /\ curr' = [curr EXCEPT ![t] = word.tail]
      BY <2>0, <2>2, EnterPlace
    <3> QED
      BY <1>0, <1>2, <2>0, <2>2, <3>1, <3>2 DEF nodeVars
  <2> QED
    BY <2>1, <2>2
<1>5. CASE WakeAllChosen(t) /\ word # arg[t]
  <2>1. /\ pc[t] = "wakeChoose" /\ head' = [head EXCEPT ![arg[t].tail] = first[t]]
        /\ EnterWake(t, word) /\ UNCHANGED <<word, prev, next, snap, spin, first>>
    BY <1>5 DEF WakeAllChosen
  <2>2. word.wait
    BY <1>0, <2>1 DEF LinkIsOwned, OwnsLink
  <2>3. head' = head
    <3>1. first[t] = o /\ arg[t].tail = k /\ head[k] = o
      BY <2>1, <2>2 DEF Shape, Walks, Queue
    <3> QED
      BY <1>0, <2>1, <3>1
  <2>4. PICK l \in {"compressWalk", "wakeHeld", "wakeWalk"} :
            /\ pc' = [pc EXCEPT ![t] = l] /\ arg' = [arg EXCEPT ![t] = word]
            /\ curr' = [curr EXCEPT ![t] = word.tail]
    BY <2>1, EnterPlace
  <2> QED
    BY <1>0, <1>2, <2>1, <2>2, <2>3, <2>4
<1>6. CASE WakeUnlink(t)
  <2>1. /\ pc[t] = "wakeUnlink" /\ pc' = [pc EXCEPT ![t] = "wakeSignal"] /\ word' = ClearLink(word)
        /\ UNCHANGED <<nodeVars, arg, curr, first>>
    BY <1>6 DEF WakeUnlink, Goto
  <2>2. Moves(own, t)
    BY <1>0, <2>1 DEF Moves, Walk, Wakers
  <2> QED
    BY <1>0, <1>1, <2>1, <2>2, OneMoves DEF nodeVars
<1>7. CASE WakeSignal(t) /\ ~spin[first[t]]
  <2>1. /\ pc[t] = "wakeSignal" /\ pc' = [pc EXCEPT ![t] = "wakeRelease"]
        /\ spin' = [spin EXCEPT ![first[t]] = FALSE]
        /\ UNCHANGED <<word, prev, head, next, snap, arg, curr, first>>
    BY <1>7 DEF WakeSignal, Goto
  <2>2. first[t] \in Threads
    BY <2>1 DEF Shape, Chains, Wakers, In, Member
  <2>3. spin' = spin
    BY <1>0, <1>7, <2>1, <2>2
  <2>4. Moves(own, t)
    BY <1>0, <1>7, <2>1, <2>3 DEF Moves, Walk, Wakers
  <2> QED
    BY <1>0, <2>1, <2>3, <2>4, OneMoves
<1> QED
  BY <1>3, <1>4, <1>5, <1>6, <1>7

(* A thread takes the lock or parks: its node is on no list, or stays. *)
LEMMA WaiterSteps ==
  ASSUME WordInv, NEW own \in [Threads -> NodePtr], NEW pos \in [Threads -> Int],
         NEW o \in NodePtr, NEW k \in NodePtr, Shape(own, pos, o, k), NEW t \in Threads,
         TakeLock(t) \/ Park(t)
  PROVE  Shape(own, pos, o, k)'
<1>0. /\ TypeOK /\ pc \in [Threads -> PcSet] /\ word \in Word /\ Owners /\ Flow
      /\ arg \in [Threads -> Word] /\ curr \in [Threads -> NodePtr]
      /\ first \in [Threads -> NodePtr] /\ head \in [Threads -> NodePtr]
      /\ prev \in [Threads -> NodePtr] /\ next \in [Threads -> NodePtr]
      /\ snap \in [Threads -> Int] /\ spin \in [Threads -> BOOLEAN]
  BY DEF WordInv, TypeInv, TypeOK
<1>1. word.many => word.wait /\ word.hold
  BY <1>0 DEF Owners
<1>2. CASE TakeLock(t)
  <2>1. /\ pc[t] = "cas" /\ ~spin[t] /\ ~Member(t)
    BY <1>0, <1>2 DEF TakeLock, Flow, LinkWork, Member
  <2>2. /\ word'.wait = word.wait /\ word'.tail = word.tail /\ ~word'.many
    <3>1. ~word.many
      BY <1>1, <1>2 DEF TakeLock, MustWait, SharedMustWait
    <3> QED
      BY <1>0, <1>2, <3>1, WordFields, SharedFields DEF TakeLock, TakenExclusive
  <2>3. PICK l \in {"heldX", "heldS"} : pc' = [pc EXCEPT ![t] = l]
    BY <1>2 DEF TakeLock, Return, Goto
  <2>4. /\ \A u \in Threads \ {t} : /\ pc'[u] = pc[u] /\ curr'[u] = curr[u] /\ arg'[u] = arg[u]
                                    /\ first'[u] = first[u] /\ spin'[u] = spin[u]
                                    /\ prev'[u] = prev[u] /\ head'[u] = head[u]
                                    /\ next'[u] = next[u] /\ snap'[u] = snap[u]
        /\ pc'[t] = l /\ ~spin'[t]
    BY <1>0, <1>2, <2>3 DEF TakeLock, Return, DropNode
  <2>5. \A n \in Threads : Member(n)' <=> Member(n)
    BY <2>1, <2>3, <2>4 DEF Member
  <2>6. \A u \in Threads : Moves(own, u)
    BY <2>1, <2>3, <2>4 DEF Moves, Walk, Wakers
  <2> QED
    BY <1>0, <1>1, <2>1, <2>2, <2>4, <2>5, <2>6, ListsKept
<1>3. CASE Park(t)
  <2>1. /\ pc[t] = "spin" /\ spin' = [spin EXCEPT ![t] = FALSE]
        /\ pc' = [pc EXCEPT ![t] = IF spin[t] THEN "blocked" ELSE "cas"]
        /\ UNCHANGED <<word, prev, head, next, snap, arg, curr, first>>
    BY <1>3 DEF Park, Goto
  <2>2. \A n \in Threads : Member(n)' <=> Member(n)
    BY <1>0, <2>1 DEF Member
  <2>3. \A u \in Threads : Moves(own, u)
    BY <1>0, <2>1 DEF Moves, Walk, Wakers
  <2>4. SharedOwners' \ Last' = SharedOwners \ Last
    BY <1>0, <2>1 DEF SharedOwners, Last
  <2>5. \A n \in Threads : spin'[n] => spin[n]
    BY <1>0, <2>1
  <2> QED
    BY <1>0, <1>1, <2>1, <2>2, <2>3, <2>4, <2>5, ListsKept
<1> QED
  BY <1>2, <1>3

(* A thread enqueues its node, which becomes the newest of the word's list. *)
LEMMA EnqueueLists ==
  ASSUME WordInv, NEW own \in [Threads -> NodePtr], NEW pos \in [Threads -> Int],
         NEW o \in NodePtr, NEW k \in NodePtr, Shape(own, pos, o, k), NEW t \in Threads,
         Enqueue(t)
  PROVE  ListInv'
<1>0. /\ TypeOK /\ pc \in [Threads -> PcSet] /\ word \in Word /\ Owners /\ Flow /\ LinkIsOwned
      /\ arg \in [Threads -> Word] /\ curr \in [Threads -> NodePtr] /\ Copies
      /\ first \in [Threads -> NodePtr] /\ head \in [Threads -> NodePtr]
      /\ prev \in [Threads -> NodePtr] /\ next \in [Threads -> NodePtr]
      /\ snap \in [Threads -> Int] /\ spin \in [Threads -> BOOLEAN]
  BY DEF WordInv, TypeInv, TypeOK
<1>1. /\ pc[t] = "cas" /\ word' = Enqueued(t, word)
      /\ prev' = [prev EXCEPT ![t] = word.tail]
      /\ head' = [head EXCEPT ![t] = IF word.wait THEN Nil ELSE t]
      /\ next' = [next EXCEPT ![t] = Nil]
      /\ snap' = [snap EXCEPT ![t] = IF Exclusive(t) THEN word.count ELSE 0]
      /\ spin' = [spin EXCEPT ![t] = TRUE]
      /\ UNCHANGED first
  BY DEF Enqueue
<1>2. /\ word'.wait /\ word'.tail = t
      /\ word.wait => word'.many = word.many
      /\ ~word.wait => (word'.many <=> Exclusive(t) /\ word.count > 1)
  BY <1>0, <1>1, EnqueuedFields
<1>3. PICK l \in {"spin", "compressWalk", "wakeHeld", "wakeWalk"} :
        /\ pc' = [pc EXCEPT ![t] = l]
        /\ l # "spin" => word.wait /\ curr'[t] = t /\ arg'[t].tail = t
        /\ \A u \in Threads \ {t} : curr'[u] = curr[u] /\ arg'[u] = arg[u]
  <2>1. CASE word.wait /\ ~word.link
    <3>1. EnterCompress(t, word')
      BY <1>1, <2>1 DEF Enqueue
    <3> QED
      BY <1>0, <1>2, <2>1, <3>1, EnterPlace
  <2>2. CASE ~(word.wait /\ ~word.link)
    BY <1>0, <2>2 DEF Enqueue, Goto
  <2> QED
    BY <2>1, <2>2
<1>4. /\ pc'[t] = l /\ \A u \in Threads \ {t} : pc'[u] = pc[u]
      /\ \A u \in Threads \ {t} : /\ prev'[u] = prev[u] /\ head'[u] = head[u] /\ next'[u] = next[u]
                                  /\ snap'[u] = snap[u] /\ spin'[u] = spin[u]
      /\ prev'[t] = word.tail /\ head'[t] = (IF word.wait THEN Nil ELSE t) /\ next'[t] = Nil
      /\ snap'[t] = (IF Exclusive(t) THEN word.count ELSE 0) /\ spin'[t]
  BY <1>0, <1>1, <1>3
<1>5. /\ ~Member(t) /\ Member(t)'
      /\ \A u \in Threads \ {t} : Member(u)' <=> Member(u)
  BY <1>0, <1>1, <1>3, <1>4 DEF Member, Flow, LinkWork
<1>6. SharedOwners' \ Last' = SharedOwners \ Last
  BY <1>1, <1>3, <1>4 DEF SharedOwners, Last
<1>7. PICK p \in Int : p = IF word.wait THEN pos[word.tail] + 1 ELSE 0
  <2>1. word.wait => word.tail \in Threads
    BY DEF Shape, Queue, Queued, In, Member
  <2> QED
    BY <2>1
<1>8. PICK own2 \in [Threads -> NodePtr], pos2 \in [Threads -> Int] :
        own2 = [own EXCEPT ![t] = Nil] /\ pos2 = [pos EXCEPT ![t] = p]
  BY DEF NodePtr
<1>9. /\ own2[t] = Nil /\ pos2[t] = p
      /\ \A u \in Threads \ {t} : own2[u] = own[u] /\ pos2[u] = pos[u]
  BY <1>8
<1>10. PICK o2 \in NodePtr, k2 \in NodePtr :
        IF word.wait THEN o2 = o /\ k2 = k ELSE o2 = t /\ k2 = t
  BY DEF NodePtr
<1>11. /\ \A n \in Threads \ {t} : Queued(own2, n)' <=> Queued(own, n)
       /\ Queued(own2, t)'
       /\ \A u \in Threads : \A n \in Threads \ {t} : In(own2, u, n)' <=> In(own, u, n)
       /\ \A u \in Threads : ~In(own2, u, t)' /\ ~In(own, u, t)
       /\ ~Queued(own, t)
       /\ \A n : Queued(own, n) => n \in Threads \ {t}
       /\ \A n, u : In(own, u, n) => n \in Threads \ {t}
       /\ \A n, u : In(own2, u, n)' => n \in Threads
       /\ \A n : Queued(own2, n)' => n \in Threads
  BY <1>5, <1>9, NilIsNoThread DEF Queued, In, Member
<1>12. Chains(own2, pos2)'
  <2>1. ASSUME NEW n \in Threads, Member(n)', own2[n] # Nil PROVE pc'[own2[n]] \in Wakers
    <3>1. n # t /\ own[n] \in Threads /\ pc[own[n]] \in Wakers
      BY <1>5, <1>9, <2>1 DEF Shape, Chains, NodePtr
    <3> QED
      BY <1>1, <1>4, <1>9, <3>1 DEF Wakers
  <2>2. ASSUME NEW u \in Threads, pc'[u] \in Wakers
        PROVE  /\ In(own2, u, first[u])' /\ (pc'[u] = "wakeRelease" => ~spin'[first'[u]])
               /\ \A n \in Threads : In(own2, u, n)' =>
                     /\ pos2[first'[u]] <= pos2[n]
                     /\ IF next'[n] = Nil
                          THEN \A m \in Threads : In(own2, u, m)' => pos2[m] <= pos2[n]
                          ELSE In(own2, u, next[n])' /\ pos2[next'[n]] = pos2[n] + 1
    <3>1. u # t /\ pc[u] \in Wakers /\ first'[u] = first[u]
      BY <1>1, <1>3, <1>4, <2>2 DEF Wakers
    <3>2. /\ In(own, u, first[u]) /\ (pc[u] = "wakeRelease" => ~spin[first[u]])
          /\ \A n \in Threads : In(own, u, n) =>
                     /\ pos[first[u]] <= pos[n]
                     /\ IF next[n] = Nil
                          THEN \A m \in Threads : In(own, u, m) => pos[m] <= pos[n]
                          ELSE In(own, u, next[n]) /\ pos[next[n]] = pos[n] + 1
      BY <3>1 DEF Shape, Chains
    <3>3. /\ In(own2, u, first[u])' /\ (pc'[u] = "wakeRelease" => ~spin'[first'[u]])
      BY <1>4, <1>11, <3>1, <3>2
    <3> QED
      BY <1>4, <1>9, <1>11, <3>1, <3>2, <3>3
  <2> QED
    BY <2>1, <2>2 DEF Chains
<1>13. CASE ~word.wait
  <2>0. /\ \A n \in Threads : ~Queued(own, n)
        /\ word.tail = Nil /\ o2 = t /\ k2 = t
    BY <1>10, <1>13 DEF Shape, Queue
  <2>1. \A n \in Threads : Queued(own2, n)' <=> n = t
    BY <1>11, <2>0
  <2>2. \A u \in Threads : pc'[u] \notin Walk \cup {"wakeChoose", "releaseWalk"}
    <3>1. l = "spin" /\ ~word.link /\ ~word.many
      BY <1>0, <1>3, <1>13 DEF LinkIsOwned, Owners
    <3> QED
      BY <1>0, <1>4, <3>1 DEF LinkIsOwned, OwnsLink, Copies, Walk
  <2>3. Places(own2, pos2)'
    <3> SUFFICES ASSUME NEW m \in Threads, NEW n \in Threads, Member(m)', Member(n)',
                        own2[m] = own2[n], pos2[m] = pos2[n]
                 PROVE  m = n
      BY DEF Places
    <3>1. CASE own2[m] = Nil
      BY <2>1, <3>1 DEF Queued, In
    <3>2. CASE own2[m] # Nil
      <4>1. m # t /\ n # t
        BY <1>9, <3>2
      <4> QED
        BY <1>5, <1>9, <4>1 DEF Shape, Places
    <3> QED
      BY <3>1, <3>2
  <2>4. Queue(own2, pos2, o2, k2)'
    BY <1>2, <1>4, <1>9, <1>13, <2>0, <2>1 DEF Queue
  <2>5. Links(own2, pos2, k2)'
    BY <1>4, <1>9, <2>0, <2>1, <2>2 DEF Links, Linked
  <2>6. Walks(own2, pos2, o2, k2)'
    BY <2>2 DEF Walks
  <2>7. Snapshot(own2, o2)'
    <3>1. word'.many => word'.many /\ snap'[t] = word.count
      BY <1>2, <1>4, <1>13
    <3>2. word.count = Cardinality(SharedOwners' \ Last')
      <4>1. Last = {}
        BY <1>0, <1>13 DEF Owners
      <4>2. SharedOwners' \ Last' = SharedOwners
        BY <1>6, <4>1
      <4> QED
        BY <1>0, <1>13, <4>2 DEF Owners
    <3> QED
      BY <1>4, <1>13, <2>0, <2>1, <3>1, <3>2 DEF Snapshot
  <2> QED
    BY <1>12, <2>3, <2>4, <2>5, <2>6, <2>7 DEF Shape, ListInv
<1>14. CASE word.wait
  <2>0. /\ o2 = o /\ k2 = k /\ p = pos[word.tail] + 1
        /\ Queued(own, word.tail) /\ Queued(own, o) /\ Queued(own, k)
        /\ head[k] = o
        /\ \A n \in Threads : Queued(own, n) =>
                 /\ pos[o] <= pos[n] /\ pos[n] <= pos[word.tail]
                 /\ n # o => Queued(own, prev[n]) /\ pos[prev[n]] = pos[n] - 1
                 /\ pos[k] < pos[n] => head[n] = Nil
    BY <1>7, <1>10, <1>14 DEF Shape, Queue
  <2>1. /\ word.tail \in Threads \ {t} /\ o \in Threads \ {t} /\ k \in Threads \ {t}
        /\ \A n \in Threads : pos2[n] \in Int /\ pos[n] \in Int
        /\ \A n \in Threads : Queued(own, n) => pos2[n] = pos[n] /\ pos2[n] < pos2[t]
    BY <1>9, <1>11, <2>0
  <2>2. Places(own2, pos2)'
    <3> SUFFICES ASSUME NEW m \in Threads, NEW n \in Threads, Member(m)', Member(n)',
                        own2[m] = own2[n], pos2[m] = pos2[n], m # n
                 PROVE  FALSE
      BY DEF Places
    <3>1. CASE m # t /\ n # t
      BY <1>5, <1>9, <3>1 DEF Shape, Places
    <3>2. CASE m = t \/ n = t
      BY <1>9, <1>11, <2>1, <3>2 DEF Queued, In
    <3> QED
      BY <3>1, <3>2
  <2>3. Queue(own2, pos2, o2, k2)'
    <3>1. /\ Queued(own2, t)' /\ Queued(own2, o)' /\ Queued(own2, k)' /\ head'[k] = o
      BY <1>4, <1>11, <2>0, <2>1
    <3>2. ASSUME NEW n \in Threads, Queued(own2, n)'
          PROVE  /\ pos2[o] <= pos2[n] /\ pos2[n] <= pos2[t]
                 /\ n # o => Queued(own2, prev[n])' /\ pos2[prev'[n]] = pos2[n] - 1
                 /\ pos2[k] < pos2[n] => head'[n] = Nil
      <4>1. CASE n = t
        BY <1>4, <1>9, <1>11, <1>14, <2>0, <2>1, <4>1
      <4>2. CASE n # t
        <5>1. Queued(own, n) /\ prev'[n] = prev[n] /\ head'[n] = head[n]
          BY <1>4, <1>11, <3>2, <4>2
        <5>2. n # o => Queued(own, prev[n]) /\ prev[n] \in Threads \ {t} /\ pos[prev[n]] = pos[n] - 1
          BY <1>11, <2>0, <5>1
        <5> QED
          BY <1>9, <1>11, <2>0, <2>1, <5>1, <5>2
      <4> QED
        BY <4>1, <4>2
    <3> QED
      BY <1>2, <2>0, <3>1, <3>2 DEF Queue
  <2>4. ASSUME NEW u \in Threads, pc'[u] \in Walk
        PROVE  \/ u = t /\ curr'[u] = t /\ arg'[u].tail = t
               \/ /\ u # t /\ pc[u] \in Walk /\ curr'[u] = curr[u] /\ arg'[u].tail = arg[u].tail
                  /\ Queued(own, curr[u]) /\ Queued(own, arg[u].tail)
                  /\ pos[k] <= pos[curr[u]] /\ pos[curr[u]] <= pos[arg[u].tail]
    BY <1>3, <1>4, <2>4 DEF Shape, Walks, Walk
  <2>5. ASSUME NEW n \in Threads, Queued(own, n)
        PROVE  Linked(pos2, k2, n)' <=> Linked(pos, k, n)
    <3>1. ASSUME NEW u \in Threads
          PROVE  /\ pc'[u] \in Walk /\ pos2[curr'[u]] <= pos2[n] /\ pos2[n] < pos2[arg'[u].tail]
                 <=> /\ pc[u] \in Walk /\ pos[curr[u]] <= pos[n] /\ pos[n] < pos[arg[u].tail]
      <4>1. CASE u = t
        BY <1>1, <2>1, <2>4, <2>5, <4>1 DEF Walk
      <4>2. CASE u # t
        BY <1>4, <1>11, <2>1, <2>4, <2>5, <4>2
      <4> QED
        BY <4>1, <4>2
    <3> QED
      BY <2>0, <2>1, <2>5, <3>1 DEF Linked
  <2>6. ~Linked(pos2, k2, t)'
    <3>1. ASSUME NEW u \in Threads, pc'[u] \in Walk PROVE ~(pos2[t] < pos2[arg'[u].tail])
      BY <1>11, <2>1, <2>4, <3>1
    <3> QED
      BY <2>0, <2>1, <3>1 DEF Linked
  <2>7. Links(own2, pos2, k2)'
    <3>1. ASSUME NEW n \in Threads, Queued(own2, n)'
          PROVE  IF Linked(pos2, k2, n)'
                   THEN Queued(own2, next[n])' /\ pos2[next'[n]] = pos2[n] + 1
                   ELSE next'[n] = Nil
      <4>1. CASE n = t
        BY <1>4, <2>6, <4>1
      <4>2. CASE n # t
        <5>1. Queued(own, n) /\ next'[n] = next[n]
          BY <1>4, <1>11, <3>1, <4>2
        <5>2. IF Linked(pos, k, n) THEN Queued(own, next[n]) /\ pos[next[n]] = pos[n] + 1
                                   ELSE next[n] = Nil
          BY <5>1 DEF Shape, Links
        <5> QED
          BY <1>11, <2>1, <2>5, <5>1, <5>2
      <4> QED
        BY <4>1, <4>2
    <3> QED
      BY <3>1 DEF Links
  <2>8. Walks(own2, pos2, o2, k2)'
    <3>1. ASSUME NEW u \in Threads
          PROVE  /\ pc'[u] \in Walk =>
                      /\ Queued(own2, curr[u])' /\ Queued(own2, arg[u].tail)'
                      /\ pos2[k] <= pos2[curr'[u]] /\ pos2[curr'[u]] <= pos2[arg'[u].tail]
                 /\ pc'[u] = "wakeChoose" => first'[u] = o /\ arg'[u].tail = k
                 /\ pc'[u] = "releaseWalk" => Queued(own2, curr[u])'
      <4>1. pc'[u] \in Walk => /\ Queued(own2, curr[u])' /\ Queued(own2, arg[u].tail)'
                               /\ pos2[k] <= pos2[curr'[u]] /\ pos2[curr'[u]] <= pos2[arg'[u].tail]
        BY <1>11, <2>0, <2>1, <2>4
      <4>2. pc'[u] \in {"wakeChoose", "releaseWalk"} =>
               pc[u] = pc'[u] /\ u # t /\ first'[u] = first[u] /\ arg'[u] = arg[u] /\ curr'[u] = curr[u]
        BY <1>1, <1>3, <1>4
      <4>3. pc'[u] = "wakeChoose" => first'[u] = o /\ arg'[u].tail = k
        BY <4>2 DEF Shape, Walks
      <4>4. pc'[u] = "releaseWalk" => Queued(own, curr[u])
        BY <4>2 DEF Shape, Walks
      <4> QED
        BY <1>11, <4>1, <4>2, <4>3, <4>4
    <3> QED
      BY <2>0, <3>1 DEF Walks
  <2>9. Snapshot(own2, o2)'
    <3>1. ASSUME word.many
          PROVE  /\ \A n \in Threads : Queued(own2, n)' => head'[n] \in {Nil, o}
                 /\ head'[o] = o /\ snap'[o] = Cardinality(SharedOwners' \ Last')
      <4>1. /\ \A n \in Threads : Queued(own, n) => head[n] \in {Nil, o}
            /\ head[o] = o /\ snap[o] = Cardinality(SharedOwners \ Last)
        BY <3>1 DEF Shape, Snapshot
      <4> QED
        BY <1>4, <1>6, <1>11, <1>14, <2>1, <4>1
    <3> QED
      BY <1>2, <1>14, <2>0, <3>1 DEF Snapshot
  <2> QED
    BY <1>12, <2>2, <2>3, <2>7, <2>8, <2>9 DEF Shape, ListInv
<1> QED
  BY <1>13, <1>14

(* The Link owner walks back one node and sets a next pointer. *)
LEMMA WalkBackLists ==
  ASSUME WordInv, NEW own \in [Threads -> NodePtr], NEW pos \in [Threads -> Int],
         NEW o \in NodePtr, NEW k \in NodePtr, Shape(own, pos, o, k), NEW t \in Threads,
         WalkBack(t)
  PROVE  Shape(own, pos, o, k)'
<1>0. /\ TypeOK /\ pc \in [Threads -> PcSet] /\ LinkIsOwned
      /\ curr \in [Threads -> NodePtr] /\ next \in [Threads -> NodePtr]
  BY DEF WordInv, TypeInv, TypeOK
<1>c. PICK c \in NodePtr, d \in NodePtr : c = curr[t] /\ d = prev[curr[t]]
  BY <1>0 DEF WalkBack, TypeOK, NodePtr
<1>1. /\ pc[t] \in Walk /\ head[c] = Nil /\ c # Nil
      /\ next' = [next EXCEPT ![d] = c] /\ curr' = [curr EXCEPT ![t] = d]
      /\ UNCHANGED <<word, prev, head, snap, spin, pc, arg, first>>
  BY <1>c DEF WalkBack, Walk
<1>2. /\ word.wait
      /\ \A u \in Threads : pc[u] \in Walk \cup {"wakeChoose"} => u = t
  BY <1>0, <1>1 DEF LinkIsOwned, OwnsLink, Walk
<1>3. /\ Queued(own, c) /\ Queued(own, arg[t].tail) /\ Queued(own, k) /\ Queued(own, o)
      /\ pos[k] <= pos[c] /\ pos[c] <= pos[arg[t].tail] /\ head[k] = o /\ pos[o] <= pos[k]
      /\ \A n : Queued(own, n) => n \in Threads /\ Member(n) /\ own[n] = Nil
  BY <1>c, <1>1, <1>2 DEF Shape, Walks, Queue, Queued, In, Member
<1>4. c # k /\ c # o /\ pos[k] < pos[c]
  <2>1. c # k
    BY <1>1, <1>3, NilIsNoThread
  <2>2. pos[c] # pos[k]
    BY <1>3, <2>1 DEF Shape, Places
  <2> QED
    BY <1>3, <2>1, <2>2
<1>5. Queued(own, d) /\ pos[d] = pos[c] - 1 /\ d \in Threads
  BY <1>c, <1>2, <1>3, <1>4 DEF Shape, Queue
<1>6. /\ \A c2 : \A n : In(own, c2, n)' <=> In(own, c2, n)
      /\ \A n : Queued(own, n)' <=> Queued(own, n)
      /\ \A n : Member(n)' <=> Member(n)
      /\ curr'[t] = d /\ \A u \in Threads \ {t} : curr'[u] = curr[u]
      /\ next'[d] = c /\ \A n \in Threads \ {d} : next'[n] = next[n]
      /\ \A n \in Threads : pos[n] \in Int
  BY <1>0, <1>1, <1>5 DEF Queued, In, Member
<1>7. Places(own, pos)' /\ Queue(own, pos, o, k)'
  BY <1>1, <1>6 DEF Shape, Places, Queue
<1>8. ASSUME NEW n \in Threads, Queued(own, n)
      PROVE  Linked(pos, k, n)' <=> Linked(pos, k, n) \/ n = d
  <2>1. Linked(pos, k, n) <=> \/ pos[n] < pos[k]
                              \/ pos[c] <= pos[n] /\ pos[n] < pos[arg[t].tail]
    BY <1>c, <1>1, <1>2 DEF Linked
  <2>2. Linked(pos, k, n)' <=> \/ pos[n] < pos[k]
                               \/ pos[d] <= pos[n] /\ pos[n] < pos[arg[t].tail]
    BY <1>1, <1>2, <1>6 DEF Linked
  <2>3. n = d <=> pos[n] = pos[d]
    BY <1>3, <1>5, <1>8 DEF Shape, Places
  <2> QED
    BY <1>3, <1>5, <1>6, <2>1, <2>2, <2>3
<1>9. Links(own, pos, k)'
  <2>1. ASSUME NEW n \in Threads, Queued(own, n)
        PROVE  IF Linked(pos, k, n)' THEN Queued(own, next'[n]) /\ pos[next'[n]] = pos[n] + 1
                                     ELSE next'[n] = Nil
    <3>1. CASE n = d
      BY <1>3, <1>5, <1>6, <1>8, <2>1, <3>1
    <3>2. CASE n # d
      BY <1>6, <1>8, <2>1, <3>2 DEF Shape, Links
    <3> QED
      BY <3>1, <3>2
  <2> QED
    BY <1>6, <2>1 DEF Links
<1>10. Walks(own, pos, o, k)'
  <2>1. ASSUME NEW u \in Threads, pc[u] \in Walk
        PROVE  /\ Queued(own, curr'[u]) /\ Queued(own, arg[u].tail)
               /\ pos[k] <= pos[curr'[u]] /\ pos[curr'[u]] <= pos[arg[u].tail]
    BY <1>2, <1>3, <1>4, <1>5, <1>6, <2>1
  <2>2. ASSUME NEW u \in Threads, pc[u] = "releaseWalk" PROVE Queued(own, curr'[u])
    <3>1. u # t
      BY <1>1, <2>2 DEF Walk
    <3> QED
      BY <1>6, <2>2, <3>1 DEF Shape, Walks
  <2>3. \A u \in Threads : pc[u] # "wakeChoose"
    BY <1>1, <1>2 DEF Walk
  <2> QED
    BY <1>1, <1>6, <2>1, <2>2, <2>3 DEF Walks
<1>11. Snapshot(own, o)'
  <2>1. SharedOwners' = SharedOwners /\ Last' = Last
    BY <1>1 DEF SharedOwners, Last
  <2> QED
    BY <1>1, <1>6, <2>1 DEF Shape, Snapshot
<1>12. Chains(own, pos)'
  <2>1. \A u \in Threads : \A n \in Threads : In(own, u, n) => next'[n] = next[n]
    BY <1>3, <1>5, <1>6, NilIsNoThread DEF In
  <2> QED
    BY <1>1, <1>6, <2>1 DEF Shape, Chains
<1> QED
  BY <1>7, <1>9, <1>10, <1>11, <1>12 DEF Shape

(* The walk ends at the newest node that knows the oldest, and its start    *)
(* becomes that node.                                                       *)
LEMMA FoundLists ==
  ASSUME WordInv, NEW own \in [Threads -> NodePtr], NEW pos \in [Threads -> Int],
         NEW o \in NodePtr, NEW k \in NodePtr, Shape(own, pos, o, k), NEW t \in Threads,
         CompressFound(t) \/ WakeFound(t)
  PROVE  ListInv'
<1>0. /\ TypeOK /\ pc \in [Threads -> PcSet] /\ LinkIsOwned
      /\ first \in [Threads -> NodePtr] /\ head \in [Threads -> NodePtr]
  BY DEF WordInv, TypeInv, TypeOK
<1>c. PICK c \in NodePtr, k2 \in NodePtr : c = curr[t] /\ k2 = arg[t].tail
  BY <1>0 DEF TypeOK, NodePtr, Word
<1>1. /\ pc[t] \in Walk /\ head[c] # Nil
      /\ head' = [head EXCEPT ![k2] = head[c]]
      /\ UNCHANGED <<word, prev, next, snap, spin, curr, arg>>
      /\ \A u \in Threads \ {t} : first'[u] = first[u] /\ pc'[u] = pc[u]
      /\ pc'[t] \in {"compressCas", "wakeChoose"}
      /\ pc'[t] = "wakeChoose" => first'[t] = head[c]
  BY <1>0, <1>c DEF CompressFound, WakeFound, Walk, Goto
<1>2. /\ word.wait
      /\ \A u \in Threads : pc[u] \in Walk \cup {"wakeChoose"} => u = t
  BY <1>0, <1>1 DEF LinkIsOwned, OwnsLink, Walk
<1>3. /\ Queued(own, c) /\ Queued(own, k2) /\ Queued(own, k) /\ Queued(own, o)
      /\ pos[k] <= pos[c] /\ pos[c] <= pos[k2] /\ head[k] = o
      /\ \A n : Queued(own, n) => n \in Threads /\ Member(n) /\ own[n] = Nil
      /\ pos[k] < pos[c] => head[c] = Nil
  BY <1>c, <1>1, <1>2 DEF Shape, Walks, Queue, Queued, In, Member
<1>4. c = k
  BY <1>1, <1>3 DEF Shape, Places
<1>5. head'[k2] = o /\ \A n \in Threads \ {k2} : head'[n] = head[n]
  BY <1>0, <1>1, <1>3, <1>4
<1>6. /\ \A c2 : \A n : In(own, c2, n)' <=> In(own, c2, n)
      /\ \A n : Queued(own, n)' <=> Queued(own, n)
      /\ \A n : Member(n)' <=> Member(n)
      /\ \A n \in Threads : pos[n] \in Int
  BY <1>0, <1>1 DEF Queued, In, Member, Walk
<1>7. Places(own, pos)'
  BY <1>6 DEF Shape, Places
<1>8. Queue(own, pos, o, k2)'
  <2>1. ASSUME NEW n \in Threads, Queued(own, n)
        PROVE  /\ pos[o] <= pos[n] /\ pos[n] <= pos[word.tail]
               /\ n # o => Queued(own, prev[n]) /\ pos[prev[n]] = pos[n] - 1
               /\ pos[k2] < pos[n] => head'[n] = Nil
    <3>1. /\ pos[o] <= pos[n] /\ pos[n] <= pos[word.tail]
          /\ n # o => Queued(own, prev[n]) /\ pos[prev[n]] = pos[n] - 1
          /\ pos[k] < pos[n] => head[n] = Nil
      BY <1>2, <2>1 DEF Shape, Queue
    <3> QED
      BY <1>3, <1>4, <1>5, <1>6, <3>1
  <2>2. Queued(own, word.tail)
    BY <1>2 DEF Shape, Queue
  <2> QED
    BY <1>1, <1>2, <1>3, <1>5, <1>6, <2>1, <2>2 DEF Queue
<1>9. ASSUME NEW n \in Threads, Queued(own, n)
      PROVE  Linked(pos, k2, n)' <=> Linked(pos, k, n)
  <2>1. Linked(pos, k, n) <=> \/ pos[n] < pos[k]
                              \/ pos[c] <= pos[n] /\ pos[n] < pos[k2]
    BY <1>c, <1>1, <1>2 DEF Linked
  <2>2. Linked(pos, k2, n)' <=> pos[n] < pos[k2]
    <3>1. \A u \in Threads : pc'[u] \notin Walk
      BY <1>1, <1>2 DEF Walk
    <3> QED
      BY <3>1 DEF Linked
  <2> QED
    BY <1>3, <1>4, <1>6, <2>1, <2>2
<1>10. Links(own, pos, k2)'
  BY <1>1, <1>6, <1>9 DEF Shape, Links
<1>11. Walks(own, pos, o, k2)'
  <2>1. ASSUME NEW u \in Threads
        PROVE  /\ pc'[u] \notin Walk
               /\ pc'[u] = "wakeChoose" => u = t /\ first'[u] = o
               /\ pc'[u] = "releaseWalk" => Queued(own, curr[u])
    <3>1. CASE u = t
      BY <1>1, <1>3, <1>4, <3>1 DEF Walk
    <3>2. CASE u # t
      BY <1>1, <1>2, <3>2 DEF Shape, Walks
    <3> QED
      BY <3>1, <3>2
  <2> QED
    BY <1>c, <1>1, <1>6, <2>1 DEF Walks
<1>12. Snapshot(own, o)'
  <2>1. SharedOwners' = SharedOwners /\ Last' = Last
    BY <1>0, <1>1 DEF SharedOwners, Last, Walk
  <2>2. ASSUME word.many
        PROVE  /\ \A n \in Threads : Queued(own, n) => head'[n] \in {Nil, o}
               /\ head'[o] = o /\ snap[o] = Cardinality(SharedOwners \ Last)
    BY <1>3, <1>5, <2>2 DEF Shape, Snapshot
  <2> QED
    BY <1>1, <1>6, <2>1, <2>2 DEF Snapshot
<1>13. Chains(own, pos)'
  <2>1. \A u \in Threads : /\ pc'[u] \in Wakers <=> pc[u] \in Wakers
                           /\ pc'[u] \in Wakers => pc'[u] = pc[u] /\ first'[u] = first[u]
    BY <1>1 DEF Wakers, Walk
  <2>2. \A n \in Threads : own[n] # Nil => own[n] \in Threads
    BY DEF NodePtr
  <2> QED
    BY <1>1, <1>6, <2>1, <2>2 DEF Shape, Chains
<1> QED
  BY <1>7, <1>8, <1>10, <1>11, <1>12, <1>13 DEF Shape, ListInv

(* The Link owner takes the oldest node off the word's list. *)
LEMMA WakeOneLists ==
  ASSUME WordInv, NEW own \in [Threads -> NodePtr], NEW pos \in [Threads -> Int],
         NEW o \in NodePtr, NEW k \in NodePtr, Shape(own, pos, o, k), NEW t \in Threads,
         WakeOneChosen(t)
  PROVE  ListInv'
<1>0. /\ TypeOK /\ pc \in [Threads -> PcSet] /\ LinkIsOwned /\ Copies
      /\ next \in [Threads -> NodePtr] /\ head \in [Threads -> NodePtr]
  BY DEF WordInv, TypeInv, TypeOK
<1>1. /\ pc[t] = "wakeChoose" /\ next[first[t]] # Nil
      /\ head' = [head EXCEPT ![arg[t].tail] = next[first[t]]]
      /\ next' = [next EXCEPT ![first[t]] = Nil]
      /\ pc' = [pc EXCEPT ![t] = "wakeUnlink"]
      /\ UNCHANGED <<word, prev, snap, spin, curr, arg, first>>
  BY DEF WakeOneChosen, Goto
<1>2. /\ word.wait /\ ~word.many
      /\ \A u \in Threads : pc[u] \notin Walk /\ (pc[u] = "wakeChoose" => u = t)
      /\ \A u \in Threads : pc[u] # "releaseWalk"
  BY <1>0, <1>1 DEF LinkIsOwned, OwnsLink, Walk, Copies
<1>3. /\ first[t] = o /\ arg[t].tail = k
      /\ Queued(own, word.tail) /\ Queued(own, k) /\ Queued(own, o)
      /\ \A n : Queued(own, n) => n \in Threads /\ Member(n) /\ own[n] = Nil
      /\ \A n \in Threads : pos[n] \in Int
  BY <1>1, <1>2 DEF Shape, Walks, Queue, Queued, In, Member
<1>4. \A n \in Threads : Linked(pos, k, n) <=> pos[n] < pos[k]
  BY <1>2 DEF Linked
<1>5. PICK o2 \in NodePtr : o2 = next[o]
  BY <1>0, <1>3
<1>6. Queued(own, o2) /\ pos[o2] = pos[o] + 1 /\ pos[o] < pos[k] /\ o2 \in Threads
  BY <1>1, <1>3, <1>4, <1>5 DEF Shape, Links
<1>7. PICK own2 \in [Threads -> NodePtr] : own2 = [own EXCEPT ![o] = t]
  BY DEF NodePtr
<1>8. /\ own2[o] = t /\ \A u \in Threads \ {o} : own2[u] = own[u]
      /\ next'[o] = Nil /\ \A u \in Threads \ {o} : next'[u] = next[u]
      /\ head'[k] = o2 /\ \A u \in Threads \ {k} : head'[u] = head[u]
      /\ pc'[t] = "wakeUnlink" /\ \A u \in Threads \ {t} : pc'[u] = pc[u]
  BY <1>0, <1>1, <1>3, <1>5, <1>7
<1>9. /\ \A n : Member(n)' <=> Member(n)
      /\ \A n : Queued(own2, n)' <=> Queued(own, n) /\ n # o
      /\ \A n : In(own2, t, n)' <=> n = o
      /\ \A u \in Threads \ {t} : \A n : In(own2, u, n)' <=> In(own, u, n)
      /\ \A u \in Threads : \A n : In(own, u, n) => n \in Threads \ {o}
  <2>1. \A n : Member(n)' <=> Member(n)
    BY <1>1, <1>8 DEF Member
  <2>2. \A n : ~In(own, t, n)
    <3>1. ASSUME NEW n, In(own, t, n) PROVE FALSE
      <4>1. n \in Threads /\ Member(n) /\ own[n] = t /\ t # Nil
        BY <3>1, NilIsNoThread DEF In, Member
      <4>2. pc[t] \in Wakers
        BY <4>1 DEF Shape, Chains
      <4> QED
        BY <1>1, <4>2 DEF Wakers
    <3> QED
      BY <3>1
  <2>3. o \in Threads /\ own[o] = Nil /\ Member(o)
    BY <1>3
  <2> QED
    BY <1>8, <2>1, <2>2, <2>3, NilIsNoThread DEF Queued, In, Member
<1>10. Places(own2, pos)'
  <2> SUFFICES ASSUME NEW m \in Threads, NEW n \in Threads, Member(m), Member(n),
                      own2[m] = own2[n], pos[m] = pos[n]
               PROVE  m = n
    BY <1>9 DEF Places
  <2>1. CASE own2[m] = t
    BY <1>9, <2>1 DEF In
  <2>2. CASE own2[m] # t
    BY <1>8, <2>2 DEF Shape, Places
  <2> QED
    BY <2>1, <2>2
<1>11. Queue(own2, pos, o2, k)'
  <2>1. ASSUME NEW n \in Threads, Queued(own, n), n # o
        PROVE  /\ pos[o2] <= pos[n] /\ pos[n] <= pos[word.tail]
               /\ n # o2 => Queued(own, prev[n]) /\ prev[n] # o /\ pos[prev[n]] = pos[n] - 1
               /\ pos[k] < pos[n] => head'[n] = Nil
    <3>1. /\ pos[o] <= pos[n] /\ pos[n] <= pos[word.tail]
          /\ Queued(own, prev[n]) /\ pos[prev[n]] = pos[n] - 1
          /\ pos[k] < pos[n] => head[n] = Nil
      BY <1>2, <2>1 DEF Shape, Queue
    <3>2. pos[n] # pos[o] /\ (n # o2 => pos[n] # pos[o2])
      BY <1>3, <1>6, <2>1 DEF Shape, Places
    <3> QED
      BY <1>3, <1>6, <1>8, <3>1, <3>2
  <2>2. word.tail # o /\ o2 # o /\ k # o
    <3>1. pos[k] <= pos[word.tail]
      BY <1>2, <1>3 DEF Shape, Queue
    <3> QED
      BY <1>3, <1>6, <3>1
  <2> QED
    BY <1>1, <1>2, <1>3, <1>6, <1>8, <1>9, <2>1, <2>2 DEF Queue
<1>12. Links(own2, pos, k)'
  <2>1. \A n \in Threads : Linked(pos, k, n)' <=> Linked(pos, k, n)
    <3>1. \A u \in Threads : pc'[u] \notin Walk
      BY <1>2, <1>8 DEF Walk
    <3> QED
      BY <1>4, <3>1 DEF Linked
  <2>2. ASSUME NEW n \in Threads, Queued(own, n), n # o
        PROVE  IF Linked(pos, k, n) THEN Queued(own, next'[n]) /\ next'[n] # o /\ pos[next'[n]] = pos[n] + 1
                                    ELSE next'[n] = Nil
    <3>1. IF Linked(pos, k, n) THEN Queued(own, next[n]) /\ pos[next[n]] = pos[n] + 1
                               ELSE next[n] = Nil
      BY <2>2 DEF Shape, Links
    <3>2. pos[o] <= pos[n] /\ next'[n] = next[n]
      BY <1>2, <1>8, <2>2 DEF Shape, Queue
    <3> QED
      BY <1>3, <3>1, <3>2
  <2> QED
    BY <1>9, <2>1, <2>2 DEF Links
<1>13. Walks(own2, pos, o2, k)'
  BY <1>2, <1>8 DEF Walks, Walk
<1>14. Snapshot(own2, o2)'
  BY <1>1, <1>2 DEF Snapshot
<1>15. Chains(own2, pos)'
  <2>1. ASSUME NEW n \in Threads, Member(n), own2[n] # Nil PROVE pc'[own2[n]] \in Wakers
    <3>1. CASE n = o
      BY <1>8, <3>1 DEF Wakers
    <3>2. CASE n # o
      <4>1. own[n] \in Threads /\ pc[own[n]] \in Wakers
        BY <1>8, <2>1, <3>2 DEF Shape, Chains, NodePtr
      <4> QED
        BY <1>1, <1>8, <3>2, <4>1 DEF Wakers
    <3> QED
      BY <3>1, <3>2
  <2>2. ASSUME NEW u \in Threads, pc'[u] \in Wakers
        PROVE  /\ In(own2, u, first[u])'
               /\ pc'[u] = "wakeRelease" => ~spin[first[u]]
               /\ \A n \in Threads : In(own2, u, n)' =>
                     /\ pos[first[u]] <= pos[n]
                     /\ IF next'[n] = Nil
                          THEN \A m \in Threads : In(own2, u, m)' => pos[m] <= pos[n]
                          ELSE In(own2, u, next[n])' /\ pos[next'[n]] = pos[n] + 1
    <3>1. CASE u = t
      BY <1>1, <1>3, <1>8, <1>9, <3>1
    <3>2. CASE u # t
      <4>1. /\ pc[u] \in Wakers /\ pc'[u] = pc[u]
        BY <1>8, <2>2, <3>2
      <4>2. /\ In(own, u, first[u])
            /\ pc[u] = "wakeRelease" => ~spin[first[u]]
            /\ \A n \in Threads : In(own, u, n) =>
                     /\ pos[first[u]] <= pos[n]
                     /\ IF next[n] = Nil
                          THEN \A m \in Threads : In(own, u, m) => pos[m] <= pos[n]
                          ELSE In(own, u, next[n]) /\ pos[next[n]] = pos[n] + 1
        BY <4>1 DEF Shape, Chains
      <4> QED
        BY <1>1, <1>8, <1>9, <3>2, <4>1, <4>2
    <3> QED
      BY <3>1, <3>2
  <2> QED
    BY <1>1, <1>9, <2>1, <2>2 DEF Chains
<1> QED
  BY <1>10, <1>11, <1>12, <1>13, <1>14, <1>15 DEF Shape, ListInv

(* The Link owner takes the whole list. *)
LEMMA WakeAllLists ==
  ASSUME WordInv, NEW own \in [Threads -> NodePtr], NEW pos \in [Threads -> Int],
         NEW o \in NodePtr, NEW k \in NodePtr, Shape(own, pos, o, k), NEW t \in Threads,
         WakeAllChosen(t), word = arg[t]
  PROVE  ListInv'
<1>0. /\ TypeOK /\ pc \in [Threads -> PcSet] /\ LinkIsOwned /\ Copies
  BY DEF WordInv, TypeInv, TypeOK
<1>1. /\ pc[t] = "wakeChoose" /\ word' = Free
      /\ pc' = [pc EXCEPT ![t] = "wakeSignal"]
      /\ UNCHANGED <<prev, head, next, snap, spin, curr, arg, first>>
  BY DEF WakeAllChosen, Goto, nodeVars
<1>2. /\ word.wait /\ ~word.many
      /\ \A u \in Threads : pc[u] \notin Walk /\ (pc[u] = "wakeChoose" => u = t)
      /\ \A u \in Threads : pc[u] # "releaseWalk"
  BY <1>0, <1>1 DEF LinkIsOwned, OwnsLink, Walk, Copies
<1>3. /\ first[t] = o /\ word.tail = k
      /\ Queued(own, k) /\ Queued(own, o)
      /\ \A n : Queued(own, n) => n \in Threads /\ Member(n) /\ own[n] = Nil
      /\ \A n \in Threads : pos[n] \in Int
  BY <1>1, <1>2 DEF Shape, Walks, Queue, Queued, In, Member
<1>4. \A n \in Threads : Linked(pos, k, n) <=> pos[n] < pos[k]
  BY <1>2 DEF Linked
<1>5. PICK own2 \in [Threads -> NodePtr] :
        own2 = [n \in Threads |-> IF own[n] = Nil THEN t ELSE own[n]]
  BY DEF NodePtr
<1>6. /\ \A n \in Threads : own2[n] = IF own[n] = Nil THEN t ELSE own[n]
      /\ pc'[t] = "wakeSignal" /\ \A u \in Threads \ {t} : pc'[u] = pc[u]
  BY <1>0, <1>1, <1>5
<1>7. /\ \A n : Member(n)' <=> Member(n)
      /\ \A n : ~Queued(own2, n)'
      /\ \A n \in Threads : Member(n) => own[n] # t
      /\ \A n : In(own2, t, n)' <=> Queued(own, n)
      /\ \A u \in Threads \ {t} : \A n : In(own2, u, n)' <=> In(own, u, n)
  <2>1. \A n : Member(n)' <=> Member(n)
    BY <1>1, <1>6 DEF Member
  <2>2. ASSUME NEW n \in Threads, Member(n) PROVE own[n] # t
    <3>1. own[n] = t => pc[t] \in Wakers
      BY <2>2, NilIsNoThread DEF Shape, Chains
    <3> QED
      BY <1>1, <3>1 DEF Wakers
  <2> QED
    BY <1>6, <2>1, <2>2, NilIsNoThread DEF Queued, In, Member
<1>8. Places(own2, pos)'
  BY <1>6, <1>7 DEF Shape, Places
<1>9. Queue(own2, pos, Nil, Nil)'
  BY <1>1, <1>7, FreeFields DEF Queue
<1>10. Links(own2, pos, Nil)'
  BY <1>7 DEF Links
<1>11. Walks(own2, pos, Nil, Nil)'
  BY <1>2, <1>6 DEF Walks, Walk
<1>12. Snapshot(own2, Nil)'
  BY <1>1, FreeFields DEF Snapshot
<1>13. Chains(own2, pos)'
  <2>1. ASSUME NEW n \in Threads, Member(n), own2[n] # Nil PROVE pc'[own2[n]] \in Wakers
    <3>1. CASE own[n] = Nil
      BY <1>6, <3>1 DEF Wakers
    <3>2. CASE own[n] # Nil
      <4>1. own[n] \in Threads /\ pc[own[n]] \in Wakers
        BY <2>1, <3>2 DEF Shape, Chains, NodePtr
      <4> QED
        BY <1>1, <1>6, <3>2, <4>1 DEF Wakers
    <3> QED
      BY <3>1, <3>2
  <2>2. ASSUME NEW u \in Threads, pc'[u] \in Wakers
        PROVE  /\ In(own2, u, first[u])'
               /\ pc'[u] = "wakeRelease" => ~spin[first[u]]
               /\ \A n \in Threads : In(own2, u, n)' =>
                     /\ pos[first[u]] <= pos[n]
                     /\ IF next[n] = Nil
                          THEN \A m \in Threads : In(own2, u, m)' => pos[m] <= pos[n]
                          ELSE In(own2, u, next[n])' /\ pos[next[n]] = pos[n] + 1
    <3>1. CASE u = t
      <4>1. ASSUME NEW n \in Threads, Queued(own, n)
            PROVE  /\ pos[o] <= pos[n]
                   /\ IF next[n] = Nil
                        THEN \A m \in Threads : Queued(own, m) => pos[m] <= pos[n]
                        ELSE Queued(own, next[n]) /\ pos[next[n]] = pos[n] + 1
        <5>1. /\ pos[o] <= pos[n]
              /\ \A m \in Threads : Queued(own, m) => pos[m] <= pos[k]
          BY <1>2, <1>3, <4>1 DEF Shape, Queue
        <5>2. IF pos[n] < pos[k] THEN Queued(own, next[n]) /\ pos[next[n]] = pos[n] + 1
                                 ELSE next[n] = Nil
          BY <1>4, <4>1 DEF Shape, Links
        <5>3. Queued(own, next[n]) => next[n] # Nil
          BY <1>3, NilIsNoThread
        <5> QED
          BY <1>3, <5>1, <5>2, <5>3
      <4>2. pc'[u] # "wakeRelease"
        BY <1>6, <3>1
      <4> QED
        BY <1>1, <1>3, <1>7, <3>1, <4>1, <4>2
    <3>2. CASE u # t
      <4>1. /\ pc[u] \in Wakers /\ pc'[u] = pc[u]
        BY <1>6, <2>2, <3>2
      <4>2. /\ In(own, u, first[u])
            /\ pc[u] = "wakeRelease" => ~spin[first[u]]
            /\ \A n \in Threads : In(own, u, n) =>
                     /\ pos[first[u]] <= pos[n]
                     /\ IF next[n] = Nil
                          THEN \A m \in Threads : In(own, u, m) => pos[m] <= pos[n]
                          ELSE In(own, u, next[n]) /\ pos[next[n]] = pos[n] + 1
        BY <4>1 DEF Shape, Chains
      <4> QED
        BY <1>1, <1>7, <3>2, <4>1, <4>2
    <3> QED
      BY <3>1, <3>2
  <2> QED
    BY <1>1, <1>7, <2>1, <2>2 DEF Chains
<1> QED
  BY <1>8, <1>9, <1>10, <1>11, <1>12, <1>13 DEF Shape, ListInv, NodePtr

(* A waker is done with the first node of its list, and goes on to the next. *)
LEMMA PopLists ==
  ASSUME WordInv, NEW own \in [Threads -> NodePtr], NEW pos \in [Threads -> Int],
         NEW o \in NodePtr, NEW k \in NodePtr, Shape(own, pos, o, k), NEW t \in Threads,
         (WakeSignal(t) /\ spin[first[t]]) \/ WakeRelease(t)
  PROVE  Shape(own, pos, o, k)'
<1>0. /\ TypeOK /\ pc \in [Threads -> PcSet] /\ Flow /\ spin \in [Threads -> BOOLEAN]
      /\ first \in [Threads -> NodePtr] /\ curr \in [Threads -> NodePtr]
      /\ arg \in [Threads -> Word] /\ call \in [Threads -> CallSet] /\ old \in [Threads -> Word]
  BY DEF WordInv, TypeInv, TypeOK
<1>f. PICK f \in NodePtr : f = first[t]
  BY <1>0
<1>1. /\ pc[t] \in {"wakeSignal", "wakeRelease"}
      /\ UNCHANGED <<word, prev, head, next, snap>>
  BY DEF WakeSignal, WakeRelease, nodeVars
<1>2. /\ In(own, t, f) /\ f \in Threads /\ own[f] = t
      /\ pc[t] = "wakeRelease" => ~spin[f]
      /\ \A n \in Threads : In(own, t, n) =>
           /\ pos[f] <= pos[n]
           /\ IF next[n] = Nil
                THEN \A m \in Threads : In(own, t, m) => pos[m] <= pos[n]
                ELSE In(own, t, next[n]) /\ pos[next[n]] = pos[n] + 1
  BY <1>f, <1>1 DEF Shape, Chains, Wakers, In, Member
<1>3. /\ pc'[t] = WakeNextPc(t) /\ WakeNext(t)
      /\ \A u \in Threads \ {t, f} : pc'[u] = pc[u]
      /\ f # t => pc'[f] = pc[f] \/ (pc[f] = "blocked" /\ pc'[f] = "cas")
      /\ \A u \in Threads \ {f} : spin'[u] = spin[u]
      /\ ~spin'[f] /\ pc'[f] # "blocked"
  <2>1. CASE WakeSignal(t) /\ spin[f]
    <3>1. /\ pc' = [pc EXCEPT ![t] = WakeNextPc(t)] /\ WakeNext(t)
          /\ spin' = [spin EXCEPT ![f] = FALSE]
      BY <1>f, <2>1 DEF WakeSignal, Goto
    <3>2. pc[f] # "blocked"
      BY <1>0, <1>2, <2>1 DEF Flow, LinkWork
    <3>3. WakeNextPc(t) # "blocked"
      BY DEF WakeNextPc, AfterLinkWork
    <3> QED
      BY <1>0, <1>2, <3>1, <3>2, <3>3
  <2>2. CASE WakeRelease(t)
    <3>1. /\ pc[t] = "wakeRelease" /\ pc[f] = "blocked" /\ f # t
          /\ pc' = [pc EXCEPT ![f] = "cas", ![t] = WakeNextPc(t)] /\ WakeNext(t)
          /\ UNCHANGED spin
      BY <1>f, <2>2 DEF WakeRelease, nodeVars
    <3> QED
      BY <1>0, <1>2, <3>1
  <2> QED
    BY <1>f, <2>1, <2>2
<1>4. /\ IF next[f] = Nil THEN pc'[t] \in {"spin", "idle"}
                          ELSE pc'[t] = "wakeSignal" /\ first'[t] = next[f]
      /\ \A u \in Threads \ {t} : curr'[u] = curr[u] /\ arg'[u] = arg[u] /\ first'[u] = first[u]
  <2>1. CASE next[f] = Nil
    BY <1>0, <1>f, <1>3, <2>1, LeavePlace DEF WakeNextPc, WakeNext, AfterLinkWork
  <2>2. CASE next[f] # Nil
    BY <1>0, <1>f, <1>3, <2>2 DEF WakeNextPc, WakeNext
  <2> QED
    BY <2>1, <2>2
<1>5. /\ \A n : Member(n)' <=> Member(n) /\ n # f
      /\ \A n : Queued(own, n)' <=> Queued(own, n)
      /\ \A n : In(own, t, n)' <=> In(own, t, n) /\ n # f
      /\ \A u \in Threads \ {t} : \A n : In(own, u, n)' <=> In(own, u, n)
      /\ \A n : Queued(own, n) => n \in Threads
      /\ \A n \in Threads : pos[n] \in Int
  <2>1. \A n : Member(n)' <=> Member(n) /\ n # f
    <3>1. ASSUME NEW n \in Threads \ {t, f} PROVE Member(n)' <=> Member(n)
      BY <1>3, <3>1 DEF Member
    <3>2. f # t => (Member(t)' <=> Member(t))
      BY <1>1, <1>3, <1>4 DEF Member
    <3>3. ~Member(f)'
      BY <1>3 DEF Member
    <3> QED
      BY <1>2, <3>1, <3>2, <3>3 DEF Member
  <2> QED
    BY <1>2, <2>1, NilIsNoThread DEF Queued, In, Member
<1>6. /\ \A u \in Threads : pc[u] \in Walk \cup {"wakeChoose", "releaseWalk"} => u # t /\ pc'[u] = pc[u]
      /\ \A u \in Threads : pc'[u] \in Walk \cup {"wakeChoose", "releaseWalk"} => u # t /\ pc'[u] = pc[u]
  BY <1>1, <1>3, <1>4 DEF Walk
<1>7. Places(own, pos)' /\ Queue(own, pos, o, k)'
  BY <1>1, <1>5 DEF Shape, Places, Queue
<1>8. Links(own, pos, k)'
  <2>1. ASSUME NEW n \in Threads PROVE Linked(pos, k, n)' <=> Linked(pos, k, n)
    <3>1. ASSUME NEW u \in Threads
          PROVE  /\ pc'[u] \in Walk /\ pos[curr'[u]] <= pos[n] /\ pos[n] < pos[arg'[u].tail]
                 <=> /\ pc[u] \in Walk /\ pos[curr[u]] <= pos[n] /\ pos[n] < pos[arg[u].tail]
      BY <1>4, <1>6
    <3> QED
      BY <3>1 DEF Linked
  <2> QED
    BY <1>1, <1>5, <2>1 DEF Shape, Links
<1>9. Walks(own, pos, o, k)'
  <2>1. ASSUME NEW u \in Threads
        PROVE  pc'[u] \in Walk \cup {"wakeChoose", "releaseWalk"} =>
                  /\ pc'[u] = pc[u] /\ curr'[u] = curr[u] /\ arg'[u] = arg[u]
                  /\ first'[u] = first[u]
    BY <1>4, <1>6
  <2> QED
    BY <1>5, <2>1 DEF Shape, Walks
<1>10. Snapshot(own, o)'
  <2>1. SharedOwners' = SharedOwners /\ Last' = Last
    BY <1>1, <1>3, <1>4 DEF SharedOwners, Last
  <2> QED
    BY <1>1, <1>5, <2>1 DEF Shape, Snapshot
<1>11. \A u \in Threads \ {t} : /\ pc'[u] \in Wakers <=> pc[u] \in Wakers
                                /\ pc'[u] = "wakeRelease" <=> pc[u] = "wakeRelease"
  BY <1>2, <1>3 DEF Wakers
<1>12. next[f] = Nil => \A n : ~In(own, t, n)'
  <2>1. ASSUME NEW n, next[f] = Nil, In(own, t, n) PROVE n = f
    <3>1. n \in Threads /\ Member(n) /\ Member(f) /\ own[n] = own[f]
      BY <1>2, <2>1 DEF In, Member
    <3>2. pos[n] <= pos[f] /\ pos[f] <= pos[n]
      BY <1>2, <2>1, <3>1
    <3>3. pos[n] = pos[f]
      BY <1>2, <1>5, <3>1, <3>2
    <3> QED
      BY <1>2, <3>1, <3>3 DEF Shape, Places
  <2> QED
    BY <1>5, <2>1
<1>13. Chains(own, pos)'
  <2>1. ASSUME NEW n \in Threads, Member(n)', own[n] # Nil PROVE pc'[own[n]] \in Wakers
    <3>1. own[n] \in Threads /\ pc[own[n]] \in Wakers
      BY <1>5, <2>1 DEF Shape, Chains, NodePtr
    <3>2. CASE own[n] = t
      <4>1. In(own, t, n)'
        BY <2>1, <3>2 DEF In
      <4> QED
        BY <1>4, <1>12, <3>2, <4>1 DEF Wakers
    <3>3. CASE own[n] # t
      BY <1>11, <3>1, <3>3
    <3> QED
      BY <3>2, <3>3
  <2>2. ASSUME NEW u \in Threads, pc'[u] \in Wakers
        PROVE  /\ In(own, u, first[u])'
               /\ pc'[u] = "wakeRelease" => ~spin'[first'[u]]
               /\ \A n \in Threads : In(own, u, n)' =>
                     /\ pos[first'[u]] <= pos[n]
                     /\ IF next[n] = Nil
                          THEN \A m \in Threads : In(own, u, m)' => pos[m] <= pos[n]
                          ELSE In(own, u, next[n])' /\ pos[next[n]] = pos[n] + 1
    <3>1. CASE u = t
      <4>1. next[f] # Nil /\ pc'[t] = "wakeSignal" /\ first'[t] = next[f]
        BY <1>4, <2>2, <3>1 DEF Wakers
      <4>2. In(own, t, next[f]) /\ pos[next[f]] = pos[f] + 1 /\ next[f] # f
        BY <1>2, <1>5, <4>1
      <4>3. ASSUME NEW n \in Threads, In(own, t, n), n # f
            PROVE  /\ pos[next[f]] <= pos[n]
                   /\ next[n] # Nil => next[n] # f
        <5>1. pos[f] <= pos[n] /\ (next[n] # Nil => pos[next[n]] = pos[n] + 1)
          BY <1>2, <4>3
        <5>2. pos[n] # pos[f]
          BY <1>2, <4>3 DEF Shape, Places, In
        <5> QED
          BY <1>2, <1>5, <4>2, <5>1, <5>2
      <4>4. ASSUME NEW n \in Threads, In(own, t, n)'
            PROVE  /\ pos[first'[t]] <= pos[n]
                   /\ IF next[n] = Nil
                        THEN \A m \in Threads : In(own, t, m)' => pos[m] <= pos[n]
                        ELSE In(own, t, next[n])' /\ pos[next[n]] = pos[n] + 1
        BY <1>1, <1>2, <1>5, <4>1, <4>3, <4>4
      <4>5. In(own, t, first[t])'
        BY <1>5, <4>1, <4>2
      <4> QED
        BY <3>1, <4>1, <4>4, <4>5
    <3>2. CASE u # t
      <4>1. /\ pc[u] \in Wakers /\ (pc'[u] = "wakeRelease" => pc[u] = "wakeRelease")
            /\ first'[u] = first[u]
        BY <1>4, <1>11, <2>2, <3>2
      <4>2. /\ In(own, u, first[u])
            /\ pc[u] = "wakeRelease" => ~spin[first[u]]
            /\ \A n \in Threads : In(own, u, n) =>
                     /\ pos[first[u]] <= pos[n]
                     /\ IF next[n] = Nil
                          THEN \A m \in Threads : In(own, u, m) => pos[m] <= pos[n]
                          ELSE In(own, u, next[n]) /\ pos[next[n]] = pos[n] + 1
        BY <4>1 DEF Shape, Chains
      <4>3. first[u] \in Threads \ {f}
        BY <1>2, <3>2, <4>2 DEF In, Member
      <4> QED
        BY <1>1, <1>3, <1>5, <3>2, <4>1, <4>2, <4>3
    <3> QED
      BY <3>1, <3>2
  <2> QED
    BY <1>1, <2>1, <2>2 DEF Chains
<1> QED
  BY <1>7, <1>8, <1>9, <1>10, <1>13 DEF Shape

(* A shared release takes one from the snapshot of the oldest waiter: the   *)
(* last of the owners that it counts is the one to give up Hold.            *)
LEMMA SnapshotStep ==
  ASSUME WordInv, NEW own \in [Threads -> NodePtr], NEW pos \in [Threads -> Int],
         NEW o \in NodePtr, NEW k \in NodePtr, Shape(own, pos, o, k), NEW t \in Threads,
         ReleaseSnapshot(t)
  PROVE  WordGoal /\ Shape(own, pos, o, k)'
<1>0. /\ TypeOK /\ pc \in [Threads -> PcSet] /\ snap \in [Threads -> Int]
      /\ first \in [Threads -> NodePtr] /\ curr \in [Threads -> NodePtr]
      /\ arg \in [Threads -> Word] /\ call \in [Threads -> CallSet] /\ old \in [Threads -> Word]
      /\ Flow /\ LinkIsOwned /\ Owners /\ Copies /\ NoLostWakeup
  BY DEF WordInv, TypeInv, TypeOK
<1>1. /\ pc[t] = "releaseWalk" /\ head[curr[t]] # Nil
      /\ snap' = [snap EXCEPT ![head[curr[t]]] = @ - 1]
      /\ UNCHANGED <<word, prev, head, next, spin>>
  BY DEF ReleaseSnapshot
<1>2. word.many /\ word.wait /\ word.hold /\ Writers = {}
  BY <1>0, <1>1 DEF Copies, Owners
<1>3. head[curr[t]] = o /\ o \in Threads /\ head[o] = o /\ snap[o] = Cardinality(SharedOwners \ Last)
  <2>1. Queued(own, curr[t]) /\ Queued(own, o)
    BY <1>1, <1>2 DEF Shape, Walks, Queue
  <2> QED
    BY <1>1, <1>2, <2>1 DEF Shape, Snapshot, Queued, In, Member
<1>4. t \in SharedOwners /\ Last = {} /\ SharedOwners \in SUBSET Threads
  <2>1. t \in SharedOwners /\ t \notin Last /\ SharedOwners \in SUBSET Threads
    BY <1>1 DEF SharedOwners, Last
  <2> QED
    BY <1>0, <2>1 DEF Owners
<1>5. /\ snap[o] = Cardinality(SharedOwners) /\ snap[o] \in Nat
      /\ Cardinality(SharedOwners \ {t}) = snap[o] - 1
      /\ snap[o] = 1 => SharedOwners = {t}
      /\ snap'[o] = snap[o] - 1
  <2>1. SharedOwners \ Last = SharedOwners
    BY <1>4
  <2>2. snap'[o] = snap[o] - 1
    BY <1>0, <1>1, <1>3
  <2> QED
    BY <1>3, <1>4, <2>1, <2>2, CardRemove, CardZero
<1>6. ~Acquiring(t) /\ call[t] # "TryAcquireShared" /\ ~spin[t]
  BY <1>0, <1>1 DEF Flow, LinkWork
<1>7. /\ \A n : Member(n)' <=> Member(n)
      /\ \A u \in Threads : Moves(own, u)
      /\ \A u \in Threads \ {t} : /\ pc'[u] = pc[u] /\ call'[u] = call[u] /\ old'[u] = old[u]
                                  /\ arg'[u] = arg[u]
      /\ \/ snap[o] # 1 /\ pc'[t] = "idle" /\ call'[t] = "None"
         \/ snap[o] = 1 /\ pc' = [pc EXCEPT ![t] = "releaseLast"] /\ UNCHANGED <<call, old, arg>>
  <2>1. \/ snap[o] # 1 /\ Return(t, "idle")
        \/ snap[o] = 1 /\ Goto(t, "releaseLast") /\ UNCHANGED <<call, old, arg, curr, first>>
    BY <1>3 DEF ReleaseSnapshot
  <2> QED
    BY <1>0, <1>1, <2>1 DEF Return, Goto, Member, Moves, Walk, Wakers
<1>8. CASE snap[o] = 1
  <2>1. SharedOwners' = SharedOwners /\ Last' = {t} /\ SharedOwners = {t}
    BY <1>0, <1>1, <1>4, <1>5, <1>7, <1>8 DEF SharedOwners, Last
  <2>2. snap'[o] = Cardinality(SharedOwners' \ Last')
    <3>1. SharedOwners' \ Last' = SharedOwners \ {t}
      BY <2>1
    <3> QED
      BY <1>5, <3>1
  <2>3. Shape(own, pos, o, k)'
    BY <1>0, <1>1, <1>2, <1>7, <2>2, ListsKept
  <2>4. WordGoal
    <3>1. ~Acquiring(t)' /\ call'[t] # "TryAcquireShared" /\ UNCHANGED <<word, arg, spin>>
      BY <1>1, <1>6, <1>7, <1>8 DEF Acquiring
    <3>2. "releaseLast" \in SharedPcs /\ pc[t] \in SharedPcs
      BY <1>1 DEF SharedPcs
    <3> QED
      BY <1>2, <1>7, <1>8, <2>1, <3>1, <3>2, StaysShared
  <2> QED
    BY <2>3, <2>4
<1>9. CASE snap[o] # 1
  <2>0. pc'[t] = "idle" /\ call'[t] = "None" /\ ~Acquiring(t)'
    BY <1>7, <1>9 DEF Acquiring
  <2>1. SharedOwners' = SharedOwners \ {t} /\ Last' = {} /\ Writers' = {}
    BY <1>1, <1>2, <1>4, <1>7, <2>0 DEF SharedOwners, Last, Writers
  <2>2. snap'[o] = Cardinality(SharedOwners' \ Last') /\ SharedOwners' # {}
    <3>1. SharedOwners' \ Last' = SharedOwners \ {t} /\ SharedOwners \ {t} \in SUBSET Threads
      BY <1>4, <2>1
    <3>2. Cardinality(SharedOwners \ {t}) # 0
      BY <1>5, <1>9
    <3> QED
      BY <1>5, <2>1, <3>1, <3>2, CardZero
  <2>3. Shape(own, pos, o, k)'
    BY <1>0, <1>1, <1>2, <1>7, <2>2, ListsKept
  <2>4. Flow'
    BY <1>0, <1>1, <1>6, <1>7, <2>0 DEF Flow, Acquiring
  <2>5. LinkIsOwned'
    <3>1. \A u \in Threads : OwnsLink(u)' <=> OwnsLink(u)
      BY <1>1, <1>7, <2>0 DEF OwnsLink
    <3> QED
      BY <1>0, <1>1, <3>1 DEF LinkIsOwned
  <2>6. Owners'
    BY <1>0, <1>1, <1>2, <2>1, <2>2 DEF Owners
  <2>7. Copies'
    BY <1>0, <1>1, <1>7, <2>0 DEF Copies
  <2>8. NoLostWakeup'
    BY <1>1, <1>2 DEF NoLostWakeup
  <2> QED
    BY <2>3, <2>4, <2>5, <2>6, <2>7, <2>8 DEF WordGoal
<1> QED
  BY <1>8, <1>9

-----------------------------------------------------------------------------
(* The theorems.                                                            *)

(* A free lock has no owners, no waiters and an empty list. *)
LEMMA InitInv == Init => SrwInv
<1> SUFFICES ASSUME Init PROVE SrwInv
  OBVIOUS
<1>1. TypeInv
  BY FreeIsWord DEF Init, TypeInv, TypeOK, PcSet, CallSet, NodePtr
<1>2. \A t \in Threads : pc[t] = "idle" /\ call[t] = "None" /\ ~spin[t]
  BY DEF Init
<1>3. Writers = {} /\ SharedOwners = {} /\ Last = {} /\ Cardinality(SharedOwners) = 0
  <2>1. Writers = {} /\ SharedOwners = {} /\ Last = {}
    BY <1>2 DEF Writers, SharedOwners, Last
  <2> QED
    BY <2>1, CardZero
<1>4. Flow /\ LinkIsOwned /\ Owners /\ Copies /\ NoLostWakeup
  <2>1. word = Free
    BY DEF Init
  <2>2. Flow /\ Copies
    BY <1>2 DEF Flow, Copies, Acquiring
  <2>3. LinkIsOwned
    BY <1>2, <2>1, FreeFields DEF LinkIsOwned, OwnsLink
  <2>4. Owners
    BY <1>3, <2>1, FreeFields DEF Owners
  <2>5. NoLostWakeup
    BY <2>1, FreeFields DEF NoLostWakeup
  <2> QED
    BY <2>2, <2>3, <2>4, <2>5
<1>5. ListInv
  <2>1. PICK own \in [Threads -> NodePtr], pos \in [Threads -> Int] :
          own = [t \in Threads |-> Nil] /\ pos = [t \in Threads |-> 0]
    <3>1. [t \in Threads |-> Nil] \in [Threads -> NodePtr]
      BY DEF NodePtr
    <3>2. [t \in Threads |-> 0] \in [Threads -> Int]
      OBVIOUS
    <3> QED
      BY <3>1, <3>2
  <2>2. \A n : ~Member(n)
    BY <1>2 DEF Member
  <2>3. word = Free
    BY DEF Init
  <2>4. Shape(own, pos, Nil, Nil)
    BY <1>2, <2>2, <2>3, FreeFields
    DEF Shape, Places, Queue, Links, Walks, Snapshot, Chains, Queued, In, Walk, Wakers
  <2> QED
    BY <2>4 DEF ListInv, NodePtr
<1> QED
  BY <1>1, <1>4, <1>5 DEF SrwInv, WordInv

(* What the word says of its owners survives every step. *)
LEMMA WordStep ==
  ASSUME NoSharedTry, WordInv, NEW t \in Threads, Begin(t) \/ End(t) \/ Work(t),
         ~ReleaseSnapshot(t)
  PROVE  WordGoal
<1>1. ~RtlTryAcquireSRWLockShared(t) /\ ~TryShared(t)
  BY DEF NoSharedTry, RtlTryAcquireSRWLockShared, TryShared, WordInv, Flow
<1>2. CASE Begin(t)
  BY <1>1, <1>2, QuietSteps, TakeSteps DEF Begin
<1>3. CASE End(t)
  BY <1>3, ReleaseExclusiveSteps, ReleaseSharedQuiet, ReleaseSharedCount DEF End
<1>4. CASE Work(t)
  <2>1. CASE \/ Reload(t) \/ LoseRace(t) \/ Park(t) \/ WalkBack(t) \/ CompressFound(t)
             \/ WakeFound(t) \/ WakeOneChosen(t)
    BY <2>1, QuietSteps
  <2>2. CASE TakeLock(t) \/ Enqueue(t)
    BY <2>2, TakeSteps, EnqueueStep
  <2>3. CASE ClaimWake(t)
    BY <2>3, QuietSteps, ReleaseExclusiveSteps
  <2>4. CASE ReleaseCount(t) \/ ReleaseWalk(t) \/ ReleaseLast(t)
    BY <2>4, ReleaseSharedQuiet, ReleaseSharedCount, ReleaseLastStep
  <2>5. CASE CompressDone(t) \/ WakeHeld(t) \/ WakeUnlink(t) \/ WakeAllChosen(t)
    BY <2>5, QuietSteps, LinkDoneSteps
  <2>6. CASE WakeSignal(t) \/ WakeRelease(t)
    BY <2>6, SignalSteps
  <2> QED
    BY <1>1, <1>4, <2>1, <2>2, <2>3, <2>4, <2>5, <2>6 DEF Work
<1> QED
  BY <1>2, <1>3, <1>4

(* And so do the lists. *)
LEMMA ListStep ==
  ASSUME NoSharedTry, SrwInv, NEW t \in Threads, Begin(t) \/ End(t) \/ Work(t)
  PROVE  ListInv' /\ (ReleaseSnapshot(t) => WordGoal)
<1>0. WordInv
  BY DEF SrwInv
<1>1. ~RtlTryAcquireSRWLockShared(t) /\ ~TryShared(t)
  BY <1>0 DEF NoSharedTry, RtlTryAcquireSRWLockShared, TryShared, WordInv, Flow
<1>2. PICK own \in [Threads -> NodePtr], pos \in [Threads -> Int],
           o \in NodePtr, k \in NodePtr : Shape(own, pos, o, k)
  BY DEF SrwInv, ListInv
<1>3. Shape(own, pos, o, k)' => ListInv'
  BY DEF ListInv
<1>4. CASE Begin(t)
  BY <1>0, <1>1, <1>2, <1>3, <1>4, OwnerSteps
  DEF Begin, ReleaseSnapshot, RtlAcquireSRWLockExclusive, RtlAcquireSRWLockShared,
      RtlTryAcquireSRWLockExclusive
<1>5. CASE End(t)
  BY <1>0, <1>2, <1>3, <1>5, OwnerSteps, SharedReleaseSteps
  DEF End, ReleaseSnapshot, RtlReleaseSRWLockExclusive, RtlReleaseSRWLockShared
<1>6. CASE ReleaseSnapshot(t)
  BY <1>0, <1>2, <1>3, <1>6, SnapshotStep
<1>7. CASE Work(t) /\ ~ReleaseSnapshot(t)
  <2>1. CASE Reload(t) \/ LoseRace(t)
    BY <1>0, <1>2, <1>3, <1>7, <2>1, OwnerSteps
  <2>2. CASE TakeLock(t) \/ Park(t)
    BY <1>0, <1>2, <1>3, <1>7, <2>2, WaiterSteps
  <2>3. CASE Enqueue(t)
    BY <1>0, <1>2, <1>7, <2>3, EnqueueLists
  <2>4. CASE ReleaseCount(t) \/ ReleaseWalk(t) \/ ReleaseLast(t)
    BY <1>0, <1>2, <1>3, <1>7, <2>4, SharedReleaseSteps
  <2>5. CASE ClaimWake(t) \/ CompressDone(t) \/ WakeHeld(t) \/ WakeUnlink(t)
    BY <1>0, <1>2, <1>3, <1>7, <2>5, LinkSteps
  <2>6. CASE WalkBack(t)
    BY <1>0, <1>2, <1>3, <1>7, <2>6, WalkBackLists
  <2>7. CASE CompressFound(t) \/ WakeFound(t)
    BY <1>0, <1>2, <1>7, <2>7, FoundLists
  <2>8. CASE WakeOneChosen(t)
    BY <1>0, <1>2, <1>7, <2>8, WakeOneLists
  <2>9. CASE WakeAllChosen(t)
    BY <1>0, <1>2, <1>3, <1>7, <2>9, LinkSteps, WakeAllLists
  <2>10. CASE WakeSignal(t) \/ WakeRelease(t)
    BY <1>0, <1>2, <1>3, <1>7, <2>10, LinkSteps, PopLists
  <2> QED
    BY <1>1, <1>7, <2>1, <2>2, <2>3, <2>4, <2>5, <2>6, <2>7, <2>8, <2>9, <2>10 DEF Work
<1> QED
  BY <1>4, <1>5, <1>6, <1>7

(* A step that changes no variable changes nothing. *)
LEMMA StutterStep ==
  ASSUME SrwInv, UNCHANGED vars
  PROVE  (Flow /\ LinkIsOwned /\ Owners /\ Copies /\ NoLostWakeup /\ ListInv)'
<1>1. /\ word' = word /\ prev' = prev /\ head' = head /\ next' = next /\ snap' = snap
      /\ spin' = spin /\ pc' = pc /\ call' = call /\ old' = old /\ arg' = arg /\ curr' = curr
      /\ first' = first
  BY DEF vars, nodeVars
<1>2. Writers' = Writers /\ SharedOwners' = SharedOwners /\ Last' = Last
  BY <1>1 DEF Writers, SharedOwners, Last
<1>3. (Flow /\ LinkIsOwned /\ Owners /\ Copies /\ NoLostWakeup)'
  BY <1>1, <1>2 DEF SrwInv, WordInv, Flow, Acquiring, LinkIsOwned, OwnsLink, Owners, Copies, NoLostWakeup
<1>4. PICK own \in [Threads -> NodePtr], pos \in [Threads -> Int],
           o \in NodePtr, k \in NodePtr : Shape(own, pos, o, k)
  BY DEF SrwInv, ListInv
<1>5. Shape(own, pos, o, k)'
  <2>1. TypeOK /\ (word.many => word.wait)
    BY DEF SrwInv, WordInv, TypeInv, Owners
  <2>2. \A n \in Threads : Member(n)' <=> Member(n)
    BY <1>1 DEF Member
  <2>3. \A u \in Threads : Moves(own, u)
    BY <1>1 DEF Moves
  <2> QED
    BY <1>1, <1>2, <1>4, <2>1, <2>2, <2>3, ListsKept
<1> QED
  BY <1>3, <1>5 DEF ListInv

(* Every step keeps the invariant. *)
LEMMA InvStep == NoSharedTry /\ SrwInv /\ [Next]_vars => SrwInv'
<1> SUFFICES ASSUME NoSharedTry, SrwInv, [Next]_vars PROVE SrwInv'
  OBVIOUS
<1>1. TypeInv'
  BY TypeStep DEF SrwInv, WordInv
<1>2. CASE UNCHANGED vars
  BY <1>1, <1>2, StutterStep DEF SrwInv, WordInv
<1>3. CASE Next
  <2>1. PICK t \in Threads : Begin(t) \/ End(t) \/ Work(t)
    BY <1>3 DEF Next
  <2>2. WordGoal /\ ListInv'
    BY <2>1, WordStep, ListStep DEF SrwInv
  <2> QED
    BY <1>1, <2>2 DEF SrwInv, WordInv, WordGoal
<1> QED
  BY <1>2, <1>3

(* The invariant holds throughout. *)
THEOREM SrwInvariant == NoSharedTry => (Spec => []SrwInv)
<1> SUFFICES ASSUME NoSharedTry PROVE Spec => []SrwInv
  OBVIOUS
<1>1. Init => SrwInv
  BY InitInv
<1>2. SrwInv /\ [Next]_vars => SrwInv'
  BY InvStep
<1> QED
  BY <1>1, <1>2, PTL DEF Spec

(* A writer is the only owner. *)
LEMMA InvExcludes == SrwInv => MutualExclusion
  BY DEF SrwInv, WordInv, Owners, MutualExclusion, Writers, Readers, SharedOwners

(* The owner of the Link bit is the thread that works on the queue. *)
LEMMA InvLink == SrwInv => LinkHasOneOwner
<1> SUFFICES ASSUME SrwInv PROVE LinkHasOneOwner
  OBVIOUS
<1>1. LinkIsOwned
  BY DEF SrwInv, WordInv
<1>2. \A t \in Threads : t \in LinkOwners <=> OwnsLink(t)
  BY DEF LinkOwners, OwnsLink
<1>3. LinkOwners \subseteq Threads
  BY DEF LinkOwners
<1>4. CASE word.link
  <2>1. PICK t \in Threads : OwnsLink(t)
    BY <1>1, <1>4 DEF LinkIsOwned
  <2>2. LinkOwners = {t}
    BY <1>1, <1>2, <1>3, <2>1 DEF LinkIsOwned
  <2> QED
    BY <1>4, <2>2 DEF LinkHasOneOwner
<1>5. CASE ~word.link
  BY <1>1, <1>2, <1>3, <1>5 DEF LinkIsOwned, LinkHasOneOwner
<1> QED
  BY <1>4, <1>5

(* A node on a list belongs to a thread that is still in its acquire. *)
LEMMA MemberWaits ==
  ASSUME SrwInv, NEW n, Member(n)
  PROVE  n \in Threads /\ n # Nil /\ Waiting(n)
  BY NilIsNoThread DEF SrwInv, WordInv, Flow, Member, Waiting, LinkWork

(* A node that a walk stands on belongs to a thread that still waits. *)
LEMMA InvDangling == SrwInv => NoDanglingNode
<1> SUFFICES ASSUME SrwInv, NEW t \in Threads
             PROVE  /\ pc[t] \in {"compressWalk", "wakeWalk", "releaseWalk"}
                         => curr[t] # Nil /\ Waiting(curr[t])
                    /\ pc[t] \in {"wakeChoose", "wakeUnlink", "wakeSignal", "wakeRelease"}
                         => first[t] # Nil /\ Waiting(first[t])
  BY DEF NoDanglingNode
<1>1. PICK own \in [Threads -> NodePtr], pos \in [Threads -> Int],
           o \in NodePtr, k \in NodePtr : Shape(own, pos, o, k)
  BY DEF SrwInv, ListInv
<1>2. pc[t] \in {"compressWalk", "wakeWalk", "releaseWalk"} => Member(curr[t])
  BY <1>1 DEF Shape, Walks, Walk, Queued, In
<1>3. pc[t] = "wakeChoose" => Member(first[t])
  <2>1. pc[t] = "wakeChoose" => word.wait
    BY DEF SrwInv, WordInv, LinkIsOwned, OwnsLink
  <2> QED
    BY <1>1, <2>1 DEF Shape, Walks, Queue, Queued, In
<1>4. pc[t] \in Wakers => Member(first[t])
  BY <1>1 DEF Shape, Chains, In
<1> QED
  BY <1>2, <1>3, <1>4, MemberWaits DEF Wakers

(* A queue that does not count its shared owners has one at most. *)
LEMMA InvCounted == SrwInv => SharedOwnersCounted
<1> SUFFICES ASSUME SrwInv PROVE SharedOwnersCounted
  OBVIOUS
<1>1. Owners /\ SharedOwners \in SUBSET Threads
  BY DEF SrwInv, WordInv, SharedOwners
<1>2. ASSUME word.wait, ~word.many PROVE Cardinality(SharedOwners) <= 1
  <2>1. SharedOwners = {} \/ \E t \in Threads : SharedOwners = {t}
    BY <1>1, <1>2 DEF Owners
  <2> QED
    <3>1. CASE SharedOwners = {}
      BY <3>1, FS_EmptySet
    <3>2. CASE \E t \in Threads : SharedOwners = {t}
      <4>1. PICK t \in Threads : SharedOwners = {t}
        BY <3>2
      <4>2. Cardinality({t}) = 1
        BY FS_Singleton
      <4> QED
        BY <4>1, <4>2
    <3> QED
      BY <2>1, <3>1, <3>2
<1>3. ASSUME word.many
      PROVE  \E n \in Threads : /\ Waiting(n) /\ head[n] = n
                                /\ snap[n] = Cardinality({t \in SharedOwners : pc[t] # "releaseLast"})
  <2>1. PICK own \in [Threads -> NodePtr], pos \in [Threads -> Int],
             o \in NodePtr, k \in NodePtr : Shape(own, pos, o, k)
    BY DEF SrwInv, ListInv
  <2>2. Member(o)
    BY <1>1, <1>3, <2>1 DEF Owners, Shape, Queue, Queued, In
  <2>3. {t \in SharedOwners : pc[t] # "releaseLast"} = SharedOwners \ Last
    BY DEF SharedOwners, Last
  <2> QED
    BY <1>3, <2>1, <2>2, <2>3, MemberWaits DEF Shape, Snapshot
<1> QED
  BY <1>1, <1>2, <1>3 DEF Owners, SharedOwnersCounted

(* The lock excludes: an exclusive owner is the only owner, however the     *)
(* acquire loops, the fast paths, tries and releases of any number of       *)
(* threads interleave.                                                      *)
THEOREM LockExcludes == NoSharedTry => (Spec => []MutualExclusion)
  BY SrwInvariant, InvExcludes, PTL

(* RtlpSrwCompressQueue and RtlpSrwWake never run twice at once, and Link   *)
(* is never left set.                                                       *)
THEOREM OneThreadOwnsLink == NoSharedTry => (Spec => []LinkHasOneOwner)
  BY SrwInvariant, InvLink, PTL

(* No walk and no wake-up touches the stack of a call that has returned. *)
THEOREM NoNodeDangles == NoSharedTry => (Spec => []NoDanglingNode)
  BY SrwInvariant, InvDangling, PTL

(* A free lock with waiters always has a thread that is to let one in. *)
THEOREM NoWakeupLost == NoSharedTry => (Spec => []NoLostWakeup)
<1>1. SrwInv => NoLostWakeup
  BY DEF SrwInv, WordInv
<1> QED
  BY <1>1, SrwInvariant, PTL

(* Shared owners are never miscounted when the number moves from the word   *)
(* to a snapshot.                                                           *)
THEOREM OwnersCounted == NoSharedTry => (Spec => []SharedOwnersCounted)
  BY SrwInvariant, InvCounted, PTL

-----------------------------------------------------------------------------
(* The lock implements RwLock.                                              *)

Held == {"heldX", "heldS"}
NotAcquiring == {"None", "ReleaseExclusive", "ReleaseShared"}

(* A thread looks the same to callers while it neither takes nor gives up   *)
(* the lock and stays in the same acquire, or in none.                      *)
LEMMA SameMode ==
  ASSUME NEW u \in Threads,
         pc'[u] = pc[u] \/ (pc'[u] \notin Held /\ pc[u] \notin Held),
         call'[u] = call[u] \/ (call'[u] \in NotAcquiring /\ call[u] \in NotAcquiring)
  PROVE  ModeOf(u)' = ModeOf(u)
  BY DEF ModeOf, Held, NotAcquiring

(* A request, an acquire and a release of t, as callers see them. *)
LEMMA VisibleStep ==
  ASSUME WordInv, Flow', NEW t \in Threads, NEW m,
         \A u \in Threads \ {t} : pc'[u] = pc[u] /\ call'[u] = call[u],
         ModeOf(t)' = m,
         \/ ModeOf(t) = "none" /\ m \in {"wantX", "wantS"}
         \/ ModeOf(t) \in {"none", "wantX"} /\ m = "X" /\ ~word.hold
         \/ ModeOf(t) \in {"none", "wantS"} /\ m = "S" /\ (~word.hold \/ (~word.wait /\ word.count # 0))
         \/ ModeOf(t) \in {"X", "S"} /\ m = "none"
  PROVE  Abstract!Next
<1>1. \A u \in Threads \ {t} : ModeOf(u)' = ModeOf(u)
  BY SameMode
<1>2. modes' = [modes EXCEPT ![t] = m] /\ \A u \in Threads : modes[u] = ModeOf(u)
  BY <1>1 DEF modes
<1>3. Abstract!Become(t, m)
  BY <1>2 DEF Abstract!Become
<1>4. \A u \in Threads : /\ ModeOf(u) = "X" => u \in Writers
                         /\ ModeOf(u) = "S" => u \in SharedOwners
  BY DEF ModeOf, Writers, SharedOwners
<1>5. Owners
  BY DEF WordInv
<1>6. CASE ModeOf(t) = "none" /\ m \in {"wantX", "wantS"}
  BY <1>2, <1>3, <1>6 DEF Abstract!Next, Abstract!Request
<1>7. CASE ModeOf(t) \in {"none", "wantX"} /\ m = "X" /\ ~word.hold
  <2>1. \A u \in Threads : ModeOf(u) \notin {"X", "S"}
    BY <1>4, <1>5, <1>7 DEF Owners
  <2> QED
    BY <1>2, <1>3, <1>7, <2>1 DEF Abstract!Next, Abstract!AcquireX
<1>8. CASE /\ ModeOf(t) \in {"none", "wantS"} /\ m = "S"
           /\ ~word.hold \/ (~word.wait /\ word.count # 0)
  <2>1. Writers = {}
    <3>1. CASE ~word.hold
      BY <1>5, <3>1 DEF Owners
    <3>2. CASE ~word.wait /\ word.count # 0
      <4>1. Cardinality(SharedOwners) # 0
        BY <1>5, <3>2 DEF Owners
      <4>2. SharedOwners # {}
        BY <4>1, FS_EmptySet
      <4> QED
        BY <1>5, <4>2 DEF Owners
    <3> QED
      BY <1>8, <3>1, <3>2
  <2>2. \A u \in Threads : ModeOf(u) # "X"
    BY <1>4, <2>1
  <2> QED
    BY <1>2, <1>3, <1>8, <2>2 DEF Abstract!Next, Abstract!AcquireS
<1>9. CASE ModeOf(t) \in {"X", "S"} /\ m = "none"
  BY <1>2, <1>3, <1>9 DEF Abstract!Next, Abstract!Release
<1> QED
  BY <1>6, <1>7, <1>8, <1>9

(* Every step of the lock is a step of RwLock or invisible to callers. *)
LEMMA StepSimulates ==
  ASSUME NoSharedTry, WordInv, Flow', NEW t \in Threads, Begin(t) \/ End(t) \/ Work(t)
  PROVE  Abstract!Next \/ UNCHANGED modes
<1>0. /\ pc \in [Threads -> PcSet] /\ call \in [Threads -> CallSet] /\ old \in [Threads -> Word]
      /\ arg \in [Threads -> Word] /\ word \in Word /\ Flow /\ Owners
  BY DEF WordInv, TypeInv, TypeOK
<1>1. /\ \A u \in Threads : /\ pc[u] = "idle" => ModeOf(u) = "none"
                            /\ pc[u] = "heldX" => ModeOf(u) = "X"
                            /\ pc[u] = "heldS" => ModeOf(u) = "S"
      /\ \A u \in Threads : /\ pc'[u] = "heldX" => ModeOf(u)' = "X"
                            /\ pc'[u] = "heldS" => ModeOf(u)' = "S"
  BY <1>0 DEF Flow, LinkWork, ModeOf, Acquiring
<1>2. ASSUME \A u \in Threads : pc'[u] = pc[u] \/ (pc'[u] \notin Held /\ pc[u] \notin Held),
             \A u \in Threads : \/ call'[u] = call[u]
                                \/ call'[u] \in NotAcquiring /\ call[u] \in NotAcquiring
      PROVE  UNCHANGED modes
  <2>1. \A u \in Threads : ModeOf(u)' = ModeOf(u)
    BY <1>2, SameMode
  <2> QED
    BY <2>1 DEF modes
<1>3. \A u \in Threads : ~Acquiring(u) => call[u] \in NotAcquiring
  BY <1>0 DEF Flow, Acquiring, NotAcquiring, CallSet
<1>4. ASSUME EndLinkWork(t)
      PROVE  \A u \in Threads : \/ call'[u] = call[u]
                                \/ call'[u] \in NotAcquiring /\ call[u] \in NotAcquiring
  BY <1>0, <1>3, <1>4, LeavePlace DEF NotAcquiring
<1>5. CASE Begin(t)
  <2>1. CASE RtlAcquireSRWLockExclusive(t) /\ word.hold
    <3>1. ModeOf(t)' = "wantX"
      BY <1>0, <2>1 DEF RtlAcquireSRWLockExclusive, Goto, ModeOf
    <3> QED
      BY <1>0, <1>1, <2>1, <3>1, VisibleStep DEF RtlAcquireSRWLockExclusive, Goto
  <2>2. CASE RtlAcquireSRWLockExclusive(t) /\ ~word.hold
    <3>1. ModeOf(t)' = "X"
      BY <1>0, <1>1, <2>2 DEF RtlAcquireSRWLockExclusive, Goto
    <3> QED
      BY <1>0, <1>1, <2>2, <3>1, VisibleStep DEF RtlAcquireSRWLockExclusive, Goto
  <2>3. CASE RtlAcquireSRWLockShared(t) /\ word = Free
    <3>1. ModeOf(t)' = "S" /\ ~word.hold
      BY <1>0, <1>1, <2>3, FreeFields DEF RtlAcquireSRWLockShared, Goto
    <3> QED
      BY <1>0, <1>1, <2>3, <3>1, VisibleStep DEF RtlAcquireSRWLockShared, Goto
  <2>4. CASE RtlAcquireSRWLockShared(t) /\ word # Free
    <3>1. ModeOf(t)' = "wantS"
      BY <1>0, <2>4 DEF RtlAcquireSRWLockShared, Goto, ModeOf
    <3> QED
      BY <1>0, <1>1, <2>4, <3>1, VisibleStep DEF RtlAcquireSRWLockShared, Goto
  <2>5. CASE RtlTryAcquireSRWLockExclusive(t)
    <3>1. ModeOf(t)' = "X"
      BY <1>0, <1>1, <2>5 DEF RtlTryAcquireSRWLockExclusive, Goto
    <3> QED
      BY <1>0, <1>1, <2>5, <3>1, VisibleStep DEF RtlTryAcquireSRWLockExclusive, Goto
  <2>6. ~RtlTryAcquireSRWLockShared(t)
    BY DEF NoSharedTry, RtlTryAcquireSRWLockShared
  <2> QED
    BY <1>5, <2>1, <2>2, <2>3, <2>4, <2>5, <2>6 DEF Begin
<1>6. CASE End(t)
  <2>1. /\ ModeOf(t) \in {"X", "S"} /\ ~Acquiring(t) /\ call[t] # "TryAcquireShared"
    BY <1>0, <1>1, <1>6 DEF End, RtlReleaseSRWLockExclusive, RtlReleaseSRWLockShared, Flow, LinkWork
  <2>2. /\ pc'[t] \notin Held /\ call'[t] \in NotAcquiring
        /\ \A u \in Threads \ {t} : pc'[u] = pc[u] /\ call'[u] = call[u]
    <3>1. call[t] \in NotAcquiring
      BY <1>3, <2>1
    <3>2. CASE RtlReleaseSRWLockExclusive(t)
      BY <1>0, <3>1, <3>2 DEF RtlReleaseSRWLockExclusive, Goto, Held, NotAcquiring
    <3>3. CASE RtlReleaseSRWLockShared(t)
      BY <1>0, <3>1, <3>3 DEF RtlReleaseSRWLockShared, ReleaseSharedFrom, Goto, Held, NotAcquiring
    <3> QED
      BY <1>6, <3>2, <3>3 DEF End
  <2>3. ModeOf(t)' = "none"
    BY <2>2 DEF ModeOf, Held, NotAcquiring
  <2> QED
    BY <2>1, <2>2, <2>3, VisibleStep
<1>7. CASE TakeLock(t)
  <2>1. /\ pc[t] = "cas" /\ ~MustWait(t, word) /\ Acquiring(t)
        /\ pc' = [pc EXCEPT ![t] = IF Exclusive(t) THEN "heldX" ELSE "heldS"]
        /\ call' = [call EXCEPT ![t] = "None"]
    BY <1>0, <1>7 DEF TakeLock, Return, Goto, Flow
  <2>2. CASE Exclusive(t)
    <3>1. ModeOf(t) = "wantX" /\ ModeOf(t)' = "X" /\ ~word.hold
      BY <1>0, <2>1, <2>2 DEF ModeOf, Exclusive, MustWait
    <3> QED
      BY <1>0, <2>1, <3>1, VisibleStep
  <2>3. CASE ~Exclusive(t)
    <3>1. ModeOf(t) = "wantS" /\ ModeOf(t)' = "S"
      BY <1>0, <2>1, <2>3 DEF ModeOf, Exclusive, Acquiring
    <3>2. ~word.hold \/ (~word.wait /\ word.count # 0)
      BY <2>1, <2>3 DEF MustWait, SharedMustWait
    <3> QED
      BY <1>0, <2>1, <3>1, <3>2, VisibleStep
  <2> QED
    BY <2>2, <2>3
<1>8. CASE Work(t) /\ ~TakeLock(t)
  <2>1. CASE Reload(t) \/ LoseRace(t) \/ Park(t)
    BY <1>0, <1>2, <2>1 DEF Reload, LoseRace, Park, Goto, Held
  <2>2. CASE Enqueue(t)
    BY <1>0, <1>2, <2>2 DEF Enqueue, EnterCompress, EnterWake, Goto, Held
  <2>3. CASE ClaimWake(t)
    <3>1. pc[t] = "releaseX" /\ call[t] \in NotAcquiring
      BY <1>0, <1>3, <2>3 DEF ClaimWake, Flow, LinkWork
    <3> QED
      BY <1>0, <1>2, <2>3, <3>1 DEF ClaimWake, EnterWake, Return, Goto, Held, NotAcquiring
  <2>4. CASE ReleaseCount(t) \/ ReleaseWalk(t) \/ ReleaseSnapshot(t) \/ ReleaseLast(t)
    <3>1. pc[t] \in {"releaseS", "releaseWalk", "releaseLast"} /\ call[t] \in NotAcquiring
      BY <1>0, <1>3, <2>4 DEF ReleaseCount, ReleaseWalk, ReleaseSnapshot, ReleaseLast, Flow, LinkWork
    <3>2. /\ \A u \in Threads \ {t} : pc'[u] = pc[u] /\ call'[u] = call[u]
          /\ pc'[t] \notin Held /\ (call'[t] = call[t] \/ call'[t] = "None")
      BY <1>0, <2>4, <3>1
      DEF ReleaseCount, ReleaseWalk, ReleaseSnapshot, ReleaseLast, ReleaseSharedFrom, Return, EnterWake,
          Goto, Held
    <3> QED
      BY <1>2, <3>1, <3>2 DEF Held, NotAcquiring
  <2>5. CASE WalkBack(t) \/ CompressFound(t) \/ WakeFound(t) \/ WakeOneChosen(t) \/ WakeUnlink(t)
    BY <1>0, <1>2, <2>5 DEF WalkBack, CompressFound, WakeFound, WakeOneChosen, WakeUnlink, Goto, Held
  <2>6. CASE CompressDone(t) \/ WakeHeld(t)
    <3>1. /\ pc[t] \in {"compressCas", "wakeHeld"}
          /\ \/ pc' = [pc EXCEPT ![t] = AfterLinkWork(t)] /\ EndLinkWork(t)
             \/ (EnterCompress(t, word) \/ EnterWake(t, word)) /\ UNCHANGED call
      BY <2>6 DEF CompressDone, WakeHeld, Goto
    <3>2. CASE pc' = [pc EXCEPT ![t] = AfterLinkWork(t)] /\ EndLinkWork(t)
      BY <1>0, <1>2, <1>4, <3>1, <3>2 DEF AfterLinkWork, Held
    <3>3. CASE (EnterCompress(t, word) \/ EnterWake(t, word)) /\ UNCHANGED call
      BY <1>0, <1>2, <3>1, <3>3, EnterPlace DEF Held
    <3> QED
      BY <3>1, <3>2, <3>3
  <2>7. CASE WakeAllChosen(t)
    BY <1>0, <1>2, <2>7 DEF WakeAllChosen, EnterWake, Goto, Held
  <2>8. CASE WakeSignal(t) \/ WakeRelease(t)
    <3>1. /\ pc[t] \in {"wakeSignal", "wakeRelease"}
          /\ WakeNext(t) \/ UNCHANGED call
          /\ WakeNext(t) => EndLinkWork(t) \/ UNCHANGED call
      BY <2>8 DEF WakeSignal, WakeRelease, WakeNext
    <3>2. \A u \in Threads : pc'[u] = pc[u] \/ (pc'[u] \notin Held /\ pc[u] \notin Held)
      BY <1>0, <2>8 DEF WakeSignal, WakeRelease, WakeNextPc, AfterLinkWork, Goto, Held
    <3> QED
      BY <1>2, <1>4, <3>1, <3>2
  <2>9. ~TryShared(t)
    BY <1>0 DEF TryShared, Flow
  <2> QED
    BY <1>8, <2>1, <2>2, <2>3, <2>4, <2>5, <2>6, <2>7, <2>8, <2>9 DEF Work
<1> QED
  BY <1>5, <1>6, <1>7, <1>8 DEF Work

(* The lock implements RwLock: what callers see of the interlocked          *)
(* operations is the promise of a reader/writer lock.                       *)
THEOREM LockImplementsRwLock == NoSharedTry => (Spec => ImplementsRwLock)
<1> SUFFICES ASSUME NoSharedTry PROVE Spec => ImplementsRwLock
  OBVIOUS
<1>1. Init => Abstract!Init
  BY DEF Init, Abstract!Init, modes, ModeOf
<1>2. SrwInv /\ SrwInv' /\ [Next]_vars => [Abstract!Next]_modes
  <2> SUFFICES ASSUME SrwInv, SrwInv', [Next]_vars
               PROVE  Abstract!Next \/ UNCHANGED modes
    OBVIOUS
  <2>1. CASE UNCHANGED vars
    <3>1. \A u \in Threads : ModeOf(u)' = ModeOf(u)
      BY <2>1 DEF vars, ModeOf
    <3> QED
      BY <3>1 DEF modes
  <2>2. CASE Next
    BY <2>2, StepSimulates DEF Next, SrwInv, WordInv
  <2> QED
    BY <2>1, <2>2
<1>3. Spec => []SrwInv
  BY SrwInvariant
<1> QED
  BY <1>1, <1>2, <1>3, PTL DEF Spec, ImplementsRwLock, Abstract!Spec
=============================================================================
