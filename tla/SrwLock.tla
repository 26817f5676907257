------------------------------ MODULE SrwLock ------------------------------
(***************************************************************************)
(* The slim reader/writer lock of ntext (oca/extensions/ntext/rtl/synch.c),*)
(* one atomic step per interlocked operation or shared access.             *)
(*                                                                         *)
(* The lock is one pointer-sized word.  Its four low bits are the flags    *)
(* Hold, Wait, Link and Many; the rest is the number of shared owners      *)
(* while Wait is clear, and the address of the wait node enqueued last     *)
(* while Wait is set.  A wait node lives on the stack of the acquiring     *)
(* call, and a thread is in at most one such call, so the node of thread t *)
(* is named t.  prev, head, next, snap, excl and spin are its fields.      *)
(*                                                                         *)
(* The keyed event is external: NtReleaseKeyedEvent(node) and              *)
(* NtWaitForKeyedEvent(node) rendezvous, whichever is called first.        *)
(* Backoff, and the bounded spin before a thread parks, change no state.   *)
(* A walk that reached NULL would crash: it has no further step here, and  *)
(* NoDanglingNode says that no walk does.                                  *)
(***************************************************************************)
EXTENDS Integers, FiniteSets

CONSTANTS Threads,   \* the threads that use the lock
          Nil,       \* the NULL node pointer
          Calls      \* the acquiring entry points each thread calls

ASSUME NilIsNoThread == Nil \notin Threads
ASSUME ThreadsAreFinite == IsFiniteSet(Threads)
ASSUME CallsAssumption ==
    Calls \in [Threads -> SUBSET {"AcquireExclusive", "AcquireShared",
                                  "TryAcquireExclusive", "TryAcquireShared"}]

VARIABLES word,                                \* SRWLock->Ptr
          prev, head, next, snap, excl, spin,  \* SRW_WAIT_NODE fields, by node
          pc,      \* where each thread is
          call,    \* the entry point each thread is in
          old,     \* OldStatus of that entry point
          arg,     \* OldStatus of RtlpSrwCompressQueue and RtlpSrwWake
          curr,    \* curr, the node a walk has reached
          first    \* first, the node to wake next

nodeVars == <<prev, head, next, snap, excl, spin>>
vars == <<word, nodeVars, pc, call, old, arg, curr, first>>

NodePtr == Threads \cup {Nil}
Word == [hold : BOOLEAN, wait : BOOLEAN, link : BOOLEAN, many : BOOLEAN,
         count : Nat, tail : NodePtr]

Free == [hold |-> FALSE, wait |-> FALSE, link |-> FALSE, many |-> FALSE,
         count |-> 0, tail |-> Nil]
OneShared == [Free EXCEPT !.hold = TRUE, !.count = 1]

(* The flag operations on a word. *)
SetHold(w) == [w EXCEPT !.hold = TRUE]
ClearHold(w) == [w EXCEPT !.hold = FALSE]
SetLink(w) == [w EXCEPT !.link = TRUE]
ClearLink(w) == [w EXCEPT !.link = FALSE]

(* RtlInitializeSRWLock; no thread is in a call. *)
Init == /\ word = Free
        /\ prev = [t \in Threads |-> Nil]
        /\ head = [t \in Threads |-> Nil]
        /\ next = [t \in Threads |-> Nil]
        /\ snap = [t \in Threads |-> 0]
        /\ excl = [t \in Threads |-> FALSE]
        /\ spin = [t \in Threads |-> FALSE]
        /\ pc = [t \in Threads |-> "idle"]
        /\ call = [t \in Threads |-> "None"]
        /\ old = [t \in Threads |-> Free]
        /\ arg = [t \in Threads |-> Free]
        /\ curr = [t \in Threads |-> Nil]
        /\ first = [t \in Threads |-> Nil]

-----------------------------------------------------------------------------
(* Control flow.  A call that returns drops its stack frame: its locals and *)
(* its wait node are reset, so that a pointer kept to them leads to Nil.    *)

Goto(t, l) == pc' = [pc EXCEPT ![t] = l]

Return(t, l) ==
    /\ Goto(t, l)
    /\ call' = [call EXCEPT ![t] = "None"]
    /\ old' = [old EXCEPT ![t] = Free]
    /\ arg' = [arg EXCEPT ![t] = Free]
    /\ curr' = [curr EXCEPT ![t] = Nil]
    /\ first' = [first EXCEPT ![t] = Nil]

DropNode(t) ==
    /\ prev' = [prev EXCEPT ![t] = Nil]
    /\ head' = [head EXCEPT ![t] = Nil]
    /\ next' = [next EXCEPT ![t] = Nil]
    /\ snap' = [snap EXCEPT ![t] = 0]
    /\ excl' = [excl EXCEPT ![t] = FALSE]
    /\ spin' = [spin EXCEPT ![t] = FALSE]

Exclusive(t) == call[t] = "AcquireExclusive"
Acquiring(t) == call[t] \in {"AcquireExclusive", "AcquireShared"}

(* Compressing and waking run inside an acquire, which then parks, or       *)
(* inside a release, which then returns.                                    *)
AfterLinkWork(t) == IF Acquiring(t) THEN "spin" ELSE "idle"

EndLinkWork(t) ==
    /\ call' = [call EXCEPT ![t] = IF Acquiring(t) THEN @ ELSE "None"]
    /\ old' = [old EXCEPT ![t] = IF Acquiring(t) THEN @ ELSE Free]
    /\ arg' = [arg EXCEPT ![t] = Free]
    /\ curr' = [curr EXCEPT ![t] = Nil]
    /\ first' = [first EXCEPT ![t] = Nil]

(* The top of RtlpSrwWake's loop, with OldStatus = w. *)
EnterWake(t, w) ==
    /\ Goto(t, IF w.hold THEN "wakeHeld" ELSE "wakeWalk")
    /\ arg' = [arg EXCEPT ![t] = w]
    /\ curr' = [curr EXCEPT ![t] = w.tail]

(* The top of RtlpSrwCompressQueue's loop, with OldStatus = w. *)
EnterCompress(t, w) ==
    IF w.hold
      THEN /\ Goto(t, "compressWalk")
           /\ arg' = [arg EXCEPT ![t] = w]
           /\ curr' = [curr EXCEPT ![t] = w.tail]
      ELSE EnterWake(t, w)

-----------------------------------------------------------------------------
(* Acquiring.                                                               *)

RtlAcquireSRWLockExclusive(t) ==
    /\ pc[t] = "idle"
    /\ "AcquireExclusive" \in Calls[t]
    /\ IF word.hold
         THEN /\ Goto(t, "load")
              /\ call' = [call EXCEPT ![t] = "AcquireExclusive"]
              /\ UNCHANGED word
         ELSE /\ word' = SetHold(word)
              /\ Goto(t, "heldX")
              /\ UNCHANGED call
    /\ UNCHANGED <<nodeVars, old, arg, curr, first>>

RtlAcquireSRWLockShared(t) ==
    /\ pc[t] = "idle"
    /\ "AcquireShared" \in Calls[t]
    /\ IF word = Free
         THEN /\ word' = OneShared
              /\ Goto(t, "heldS")
              /\ UNCHANGED <<call, old>>
         ELSE /\ Goto(t, "cas")
              /\ call' = [call EXCEPT ![t] = "AcquireShared"]
              /\ old' = [old EXCEPT ![t] = word]
              /\ UNCHANGED word
    /\ UNCHANGED <<nodeVars, arg, curr, first>>

(* OldStatus = SRWLock->Ptr, at first and after a lost race. *)
Reload(t) ==
    /\ pc[t] = "load"
    /\ Goto(t, IF call[t] = "TryAcquireShared" THEN "tryCas" ELSE "cas")
    /\ old' = [old EXCEPT ![t] = word]
    /\ UNCHANGED <<word, nodeVars, call, arg, curr, first>>

(* Fault: an exclusive owner with no waiters is overlooked. *)
SharedIgnoresOwner(w) == w.hold /\ w.wait

SharedMustWait(w) == w.hold /\ (w.wait \/ w.count = 0)
MustWait(t, w) == IF Exclusive(t) THEN w.hold ELSE SharedMustWait(w)

(* Fault: the first waiter sets Link too. *)
EnqueuedLinked(t, w) ==
    [w EXCEPT !.tail = t, !.count = 0, !.wait = TRUE, !.link = TRUE,
              !.many = IF w.wait THEN w.many ELSE Exclusive(t) /\ w.count > 1]

(* Fault: Many is never set. *)
EnqueuedNotMany(t, w) ==
    [w EXCEPT !.tail = t, !.count = 0, !.wait = TRUE, !.link = w.wait]

(* The word w once thread t's node is enqueued. *)
Enqueued(t, w) ==
    [w EXCEPT !.tail = t,
              !.count = 0,
              !.wait = TRUE,
              !.link = w.wait,
              !.many = IF w.wait THEN w.many ELSE Exclusive(t) /\ w.count > 1]

Enqueue(t) ==
    /\ pc[t] = "cas"
    /\ MustWait(t, old[t])
    /\ word = old[t]
    /\ word' = Enqueued(t, word)
    /\ excl' = [excl EXCEPT ![t] = Exclusive(t)]
    /\ spin' = [spin EXCEPT ![t] = TRUE]
    /\ next' = [next EXCEPT ![t] = Nil]
    /\ prev' = [prev EXCEPT ![t] = word.tail]
    /\ head' = [head EXCEPT ![t] = IF word.wait THEN Nil ELSE t]
    /\ snap' = [snap EXCEPT ![t] = IF Exclusive(t) THEN word.count ELSE 0]
    /\ IF word.wait /\ ~word.link
         THEN EnterCompress(t, Enqueued(t, word))
         ELSE /\ Goto(t, "spin")
              /\ UNCHANGED <<arg, curr>>
    /\ UNCHANGED <<call, old, first>>

(* The word w once a thread has acquired it in the loop. *)
TakenExclusive(w) == SetHold(w)
(* Fault: the count goes the wrong way. *)
TakenSharedDown(w) == IF w.wait THEN SetHold(w)
                      ELSE [SetHold(w) EXCEPT !.count = @ - 1]

TakenShared(w) == IF w.wait THEN SetHold(w)
                            ELSE [SetHold(w) EXCEPT !.count = @ + 1]

TakeLock(t) ==
    /\ pc[t] = "cas"
    /\ ~MustWait(t, old[t])
    /\ word = old[t]
    /\ word' = IF Exclusive(t) THEN TakenExclusive(word) ELSE TakenShared(word)
    /\ Return(t, IF Exclusive(t) THEN "heldX" ELSE "heldS")
    /\ DropNode(t)

LoseRace(t) ==
    /\ pc[t] \in {"cas", "tryCas"}
    /\ pc[t] = "tryCas" => ~SharedMustWait(old[t])
    /\ word # old[t]
    /\ Goto(t, "load")
    /\ UNCHANGED <<word, nodeVars, call, old, arg, curr, first>>

(* The spin ends and the thread clears its Spin bit: it blocks on the keyed *)
(* event, unless a waker cleared the bit first.  Either way it goes round   *)
(* the loop with OldStatus as it was when it enqueued.                      *)
Park(t) ==
    /\ pc[t] = "spin"
    /\ spin' = [spin EXCEPT ![t] = FALSE]
    /\ Goto(t, IF spin[t] THEN "blocked" ELSE "cas")
    /\ UNCHANGED <<word, prev, head, next, snap, excl, call, old, arg, curr, first>>

RtlTryAcquireSRWLockExclusive(t) ==
    /\ pc[t] = "idle"
    /\ "TryAcquireExclusive" \in Calls[t]
    /\ ~word.hold
    /\ word' = SetHold(word)
    /\ Goto(t, "heldX")
    /\ UNCHANGED <<nodeVars, call, old, arg, curr, first>>

RtlTryAcquireSRWLockShared(t) ==
    /\ pc[t] = "idle"
    /\ "TryAcquireShared" \in Calls[t]
    /\ IF word = Free
         THEN /\ word' = OneShared
              /\ Goto(t, "heldS")
              /\ UNCHANGED <<call, old>>
         ELSE /\ Goto(t, "tryCas")
              /\ call' = [call EXCEPT ![t] = "TryAcquireShared"]
              /\ old' = [old EXCEPT ![t] = word]
              /\ UNCHANGED word
    /\ UNCHANGED <<nodeVars, arg, curr, first>>

(* What RtlTryAcquireSRWLockShared stores in place of w. *)
TriedShared(w) == IF w.wait THEN SetHold(w)
                            ELSE [w EXCEPT !.count = @ + 1]

TryShared(t) ==
    /\ pc[t] = "tryCas"
    /\ UNCHANGED nodeVars
    /\ \/ /\ SharedMustWait(old[t])
          /\ Return(t, "idle")
          /\ UNCHANGED word
       \/ /\ ~SharedMustWait(old[t])
          /\ word = old[t]
          /\ word' = TriedShared(word)
          /\ Return(t, "heldS")

-----------------------------------------------------------------------------
(* Releasing.                                                               *)

(* Fault: nobody is woken. *)
ReleaseExclusiveOnly(t) ==
    /\ pc[t] = "heldX"
    /\ word' = ClearHold(word)
    /\ Goto(t, "idle")
    /\ UNCHANGED <<nodeVars, call, old, arg, curr, first>>

RtlReleaseSRWLockExclusive(t) ==
    /\ pc[t] = "heldX"
    /\ word' = ClearHold(word)
    /\ IF word.wait /\ ~word.link
         THEN /\ Goto(t, "releaseX")
              /\ call' = [call EXCEPT ![t] = "ReleaseExclusive"]
              /\ old' = [old EXCEPT ![t] = word']
         ELSE /\ Goto(t, "idle")
              /\ UNCHANGED <<call, old>>
    /\ UNCHANGED <<nodeVars, arg, curr, first>>

ClaimWake(t) ==
    /\ pc[t] = "releaseX"
    /\ \/ /\ word = old[t]
          /\ word' = SetLink(word)
          /\ EnterWake(t, SetLink(word))
          /\ UNCHANGED <<call, old, first>>
       \/ /\ word # old[t]
          /\ Return(t, "idle")
          /\ UNCHANGED word
    /\ UNCHANGED nodeVars

(* Where RtlReleaseSRWLockShared goes on with OldStatus = w. *)
ReleaseSharedFrom(t, w) ==
    /\ old' = [old EXCEPT ![t] = w]
    /\ Goto(t, IF ~w.wait THEN "releaseS"
               ELSE IF w.many THEN "releaseWalk" ELSE "releaseLast")
    /\ curr' = [curr EXCEPT ![t] = w.tail]

RtlReleaseSRWLockShared(t) ==
    /\ pc[t] = "heldS"
    /\ IF word = OneShared
         THEN /\ word' = Free
              /\ Goto(t, "idle")
              /\ UNCHANGED <<call, old, curr>>
         ELSE /\ call' = [call EXCEPT ![t] = "ReleaseShared"]
              /\ ReleaseSharedFrom(t, word)
              /\ UNCHANGED word
    /\ UNCHANGED <<nodeVars, arg, first>>

(* Fault: one release frees the lock for all. *)
FreeForAll(w) == Free

OneLess(w) == IF w.count <= 1 THEN Free ELSE [w EXCEPT !.count = @ - 1]

ReleaseCount(t) ==
    /\ pc[t] = "releaseS"
    /\ \/ /\ word = old[t]
          /\ word' = OneLess(word)
          /\ Return(t, "idle")
       \/ /\ word # old[t]
          /\ ReleaseSharedFrom(t, word)
          /\ UNCHANGED <<word, call, arg, first>>
    /\ UNCHANGED nodeVars

(* With Many set: find the oldest waiter and take one from its snapshot. *)
ReleaseWalk(t) ==
    /\ pc[t] = "releaseWalk"
    /\ curr[t] # Nil
    /\ head[curr[t]] = Nil
    /\ curr' = [curr EXCEPT ![t] = prev[curr[t]]]
    /\ UNCHANGED <<word, nodeVars, pc, call, old, arg, first>>

ReleaseSnapshot(t) ==
    LET oldest == head[curr[t]]
    IN  /\ pc[t] = "releaseWalk"
        /\ curr[t] # Nil
        /\ oldest # Nil
        /\ snap' = [snap EXCEPT ![oldest] = @ - 1]
        /\ \/ /\ snap[oldest] # 1   \* the result is unsigned: count > 0
              /\ Return(t, "idle")
           \/ /\ snap[oldest] = 1
              /\ Goto(t, "releaseLast")
              /\ UNCHANGED <<call, old, arg, curr, first>>
        /\ UNCHANGED <<word, prev, head, next, excl, spin>>

(* The last shared owner gives up Hold, and wakes unless another thread     *)
(* owns the Link.                                                           *)
Released(w) == [w EXCEPT !.many = FALSE, !.hold = FALSE, !.link = TRUE]

ReleaseLast(t) ==
    /\ pc[t] = "releaseLast"
    /\ \/ /\ word = old[t]
          /\ word' = Released(word)
          /\ IF word.link THEN Return(t, "idle")
                          ELSE /\ EnterWake(t, Released(word))
                               /\ UNCHANGED <<call, old, first>>
       \/ /\ word # old[t]
          /\ old' = [old EXCEPT ![t] = word]
          /\ UNCHANGED <<word, pc, call, arg, curr, first>>
    /\ UNCHANGED nodeVars

-----------------------------------------------------------------------------
(* RtlpSrwCompressQueue and RtlpSrwWake, run by the owner of the Link bit.  *)

(* One turn of the walk from the newest node to one with a known head. *)
WalkBack(t) ==
    /\ pc[t] \in {"compressWalk", "wakeWalk"}
    /\ curr[t] # Nil
    /\ head[curr[t]] = Nil
    /\ next' = [next EXCEPT ![prev[curr[t]]] = curr[t]]
    /\ curr' = [curr EXCEPT ![t] = prev[curr[t]]]
    /\ UNCHANGED <<word, prev, head, snap, excl, spin, pc, call, old, arg, first>>

CompressFound(t) ==
    /\ pc[t] = "compressWalk"
    /\ curr[t] # Nil
    /\ head[curr[t]] # Nil
    /\ head' = [head EXCEPT ![arg[t].tail] = head[curr[t]]]
    /\ Goto(t, "compressCas")
    /\ UNCHANGED <<word, prev, next, snap, excl, spin, call, old, arg, curr, first>>

CompressDone(t) ==
    /\ pc[t] = "compressCas"
    /\ \/ /\ word = arg[t]
          /\ word' = ClearLink(word)
          /\ Goto(t, AfterLinkWork(t))
          /\ EndLinkWork(t)
          /\ UNCHANGED nodeVars
       \/ /\ word # arg[t]
          /\ EnterCompress(t, word)
          /\ UNCHANGED <<word, nodeVars, call, old, first>>

WakeHeld(t) ==
    /\ pc[t] = "wakeHeld"
    /\ \/ /\ word = arg[t]
          /\ word' = ClearLink(word)
          /\ Goto(t, AfterLinkWork(t))
          /\ EndLinkWork(t)
          /\ UNCHANGED nodeVars
       \/ /\ word # arg[t]
          /\ EnterWake(t, word)
          /\ UNCHANGED <<word, nodeVars, call, old, first>>

WakeFound(t) ==
    /\ pc[t] = "wakeWalk"
    /\ curr[t] # Nil
    /\ head[curr[t]] # Nil
    /\ first' = [first EXCEPT ![t] = head[curr[t]]]
    /\ head' = [head EXCEPT ![arg[t].tail] = head[curr[t]]]
    /\ Goto(t, "wakeChoose")
    /\ UNCHANGED <<word, prev, next, snap, excl, spin, call, old, arg, curr>>

(* Fault: the chosen node stays linked to the rest. *)
WakeOneStillLinked(t) ==
    /\ pc[t] = "wakeChoose"
    /\ excl[first[t]] /\ next[first[t]] # Nil
    /\ head' = [head EXCEPT ![arg[t].tail] = next[first[t]]]
    /\ Goto(t, "wakeUnlink")
    /\ UNCHANGED <<word, prev, next, snap, excl, spin, call, old, arg, curr, first>>

(* An exclusive waiter with waiters behind it is taken off the list alone... *)
WakeOneChosen(t) ==
    /\ pc[t] = "wakeChoose"
    /\ excl[first[t]] /\ next[first[t]] # Nil
    /\ head' = [head EXCEPT ![arg[t].tail] = next[first[t]]]
    /\ next' = [next EXCEPT ![first[t]] = Nil]
    /\ Goto(t, "wakeUnlink")
    /\ UNCHANGED <<word, prev, snap, excl, spin, call, old, arg, curr, first>>

WakeUnlink(t) ==
    /\ pc[t] = "wakeUnlink"
    /\ word' = ClearLink(word)
    /\ Goto(t, "wakeSignal")
    /\ UNCHANGED <<nodeVars, call, old, arg, curr, first>>

(* ... otherwise the whole list is. *)
WakeAllChosen(t) ==
    /\ pc[t] = "wakeChoose"
    /\ ~(excl[first[t]] /\ next[first[t]] # Nil)
    /\ \/ /\ word = arg[t]
          /\ word' = Free
          /\ Goto(t, "wakeSignal")
          /\ UNCHANGED <<nodeVars, call, old, arg, curr, first>>
       \/ /\ word # arg[t]
          /\ head' = [head EXCEPT ![arg[t].tail] = first[t]]
          /\ EnterWake(t, word)
          /\ UNCHANGED <<word, prev, next, snap, excl, spin, call, old, first>>

(* What follows once first has been dealt with. *)
WakeNextPc(t) == IF next[first[t]] = Nil THEN AfterLinkWork(t) ELSE "wakeSignal"

WakeNext(t) ==
    IF next[first[t]] = Nil
      THEN EndLinkWork(t)
      ELSE /\ first' = [first EXCEPT ![t] = next[first[t]]]
           /\ UNCHANGED <<call, old, arg, curr>>

(* Fault: only threads that still spin are woken. *)
WakeSpinnersOnly(t) ==
    /\ pc[t] = "wakeSignal"
    /\ spin' = [spin EXCEPT ![first[t]] = FALSE]
    /\ Goto(t, WakeNextPc(t)) /\ WakeNext(t)
    /\ UNCHANGED <<word, prev, head, next, snap, excl>>

(* Clear the Spin bit of first: if it was set, that has woken its thread;   *)
(* if not, the thread is at, or on its way to, the keyed event.             *)
WakeSignal(t) ==
    /\ pc[t] = "wakeSignal"
    /\ spin' = [spin EXCEPT ![first[t]] = FALSE]
    /\ IF spin[first[t]]
         THEN Goto(t, WakeNextPc(t)) /\ WakeNext(t)
         ELSE Goto(t, "wakeRelease") /\ UNCHANGED <<call, old, arg, curr, first>>
    /\ UNCHANGED <<word, prev, head, next, snap, excl>>

WakeRelease(t) ==
    /\ pc[t] = "wakeRelease"
    /\ pc[first[t]] = "blocked"
    /\ pc' = [pc EXCEPT ![first[t]] = "cas", ![t] = WakeNextPc(t)]
    /\ WakeNext(t)
    /\ UNCHANGED <<word, nodeVars>>

-----------------------------------------------------------------------------

(* A call, of the caller's choosing... *)
Begin(t) == \/ RtlAcquireSRWLockExclusive(t)
            \/ RtlAcquireSRWLockShared(t)
            \/ RtlTryAcquireSRWLockExclusive(t)
            \/ RtlTryAcquireSRWLockShared(t)

(* ... which may take long to release what it acquired, but does... *)
End(t) == \/ RtlReleaseSRWLockExclusive(t)
          \/ RtlReleaseSRWLockShared(t)

(* ... and the steps of a call once begun. *)
Work(t) == \/ Reload(t) \/ Enqueue(t) \/ TakeLock(t) \/ LoseRace(t) \/ Park(t)
           \/ TryShared(t)
           \/ ClaimWake(t) \/ ReleaseCount(t) \/ ReleaseWalk(t)
           \/ ReleaseSnapshot(t) \/ ReleaseLast(t)
           \/ WalkBack(t) \/ CompressFound(t) \/ CompressDone(t)
           \/ WakeHeld(t) \/ WakeFound(t) \/ WakeOneChosen(t) \/ WakeUnlink(t)
           \/ WakeAllChosen(t) \/ WakeSignal(t) \/ WakeRelease(t)

Next == \E t \in Threads : Begin(t) \/ End(t) \/ Work(t)

Spec == Init /\ [][Next]_vars

(* A thread in a call keeps running, and an owner releases in the end. *)
Fairness == \A t \in Threads : WF_vars(End(t) \/ Work(t))

-----------------------------------------------------------------------------

PcSet == {"idle", "load", "cas", "tryCas", "spin", "blocked", "heldX", "heldS",
          "releaseX", "releaseS", "releaseWalk", "releaseLast",
          "compressWalk", "compressCas", "wakeHeld", "wakeWalk", "wakeChoose",
          "wakeUnlink", "wakeSignal", "wakeRelease"}
CallSet == {"None", "AcquireExclusive", "AcquireShared", "TryAcquireShared",
            "ReleaseExclusive", "ReleaseShared"}

(* Every variable has its type. *)
TypeOK == /\ word \in Word
          /\ prev \in [Threads -> NodePtr]
          /\ head \in [Threads -> NodePtr]
          /\ next \in [Threads -> NodePtr]
          /\ snap \in [Threads -> Int]
          /\ excl \in [Threads -> BOOLEAN]
          /\ spin \in [Threads -> BOOLEAN]
          /\ pc \in [Threads -> PcSet]
          /\ call \in [Threads -> CallSet]
          /\ old \in [Threads -> Word]
          /\ arg \in [Threads -> Word]
          /\ curr \in [Threads -> NodePtr]
          /\ first \in [Threads -> NodePtr]

Writers == {t \in Threads : pc[t] = "heldX"}
Readers == {t \in Threads : pc[t] = "heldS"}

(* An exclusive owner is the only owner: the two acquire loops, the barging *)
(* fast paths and the last shared release never let another thread in.      *)
MutualExclusion == \A t \in Writers, u \in Writers \cup Readers : t = u

(* The thread that set Link and has not cleared it yet: only it writes the  *)
(* list fields of nodes that are published.                                 *)
LinkOwners == {t \in Threads : pc[t] \in
                  {"compressWalk", "compressCas", "wakeHeld", "wakeWalk",
                   "wakeChoose", "wakeUnlink"}}

(* Link is set exactly while one thread compresses the queue or picks the   *)
(* waiters to wake: RtlpSrwWake and RtlpSrwCompressQueue never run twice at *)
(* once on one lock, and Link never stays set with nobody to clear it.      *)
LinkHasOneOwner == IF word.link THEN \E t \in Threads : LinkOwners = {t}
                                ELSE LinkOwners = {}

(* Threads whose node is published and not yet woken. *)
Waiting(t) == Acquiring(t) /\ pc[t] \notin {"load", "cas"}

(* Every node a walk or a wake-up is about to touch is the node of a thread *)
(* that is still inside its acquire: no thread returned, or was woken, while*)
(* another still held a pointer into its stack.                             *)
NoDanglingNode ==
    \A t \in Threads :
        /\ pc[t] \in {"compressWalk", "wakeWalk", "releaseWalk"}
             => curr[t] # Nil /\ Waiting(curr[t])
        /\ pc[t] \in {"wakeChoose", "wakeUnlink", "wakeSignal", "wakeRelease"}
             => first[t] # Nil /\ Waiting(first[t])

(* While there are waiters and nobody holds the lock, someone is bound to   *)
(* let one in: the Link owner, a release about to set Link, a waker that    *)
(* has taken nodes off the list, or a thread already past its wake-up.      *)
NoLostWakeup ==
    word.wait /\ ~word.hold
      => \/ word.link
         \/ \E t \in Threads : \/ pc[t] = "releaseX" /\ old[t] = word
                               \/ pc[t] \in {"load", "cas"}
                               \/ pc[t] = "spin" /\ ~spin[t]
                               \/ pc[t] \in {"wakeSignal", "wakeRelease"}

(* Threads that own the lock in shared mode, up to the step of              *)
(* RtlReleaseSRWLockShared that gives it up.                                *)
SharedOwners == {t \in Threads : pc[t] \in
                    {"heldS", "releaseS", "releaseWalk", "releaseLast"}}

(* Every shared owner is accounted for, wherever the word keeps the number: *)
(* in its upper bits before a thread waits, in the snapshot of the oldest   *)
(* waiter once Many is set, and as Hold alone otherwise.  So exactly the    *)
(* last release clears Hold, whatever threads enqueue in between.           *)
SharedOwnersCounted ==
    /\ ~word.wait => word.count = Cardinality(SharedOwners)
    /\ word.wait /\ ~word.many => Cardinality(SharedOwners) <= 1
    /\ word.many => \E n \in Threads :
                       /\ Waiting(n)
                       /\ head[n] = n
                       /\ snap[n] = Cardinality({t \in SharedOwners :
                                                   pc[t] # "releaseLast"})

(* How the lock looks to its callers. *)
ModeOf(t) == CASE pc[t] = "heldX" -> "X"
               [] pc[t] = "heldS" -> "S"
               [] call[t] = "AcquireExclusive" -> "wantX"
               [] call[t] = "AcquireShared" -> "wantS"
               [] call[t] = "TryAcquireShared" -> "tryS"
               [] OTHER -> "none"

modes == [t \in Threads |-> ModeOf(t)]

Abstract == INSTANCE RwLock WITH mode <- modes

(* The lock implements RwLock: each interlocked operation of the entry      *)
(* points is one step of that specification or invisible to callers.        *)
ImplementsRwLock == Abstract!Spec

Calling(t) == pc[t] = "idle" /\ pc'[t] # "idle"

(* Progress.  Every thread keeps running and an owner releases in the end:  *)
(* then every acquire returns, so no waiter is left on the keyed event or   *)
(* spins for ever, unless new calls come without end.                       *)
EveryAcquireReturns ==
    \/ \A t \in Threads : Acquiring(t) ~> pc[t] \in {"heldX", "heldS"}
    \/ []<><<\E t \in Threads : Calling(t)>>_vars
=============================================================================
