------------------------- MODULE ConditionVariable -------------------------
(***************************************************************************)
(* Condition variables (RtlSleepConditionVariable*, RtlWake* in            *)
(* ntext/rtl/synch.c).  The variable is one word: the address of the wait  *)
(* block pushed last, the Link flag (0x8), held by the one thread that may *)
(* rearrange the list, and in three bits the wake requests that arrived    *)
(* while it does, 7 standing for "wake all" (CVF_Full).  A wait block is   *)
(* on the stack of the sleeping call and is named after its thread.  From  *)
(* a block, back leads to the next older one, next to the next newer one,  *)
(* and notify, where it is known, to the oldest.                           *)
(*                                                                         *)
(* A compare-and-swap loop whose new value depends on the word alone is    *)
(* one step; where list work comes before the exchange it is two.  Only    *)
(* the Link owner reads or writes the links of blocks on the list, so a    *)
(* walk of the list is one step too.                                       *)
(*                                                                         *)
(* The critical section or SRW lock of the caller is an atomic lock, in    *)
(* one mode.  The keyed event is external: a release waits for its waiter. *)
(* After a time-out the second wait polls until the waker has announced    *)
(* itself (uWakeupThreadId) and then allows it 5 ms to call the release:   *)
(* the model takes those 5 ms to be enough.  Both calls to sleep leave the *)
(* SRWLock field NULL, so RtlpQueueWaitBlockToSRWLock is never reached.    *)
(***************************************************************************)
EXTENDS Naturals, Sequences, FiniteSets

CONSTANTS Threads,
          Nil,     \* NULL
          Calls    \* Calls[t]: what t may call

Operations == {"sleep", "timedSleep", "wake", "wakeAll"}

ASSUME ThreadsAssumption == IsFiniteSet(Threads) /\ Nil \notin Threads
ASSUME CallsAssumption == Calls \in [Threads -> SUBSET Operations]

VARIABLES cv,       \* the condition variable
          back, notify, next,   \* links of the blocks
          spin,     \* spin[t]: bit 1 of the flag of t's block
          lock,     \* the owner of the caller's lock, or Nil
          pc,
          timed,    \* timed[t]: t sleeps with a time-out
          caller,   \* caller[t]: who called RtlpWakeConditionVariable
          status,   \* status[t]: ConditionVariableStatus, or Current
          base,     \* base[t]: WakeCount
          wake,     \* wake[t]: the blocks taken off the list, pWake
          removed   \* removed[t]: t timed out and has unlinked its own block

links == <<back, notify, next>>
work == <<status, base, wake>>
vars == <<cv, links, spin, lock, pc, timed, caller, work, removed>>

Full == 7   \* CVF_Full
Word == [tail : Threads \cup {Nil}, link : BOOLEAN, count : 0..Full]
Empty == [tail |-> Nil, link |-> FALSE, count |-> 0]
Resting(p) == [tail |-> p, link |-> FALSE, count |-> 0]

(* RtlInitializeConditionVariable *)
Init == /\ cv = Empty
        /\ back = [t \in Threads |-> Nil]
        /\ notify = [t \in Threads |-> Nil]
        /\ next = [t \in Threads |-> Nil]
        /\ spin = [t \in Threads |-> FALSE]
        /\ lock = Nil
        /\ pc = [t \in Threads |-> "idle"]
        /\ timed = [t \in Threads |-> FALSE]
        /\ caller = [t \in Threads |-> "none"]
        /\ status = [t \in Threads |-> Empty]
        /\ base = [t \in Threads |-> 0]
        /\ wake = [t \in Threads |-> <<>>]
        /\ removed = [t \in Threads |-> FALSE]

Goto(t, l) == pc' = [pc EXCEPT ![t] = l]

-----------------------------------------------------------------------------
(* Walks.                                                                   *)

(* Where the links f lead from p, step by step. *)
Reached(f, p) ==
    LET At[i \in 1..Cardinality(Threads)] ==
            IF i = 1 THEN p ELSE IF At[i-1] = Nil THEN Nil ELSE f[At[i-1]]
    IN  At

(* The blocks from p along the links f. *)
Follow(f, p) ==
    LET At == Reached(f, p)
    IN  [i \in 1..Cardinality({j \in DOMAIN At : At[j] # Nil}) |-> At[i]]

(* Walking back from p to the first block that knows the oldest one, as     *)
(* every Link owner does, sets next on the way.                             *)
KnowsOldest(p) ==
    LET s == Follow(back, p)
    IN  CHOOSE k \in DOMAIN s : /\ notify[s[k]] # Nil
                                /\ \A j \in 1..k-1 : notify[s[j]] = Nil
Oldest(p) == notify[Follow(back, p)[KnowsOldest(p)]]
Relinked(p) ==
    LET s == Follow(back, p)
        k == KnowsOldest(p)
    IN  [q \in Threads |-> IF \E j \in 1..k-1 : s[j+1] = q
                             THEN s[CHOOSE j \in 1..k-1 : s[j+1] = q]
                             ELSE next[q]]

-----------------------------------------------------------------------------
(* RtlpWakeConditionVariable, entered by the Link owner with the status st  *)
(* and n wake-ups to do beyond those requested in the word.                 *)

EnterWake(t, who, st, n) ==
    /\ Goto(t, "waking")
    /\ caller' = [caller EXCEPT ![t] = who]
    /\ status' = [status EXCEPT ![t] = st]
    /\ base' = [base EXCEPT ![t] = n]
    /\ wake' = [wake EXCEPT ![t] = <<>>]

(* "Wake all" has been requested: take the whole list, whatever it is now. *)
TakeAll(t) ==
    /\ pc[t] = "waking"
    /\ status[t].count = Full
    /\ cv' = Empty
    /\ wake' = [wake EXCEPT ![t] = @ \o Follow(back, cv.tail)]
    /\ Goto(t, "release")
    /\ UNCHANGED <<links, spin, lock, timed, caller, status, base, removed>>

MaxWakeCount(t) == base[t] + status[t].count

(* Fault: the oldest block that stays keeps its link to the one taken. *)
StillLinked(q) == back

(* The links once q is the oldest block. *)
CutBehind(q) == [back EXCEPT ![q] = Nil]

(* Take blocks from the old end, up to the number asked for, but never the  *)
(* newest: that one goes with the word.                                     *)
TakeOldest(t) ==
    LET tail == status[t].tail
        line == Follow(Relinked(tail), Oldest(tail))
        wanted == IF MaxWakeCount(t) > Len(wake[t]) THEN MaxWakeCount(t) - Len(wake[t]) ELSE 0
        k == IF wanted < Len(line) THEN wanted ELSE Len(line) - 1
    IN  /\ pc[t] = "waking"
        /\ status[t].count # Full
        /\ next' = Relinked(tail)
        /\ wake' = [wake EXCEPT ![t] = @ \o SubSeq(line, 1, k)]
        /\ IF k = 0 THEN UNCHANGED <<back, notify>>
           ELSE /\ notify' = [notify EXCEPT ![tail] = line[k+1]]
                /\ back' = CutBehind(line[k+1])
        /\ Goto(t, IF k = wanted THEN "wakeStop" ELSE "wakeEmpty")
        /\ UNCHANGED <<cv, spin, lock, timed, caller, status, base, removed>>

(* Enough were taken: give up the Link, unless the word has changed. *)
WakeStop(t) ==
    /\ pc[t] = "wakeStop"
    /\ \/ /\ cv = status[t]
          /\ cv' = Resting(cv.tail)
          /\ Goto(t, "release")
          /\ UNCHANGED status
       \/ /\ cv # status[t]
          /\ status' = [status EXCEPT ![t] = cv]
          /\ Goto(t, "waking")
          /\ UNCHANGED cv
    /\ UNCHANGED <<links, spin, lock, timed, caller, base, wake, removed>>

(* One block is left and wanted: empty the word, unless it has changed. *)
WakeEmpty(t) ==
    /\ pc[t] = "wakeEmpty"
    /\ \/ /\ cv = status[t]
          /\ cv' = Empty
          /\ wake' = [wake EXCEPT ![t] = Append(@, cv.tail)]
          /\ Goto(t, "release")
          /\ UNCHANGED status
       \/ /\ cv # status[t]
          /\ status' = [status EXCEPT ![t] = cv]
          /\ Goto(t, "waking")
          /\ UNCHANGED <<cv, wake>>
    /\ UNCHANGED <<links, spin, lock, timed, caller, base, removed>>

(* Clear the spin bit of the first block taken: if it was set, that has     *)
(* woken its thread; if not, the thread is at, or on its way to, the event. *)
Release(t) ==
    LET w == Head(wake[t])
    IN  /\ pc[t] = "release"
        /\ wake[t] # <<>>
        /\ spin' = [spin EXCEPT ![w] = FALSE]
        /\ IF spin[w] THEN wake' = [wake EXCEPT ![t] = Tail(@)] /\ UNCHANGED pc
                      ELSE Goto(t, "releasing") /\ UNCHANGED wake
        /\ UNCHANGED <<cv, links, lock, timed, caller, status, base, removed>>

ReleaseKeyedEvent(t) ==
    LET w == Head(wake[t])
    IN  /\ pc[t] = "releasing"
        /\ pc[w] \in {"blocked", "blockedAgain"}
        /\ pc' = [pc EXCEPT ![t] = "release", ![w] = "relock"]
        /\ wake' = [wake EXCEPT ![t] = Tail(@)]
        /\ UNCHANGED <<cv, links, spin, lock, timed, caller, status, base, removed>>

(* All are released: back to the caller. *)
AfterWake(t) == CASE caller[t] = "wake" -> "idle"
                  [] caller[t] = "optimize" -> "spin"
                  [] caller[t] = "single" -> IF removed[t] THEN "relock" ELSE "blockedAgain"

EndWake(t) ==
    /\ pc[t] = "release"
    /\ wake[t] = <<>>
    /\ Goto(t, AfterWake(t))
    /\ caller' = [caller EXCEPT ![t] = "none"]
    /\ status' = [status EXCEPT ![t] = Empty]
    /\ base' = [base EXCEPT ![t] = 0]
    /\ UNCHANGED <<cv, links, spin, lock, timed, wake, removed>>

-----------------------------------------------------------------------------
(* RtlWakeConditionVariable: ask the Link owner, or become it.              *)

MayCount(w) == w.count # Full

RtlWakeConditionVariable(t) ==
    /\ pc[t] = "idle"
    /\ "wake" \in Calls[t]
    /\ cv.tail # Nil
    /\ \/ /\ cv.link
          /\ MayCount(cv)
          /\ cv' = [cv EXCEPT !.count = @ + 1]
          /\ UNCHANGED <<pc, caller, work>>
       \/ /\ ~cv.link
          /\ cv' = [cv EXCEPT !.link = TRUE]
          /\ EnterWake(t, "wake", cv', 1)
    /\ UNCHANGED <<links, spin, lock, timed, removed>>

(* Fault: the request is not recorded. *)
RequestForgotten(w) == w

RequestAll(w) == [w EXCEPT !.count = Full]

RtlWakeAllConditionVariable(t) ==
    /\ pc[t] = "idle"
    /\ "wakeAll" \in Calls[t]
    /\ cv.tail # Nil
    /\ \/ /\ cv.link
          /\ cv.count # Full
          /\ cv' = RequestAll(cv)
          /\ UNCHANGED <<pc, caller, wake>>
       \/ /\ ~cv.link
          /\ cv' = Empty
          /\ wake' = [wake EXCEPT ![t] = Follow(back, cv.tail)]
          /\ caller' = [caller EXCEPT ![t] = "wake"]
          /\ Goto(t, "release")
    /\ UNCHANGED <<links, spin, lock, timed, status, base, removed>>

-----------------------------------------------------------------------------
(* RtlSleepConditionVariableCS and RtlSleepConditionVariableSRW, called     *)
(* with the lock held.                                                      *)

AcquireLock(t) ==
    /\ pc[t] = "idle"
    /\ Calls[t] \cap {"sleep", "timedSleep"} # {}
    /\ lock = Nil
    /\ lock' = t
    /\ Goto(t, "locked")
    /\ UNCHANGED <<cv, links, spin, timed, caller, work, removed>>

(* Fault: every block but the first starts the walk. *)
WalksAnyway(w) == w.tail # Nil

(* Whether a push onto w sets the Link. *)
TakesLink(w) == w.tail # Nil /\ ~w.link

(* Push the block.  A block that is not the first sets the Link, if nobody  *)
(* holds it, for the walk that tells it the oldest one.                     *)
Sleep(t) ==
    /\ pc[t] = "locked"
    /\ \E c \in Calls[t] \cap {"sleep", "timedSleep"} :
          timed' = [timed EXCEPT ![t] = c = "timedSleep"]
    /\ cv' = [cv EXCEPT !.tail = t, !.link = @ \/ cv.tail # Nil]
    /\ back' = [back EXCEPT ![t] = cv.tail]
    /\ notify' = [notify EXCEPT ![t] = IF cv.tail = Nil THEN t ELSE Nil]
    /\ next' = [next EXCEPT ![t] = Nil]
    /\ spin' = [spin EXCEPT ![t] = TRUE]
    /\ status' = [status EXCEPT ![t] = IF TakesLink(cv) THEN cv' ELSE Empty]
    /\ Goto(t, "unlock")
    /\ UNCHANGED <<lock, caller, base, wake, removed>>

Unlock(t) ==
    /\ pc[t] = "unlock"
    /\ lock' = Nil
    /\ Goto(t, IF status[t] = Empty THEN "spin" ELSE "optimize")
    /\ UNCHANGED <<cv, links, spin, timed, caller, work, removed>>

(* RtlpOptimizeConditionVariableWaitList *)
Optimize(t) ==
    LET tail == status[t].tail
    IN  /\ pc[t] = "optimize"
        /\ next' = Relinked(tail)
        /\ notify' = [notify EXCEPT ![tail] = Oldest(tail)]
        /\ Goto(t, "optimizeCas")
        /\ UNCHANGED <<cv, back, spin, lock, timed, caller, work, removed>>

(* Fault: requests that came in meanwhile are not looked at. *)
NeverAsked(w) == FALSE

MustServe(w) == w.count > 0

OptimizeDone(t) ==
    /\ pc[t] = "optimizeCas"
    /\ \/ /\ cv = status[t]
          /\ cv' = Resting(cv.tail)
          /\ status' = [status EXCEPT ![t] = Empty]
          /\ Goto(t, "spin")
          /\ UNCHANGED <<caller, base, wake>>
       \/ /\ cv # status[t]
          /\ MustServe(cv)
          /\ EnterWake(t, "optimize", cv, 0)
          /\ UNCHANGED cv
       \/ /\ cv # status[t]
          /\ ~MustServe(cv)
          /\ status' = [status EXCEPT ![t] = cv]
          /\ Goto(t, "optimize")
          /\ UNCHANGED <<cv, caller, base, wake>>
    /\ UNCHANGED <<links, spin, lock, timed, removed>>

(* The spin ends and the thread clears its bit: it blocks, unless a waker   *)
(* cleared the bit first.                                                   *)
Park(t) ==
    /\ pc[t] = "spin"
    /\ spin' = [spin EXCEPT ![t] = FALSE]
    /\ Goto(t, IF spin[t] THEN "blocked" ELSE "relock")
    /\ UNCHANGED <<cv, links, lock, timed, caller, work, removed>>

(* The wait times out, which wakers do not see. *)
TimeOut(t) ==
    /\ pc[t] = "blocked"
    /\ timed[t]
    /\ Goto(t, "timedOut")
    /\ UNCHANGED <<cv, links, spin, lock, timed, caller, work, removed>>

(* RtlpWakeSingle: take the Link to unlink the own block; if another thread *)
(* has it, have that thread wake everybody and wait again.                  *)
RtlpWakeSingle(t) ==
    /\ pc[t] = "timedOut"
    /\ \/ /\ cv.tail = Nil \/ cv.count = Full
          /\ Goto(t, "blockedAgain")
          /\ UNCHANGED <<cv, status>>
       \/ /\ cv.link
          /\ cv.count # Full
          /\ cv' = RequestAll(cv)
          /\ Goto(t, "blockedAgain")
          /\ UNCHANGED status
       \/ /\ cv.tail # Nil
          /\ ~cv.link
          /\ cv' = [cv EXCEPT !.link = TRUE]
          /\ status' = [status EXCEPT ![t] = cv']
          /\ Goto(t, "unlink")
    /\ UNCHANGED <<links, spin, lock, timed, caller, base, wake, removed>>

(* What the word becomes without its newest block.  New has the flags the   *)
(* word had when the Link was taken, also after a lost race.                *)
WithoutNewest(w) ==
    IF back[w.tail] = Nil THEN Empty
    ELSE [tail |-> back[w.tail], link |-> TRUE, count |-> 0]

UnlinkNewest(t) ==
    /\ pc[t] = "unlink"
    /\ status[t].tail = t
    /\ \/ /\ cv = status[t]
          /\ cv' = WithoutNewest(cv)
          /\ removed' = [removed EXCEPT ![t] = TRUE]
          /\ IF cv'.tail = Nil
               THEN /\ Goto(t, "relock")
                    /\ status' = [status EXCEPT ![t] = Empty]
               ELSE /\ status' = [status EXCEPT ![t] = cv']
                    /\ UNCHANGED pc
       \/ /\ cv # status[t]
          /\ status' = [status EXCEPT ![t] = cv]
          /\ UNCHANGED <<cv, pc, removed>>
    /\ UNCHANGED <<links, spin, lock, timed, caller, base, wake>>

(* Fault: a block that is no longer on the list counts as unlinked. *)
AlwaysFound(t, s) == TRUE

FoundOn(t, s) == \E i \in DOMAIN s : s[i] = t

(* The blocks s without t. *)
Without(s, t) ==
    LET Found == {k \in DOMAIN s : s[k] = t}
        m == CHOOSE k \in Found : TRUE
    IN  IF Found = {} THEN s
        ELSE [i \in 1..Len(s)-1 |-> IF i < m THEN s[i] ELSE s[i+1]]

(* Walk the whole list, take the own block out where it is found, renew all *)
(* links, and go on to serve the requests in the word.                      *)
UnlinkOlder(t) ==
    LET tail == status[t].tail
        s == Without(Follow(back, tail), t)
        Newer(q) == {j \in 1..Len(s)-1 : s[j+1] = q}
        Older(q) == {j \in 2..Len(s) : s[j-1] = q}
    IN  /\ pc[t] = "unlink"
        /\ tail # t
        /\ removed' = [removed EXCEPT ![t] = @ \/ FoundOn(t, Follow(back, tail))]
        /\ next' = [q \in Threads |->
                      IF ~FoundOn(q, s) THEN next[q]
                      ELSE IF Newer(q) = {} THEN Nil ELSE s[CHOOSE j \in Newer(q) : TRUE]]
        /\ back' = [q \in Threads |->
                      IF ~FoundOn(q, s) THEN back[q]
                      ELSE IF Older(q) = {} THEN Nil ELSE s[CHOOSE j \in Older(q) : TRUE]]
        /\ notify' = [notify EXCEPT ![tail] = s[Len(s)]]
        /\ EnterWake(t, "single", status[t], 0)
        /\ UNCHANGED <<cv, spin, lock, timed>>

(* The call returns with the lock: STATUS_TIMEOUT if it unlinked itself.    *)
(* Its block is gone.                                                       *)
Relock(t) ==
    /\ pc[t] = "relock"
    /\ lock = Nil
    /\ lock' = t
    /\ back' = [back EXCEPT ![t] = Nil]
    /\ notify' = [notify EXCEPT ![t] = Nil]
    /\ next' = [next EXCEPT ![t] = Nil]
    /\ timed' = [timed EXCEPT ![t] = FALSE]
    /\ removed' = [removed EXCEPT ![t] = FALSE]
    /\ Goto(t, "locked")
    /\ UNCHANGED <<cv, spin, caller, work>>

ReleaseLock(t) ==
    /\ pc[t] = "locked"
    /\ lock' = Nil
    /\ Goto(t, "idle")
    /\ UNCHANGED <<cv, links, spin, timed, caller, work, removed>>

-----------------------------------------------------------------------------

Step(t) == \/ TakeAll(t) \/ TakeOldest(t) \/ WakeStop(t) \/ WakeEmpty(t)
           \/ Release(t) \/ ReleaseKeyedEvent(t) \/ EndWake(t)
           \/ Unlock(t) \/ Optimize(t) \/ OptimizeDone(t) \/ Park(t)
           \/ RtlpWakeSingle(t) \/ UnlinkNewest(t) \/ UnlinkOlder(t)
           \/ ReleaseLock(t)

Call(t) == RtlWakeConditionVariable(t) \/ RtlWakeAllConditionVariable(t)

Next == \E t \in Threads : \/ Step(t) \/ Call(t) \/ TimeOut(t)
                           \/ AcquireLock(t) \/ Sleep(t) \/ Relock(t)

Spec == Init /\ [][Next]_vars

-----------------------------------------------------------------------------

Labels == {"idle", "locked", "unlock", "optimize", "optimizeCas", "spin", "blocked",
           "timedOut", "unlink", "blockedAgain", "relock", "waking", "wakeStop",
           "wakeEmpty", "release", "releasing"}

(* Every variable has its type; the requests never overflow into the Link. *)
TypeOK == /\ cv \in Word
          /\ back \in [Threads -> Threads \cup {Nil}]
          /\ notify \in [Threads -> Threads \cup {Nil}]
          /\ next \in [Threads -> Threads \cup {Nil}]
          /\ spin \in [Threads -> BOOLEAN]
          /\ lock \in Threads \cup {Nil}
          /\ pc \in [Threads -> Labels]
          /\ timed \in [Threads -> BOOLEAN]
          /\ caller \in [Threads -> {"none", "wake", "optimize", "single"}]
          /\ status \in [Threads -> Word]
          /\ base \in [Threads -> {0, 1}]
          /\ wake \in [Threads -> Seq(Threads)]
          /\ removed \in [Threads -> BOOLEAN]

LinkOwners == {t \in Threads : \/ pc[t] \in {"waking", "wakeStop", "wakeEmpty",
                                              "optimize", "optimizeCas", "unlink"}
                               \/ pc[t] = "unlock" /\ status[t] # Empty}

(* Link is set exactly while one thread works on the list, be it a waker, a *)
(* sleeper that has just pushed its block or one that timed out: the links  *)
(* have one writer, and Link never stays set with nobody to serve requests. *)
LinkHasOneOwner == IF cv.link THEN \E t \in Threads : LinkOwners = {t}
                              ELSE LinkOwners = {}

Taken == {w \in Threads : \E t \in Threads : \E i \in DOMAIN wake[t] : wake[t][i] = w}

(* Sleepers that have not been chosen by a waker and have not given up. *)
BeforePark(t) == \/ pc[t] \in {"unlock", "optimize", "optimizeCas", "spin"}
                 \/ caller[t] = "optimize"
AfterPark(t) == \/ pc[t] \in {"blocked", "timedOut", "unlink", "blockedAgain"}
                \/ caller[t] = "single"
Pending(t) == (BeforePark(t) /\ spin[t]) \/ (AfterPark(t) /\ ~removed[t])

Sleepers == {t \in Threads : /\ t \notin Taken
                             /\ Pending(t)}

(* The list is exactly the sleepers nobody has chosen yet, each once, it    *)
(* ends, and unless a thread is unlinking itself the walk of the next Link  *)
(* owner ends at the oldest of them: no block of a call that has returned   *)
(* is on it.  The requests beside it never overflow into the Link (TypeOK). *)
ListOfSleepers ==
    LET s == Follow(back, cv.tail)
    IN  /\ TypeOK
        /\ {s[i] : i \in DOMAIN s} = Sleepers
        /\ \A i, j \in DOMAIN s : s[i] = s[j] => i = j
        /\ s # <<>> => /\ back[s[Len(s)]] = Nil
                       /\ (\A t \in Threads : pc[t] # "unlink") => Oldest(cv.tail) = s[Len(s)]

(* A thread a waker has taken off the list stays in its call until the      *)
(* waker releases it, also if its time-out has fired in between; no thread  *)
(* is taken twice, and none waits for itself on the keyed event.            *)
ReleaseMeetsSleeper ==
    /\ \A w \in Taken : Pending(w)
    /\ \A t, u \in Threads : t # u =>
          \A i \in DOMAIN wake[t], j \in DOMAIN wake[u] : wake[t][i] # wake[u][j]
    /\ \A t \in Threads : pc[t] = "releasing" => AfterPark(Head(wake[t])) /\ Head(wake[t]) # t

(* A thread whose time is up waits again only for a wake-up that is on its  *)
(* way: a waker has taken it, or the Link owner is bound to wake everybody. *)
SecondWaitIsAnswered ==
    \A t \in Sleepers : pc[t] = "blockedAgain" => cv.link /\ cv.count = Full

(* Requests to wake that RtlWakeConditionVariable counted in the word while *)
(* another thread owned Link are never wiped out with sleepers left behind, *)
(* unless by a thread that has taken that many off the list, or by one that *)
(* unlinks itself after a time-out.                                         *)
RequestsKept ==
    [][cv'.count < cv.count /\ cv'.tail # Nil =>
         \E t \in Threads : \/ pc[t] = "unlink"
                            \/ caller[t] # "none" /\ Len(wake[t]) >= base[t] + cv.count]_vars
=============================================================================
