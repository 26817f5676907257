--------------------------- MODULE RunOnceProofs ---------------------------
(***************************************************************************)
(* Theorems about RunOnce, for any set of callers and of contexts.         *)
(***************************************************************************)
EXTENDS RunOnce, TLAPS

(* The words the code writes are words, and what a word holds follows its   *)
(* two low bits.                                                            *)
LEMMA FreshWord == Fresh \in Word /\ Fresh.state = "first"
BY DEF Fresh, Word

(* A published result is not the word of a fresh run-once. *)
LEMMA DoneWord ==
  ASSUME NEW c \in Contexts \cup {Nil}
  PROVE  Done(c) \in Word /\ Done(c).state = "done" /\ Done(c).ptr = c /\ Done(c) # Fresh
BY DEF Done, Word, Fresh

(* What a caller that finds the word fresh makes of it: busy or pending. *)
LEMMA ClaimedWord ==
  ASSUME NEW t \in Threads
  PROVE  /\ Claimed(t) \in Word
         /\ Claimed(t).state = IF IsAsync(t) THEN "async" ELSE "busy"
<1>1. CASE IsAsync(t)
  <2>1. Claimed(t) = [state |-> "async", ptr |-> Nil]  BY <1>1 DEF Claimed
  <2> QED  BY <1>1, <2>1 DEF Word
<1>2. CASE ~IsAsync(t)
  <2>1. Claimed(t) = [state |-> "busy", ptr |-> Nil]  BY <1>2 DEF Claimed
  <2> QED  BY <1>2, <2>1 DEF Word, Slot
<1> QED  BY <1>1, <1>2

(* A caller that joins leaves the word busy, with its own slot in front. *)
LEMMA ListedWord ==
  ASSUME NEW p \in Slot PROVE Listed(p) \in Word /\ Listed(p).state = "busy"
BY DEF Listed, Word, Slot

(* A word is told by its state: fresh and done have one form each. *)
LEMMA WordCases ==
  ASSUME NEW w \in Word
  PROVE  /\ w.state \in {"first", "busy", "done", "async"}
         /\ w.state = "busy" => w.ptr \in Slot
         /\ w.state = "done" => w.ptr \in Contexts \cup {Nil} /\ w = Done(w.ptr)
BY DEF Word, Done

(* What a return leaves well typed. *)
LEMMA ReturnType ==
  ASSUME TypeOK, NEW t \in Threads, NEW l \in Labels, NEW s \in Statuses,
         NEW c \in Contexts \cup {Nil}, Return(t, l, s, c)
  PROVE  /\ pc' \in [Threads -> Labels]
         /\ result' \in [Threads -> Statuses]
         /\ context' \in [Threads -> Contexts \cup {Nil}]
         /\ val' \in [Threads -> Word]
         /\ store' \in [Threads -> Word]
         /\ flags' \in [Threads -> CompleteFlags]
<1>1. {} \in CompleteFlags  BY DEF CompleteFlags
<1> QED  BY FreshWord, <1>1 DEF Return, Goto, Hand, DropLocals, TypeOK

(* What a thread that is completing is about to store. *)
StoreIsResult ==
    \A t \in Threads : pc[t] \in {"complete", "finish", "release"}
        => /\ store[t] = Fresh \/ \E c \in Contexts \cup {Nil} : store[t] = Done(c)
           /\ "Async" \in flags[t] => store[t] # Fresh

(* An asynchronous initialiser never meets a word that is free or busy. *)
AsyncInitialiser ==
    \A t \in Threads : Initialising(t) /\ IsAsync(t) => once.state \in {"async", "done"}

(* A thread that saw the word done still sees it so, one that saw it async  *)
(* sees it async or done, and one that has published a result and is        *)
(* releasing waiters still finds it there.                                  *)
DoneIsKnown ==
    \A t \in Threads :
        /\ pc[t] = "decide" /\ val[t].state = "done" => once = val[t]
        /\ pc[t] = "decide" /\ val[t].state = "async" => once.state \in {"async", "done"}
        /\ pc[t] = "release" /\ store[t] # Fresh => once = store[t]

OnceInv == /\ TypeOK /\ OneInitialiser /\ SameContextForAll
           /\ StoreIsResult /\ AsyncInitialiser /\ DoneIsKnown

(* Every step of a thread keeps the types. *)
LEMMA TypeStep ==
  ASSUME TypeOK, StoreIsResult, NEW t \in Threads,
         Begin(t) \/ Work(t) \/ Complete(t) \/ CompleteRejected(t)
  PROVE  TypeOK'
<1> DEFINE Ctx == Contexts \cup {Nil}
<1>0. /\ Nil \in Slot /\ t \in Slot /\ Nil \in Ctx
      /\ {"idle", "begin", "decide", "blocked", "pending", "complete", "finish",
          "release"} \subseteq Labels
      /\ {"none", "PENDING", "SUCCESS", "COMPLETED", "UNSUCCESSFUL",
          "INVALID_PARAMETER"} \subseteq Statuses
  BY DEF Slot, Labels, Statuses
<1>a. /\ CompleteStatus(t) \in Statuses
      /\ AfterRejected(t) \in Labels
  BY DEF CompleteStatus, Statuses, AfterRejected, Labels
<1>b. ASSUME pc[t] \in {"complete", "finish", "release"}
      PROVE  store[t] \in Word /\ CompleteContext(t) \in Ctx
  <2>1. CASE store[t] = Fresh
    BY <2>1, FreshWord, <1>0 DEF CompleteContext, Fresh
  <2>2. CASE \E c \in Ctx : store[t] = Done(c)
    BY <2>2, DoneWord, <1>0 DEF CompleteContext
  <2> QED  BY <1>b, <2>1, <2>2 DEF StoreIsResult
<1>1. CASE CheckOnly(t)
  <2>0. UNCHANGED <<once, next, call, failures>>  BY <1>1 DEF CheckOnly
  <2>1. \E s \in Statuses, c \in Ctx : Return(t, "idle", s, c)
    <3>1. CASE once.state = "done"
      BY <1>0, <1>1, <3>1, WordCases DEF CheckOnly, TypeOK
    <3> QED  BY <1>0, <1>1, <3>1 DEF CheckOnly
  <2> QED  BY <2>0, <2>1, <1>0, ReturnType DEF TypeOK
<1>2. CASE BeginInitialize(t)
  <2>1. UNCHANGED <<once, next, failures>> /\ Return(t, "begin", "none", Nil)
    BY <1>2 DEF BeginInitialize
  <2>2. call' \in [Threads -> {"sync", "async", "execute"}]
    BY <1>2 DEF BeginInitialize, TypeOK
  <2> QED  BY <2>1, <2>2, <1>0, ReturnType DEF TypeOK
<1>3. CASE ReadOnce(t)
  BY <1>0, <1>3 DEF ReadOnce, Goto, TypeOK
<1>4. CASE FirstTime(t)
  <2>1. CASE Return(t, "pending", "PENDING", Nil) /\ once' = Claimed(t)
    BY <1>4, <2>1, <1>0, ReturnType, ClaimedWord DEF TypeOK, FirstTime
  <2>2. CASE Goto(t, "begin") /\ UNCHANGED <<once, flags, val, store, result, context>>
    BY <1>4, <2>2, <1>0 DEF TypeOK, FirstTime, Goto
  <2> QED  BY <1>4, <2>1, <2>2 DEF FirstTime
<1>5. CASE Join(t)
  <2>1. CASE once' = Listed(t) /\ next' = [next EXCEPT ![t] = val[t].ptr] /\ Goto(t, "blocked")
    <3>1. val[t].ptr \in Slot  BY <1>5, WordCases DEF Join, TypeOK
    <3> QED  BY <1>5, <2>1, <3>1, <1>0, ListedWord DEF TypeOK, Join, Goto
  <2>2. CASE Goto(t, "begin") /\ UNCHANGED <<once, next>>
    BY <1>5, <2>2, <1>0 DEF TypeOK, Join, Goto
  <2> QED  BY <1>5, <2>1, <2>2 DEF Join
<1>6. CASE BeginReturns(t)
  <2>0. UNCHANGED <<once, next, call, failures>>  BY <1>6 DEF BeginReturns
  <2>1. \E l \in Labels, s \in Statuses, c \in Ctx : Return(t, l, s, c)
    <3>1. CASE val[t].state = "done" /\ Return(t, "idle", "SUCCESS", val[t].ptr)
      BY <1>0, <3>1, WordCases DEF TypeOK
    <3> QED  BY <1>0, <1>6, <3>1 DEF BeginReturns
  <2> QED  BY <2>0, <2>1, ReturnType DEF TypeOK
<1>7. CASE Complete(t)
  <2>1. PICK a \in CompleteArguments(t) : CompleteWith(t, a[1], a[2])
    BY <1>7 DEF Complete
  <2>2. a[1] \in CompleteFlags /\ a[2] \in Ctx
    BY DEF CompleteArguments, CompleteFlags
  <2>3. Stored(a[1], a[2]) \in Word
    BY <2>2, FreshWord, DoneWord DEF Stored
  <2>4. failures' \in 0..MaxFailures
    BY <2>1, MaxFailuresAssumption DEF CompleteWith, TypeOK
  <2> QED  BY <2>1, <2>2, <2>3, <2>4, <1>0 DEF CompleteWith, TypeOK, Goto
<1>8. CASE CompleteRejected(t)
  BY <1>0, <1>8, <1>a, ReturnType DEF CompleteRejected, TypeOK
<1>9. CASE ReadToComplete(t)
  BY <1>0, <1>9 DEF ReadToComplete, Goto, TypeOK
<1>10. CASE FinishBusy(t)
  <2>0. UNCHANGED <<next, call, failures>> /\ pc[t] = "finish"  BY <1>10 DEF FinishBusy
  <2>1. CASE once' = store[t] /\ Return(t, "idle", CompleteStatus(t), CompleteContext(t))
    BY <2>0, <2>1, <1>0, <1>a, <1>b, ReturnType DEF TypeOK
  <2>2. CASE /\ once' \in {store[t], once}
             /\ \E l \in {"release", "complete"} : Goto(t, l)
             /\ UNCHANGED <<flags, val, store, result, context>>
    BY <2>0, <2>2, <1>0, <1>b DEF TypeOK, Goto
  <2> QED  BY <1>10, <2>1, <2>2 DEF FinishBusy
<1>11. CASE ReleaseWaiter(t)
  <2> DEFINE w == val[t].ptr
  <2>0. /\ UNCHANGED <<once, call, failures>> /\ pc[t] = "release" /\ w \in Threads
        /\ next' = [next EXCEPT ![w] = Nil]
    BY <1>11 DEF ReleaseWaiter
  <2>1. next' \in [Threads -> Slot] /\ next[w] \in Slot  BY <2>0, <1>0 DEF TypeOK
  <2>2. pc' \in [Threads -> Labels]
    BY <1>11, <1>0 DEF ReleaseWaiter, TypeOK
  <2>3. CASE Hand(t, CompleteStatus(t), CompleteContext(t)) /\ DropLocals(t)
    <3>1. {} \in CompleteFlags  BY DEF CompleteFlags
    <3> QED  BY <2>0, <2>1, <2>2, <2>3, <3>1, <1>a, <1>b, FreshWord DEF TypeOK, Hand, DropLocals
  <2>4. CASE val' = [val EXCEPT ![t] = Listed(next[w])] /\ UNCHANGED <<flags, store, result, context>>
    <3>1. val' \in [Threads -> Word]  BY <2>4, <2>1, ListedWord DEF TypeOK
    <3> QED  BY <2>0, <2>1, <2>2, <2>4, <3>1 DEF TypeOK
  <2> QED  BY <1>11, <2>3, <2>4 DEF ReleaseWaiter
<1>12. CASE FinishAsync(t)
  <2>0. UNCHANGED <<next, call, failures>> /\ pc[t] = "finish"  BY <1>12 DEF FinishAsync
  <2>1. CASE Return(t, AfterRejected(t), "INVALID_PARAMETER", Nil) /\ UNCHANGED once
    BY <2>0, <2>1, <1>0, <1>a, ReturnType DEF TypeOK
  <2>2. CASE once' = store[t] /\ Return(t, "idle", CompleteStatus(t), Nil)
    BY <2>0, <2>2, <1>0, <1>a, <1>b, ReturnType DEF TypeOK
  <2>3. CASE Goto(t, "complete") /\ UNCHANGED <<once, flags, val, store, result, context>>
    BY <2>0, <2>3, <1>0 DEF TypeOK, Goto
  <2> QED  BY <1>12, <2>1, <2>2, <2>3 DEF FinishAsync
<1>13. CASE FinishTooLate(t)
  BY <1>0, <1>13, ReturnType DEF FinishTooLate, TypeOK
<1> QED
  BY <1>1, <1>2, <1>3, <1>4, <1>5, <1>6, <1>7, <1>8, <1>9, <1>10, <1>11, <1>12, <1>13 DEF Begin, Work

(* What the step of one thread leaves alone in the others. *)
OthersKept(t) ==
    \A u \in Threads \ {t} :
        /\ pc'[u] = pc[u] \/ (pc[u] = "blocked" /\ pc'[u] = "begin")
        /\ call'[u] = call[u] /\ flags'[u] = flags[u]
        /\ val'[u] = val[u] /\ store'[u] = store[u]
        /\ result'[u] = result[u] /\ context'[u] = context[u]

(* A thread's step may only release another that is blocked. *)
LEMMA OthersAreKept ==
  ASSUME TypeOK, NEW t \in Threads,
         Begin(t) \/ Work(t) \/ Complete(t) \/ CompleteRejected(t)
  PROVE  OthersKept(t)
<1> USE DEF OthersKept, TypeOK, Goto
<1>1. CASE CheckOnly(t)  BY <1>1 DEF CheckOnly, Return, Hand, DropLocals
<1>2. CASE BeginInitialize(t)  BY <1>2 DEF BeginInitialize, Return, Hand, DropLocals
<1>3. CASE ReadOnce(t)  BY <1>3 DEF ReadOnce
<1>4. CASE FirstTime(t)  BY <1>4 DEF FirstTime, Return, Hand, DropLocals
<1>5. CASE Join(t)  BY <1>5 DEF Join
<1>6. CASE BeginReturns(t)  BY <1>6 DEF BeginReturns, Return, Hand, DropLocals
<1>7. CASE Complete(t)  BY <1>7 DEF Complete, CompleteWith
<1>8. CASE CompleteRejected(t)  BY <1>8 DEF CompleteRejected, Return, Hand, DropLocals
<1>9. CASE ReadToComplete(t)  BY <1>9 DEF ReadToComplete
<1>10. CASE FinishBusy(t)  BY <1>10 DEF FinishBusy, Return, Hand, DropLocals
<1>11. CASE ReleaseWaiter(t)  BY <1>11 DEF ReleaseWaiter, Hand, DropLocals
<1>12. CASE FinishAsync(t)  BY <1>12 DEF FinishAsync, Return, Hand, DropLocals
<1>13. CASE FinishTooLate(t)  BY <1>13 DEF FinishTooLate, Return, Hand, DropLocals
<1> QED
  BY <1>1, <1>2, <1>3, <1>4, <1>5, <1>6, <1>7, <1>8, <1>9, <1>10, <1>11, <1>12, <1>13 DEF Begin, Work

(* Where a return leaves its thread. *)
LEMMA ReturnPlace ==
  ASSUME TypeOK, NEW t \in Threads, NEW l, NEW s, NEW c, Return(t, l, s, c)
  PROVE  pc'[t] = l /\ result'[t] = s /\ context'[t] = c
BY DEF Return, Goto, Hand, TypeOK

(* A thread that goes on initialising was told to, in the same way; a word  *)
(* that stays as it is keeps the invariant then.                            *)
LEMMA WordKept ==
  ASSUME OnceInv, NEW t \in Threads, OthersKept(t), once' = once,
         pc'[t] \in {"pending", "complete", "finish"}
            => /\ call'[t] = call[t]
               /\ \/ pc[t] \in {"pending", "complete", "finish"}
                  \/ call[t] = "async" /\ once.state \in {"async", "done"},
         pc'[t] \in {"complete", "finish", "release"}
            => /\ store'[t] = Fresh \/ \E c \in Contexts \cup {Nil} : store'[t] = Done(c)
               /\ "Async" \in flags'[t] => store'[t] # Fresh,
         pc'[t] = "decide" => val'[t] = once,
         pc'[t] = "release" => pc[t] = "release" /\ store'[t] = store[t],
         result'[t] = "SUCCESS" => once = Done(context'[t])
  PROVE  /\ OneInitialiser' /\ SameContextForAll' /\ StoreIsResult'
         /\ AsyncInitialiser' /\ DoneIsKnown'
<1> USE DEF OnceInv, OthersKept
<1>1. OneInitialiser'  BY DEF OneInitialiser, Initialising, IsAsync
<1>2. SameContextForAll'  BY DEF SameContextForAll
<1>3. StoreIsResult'  BY DEF StoreIsResult
<1>4. AsyncInitialiser'  BY DEF AsyncInitialiser, Initialising, IsAsync
<1>5. DoneIsKnown'  BY DEF DoneIsKnown
<1> QED  BY <1>1, <1>2, <1>3, <1>4, <1>5

(* Every step of a thread keeps the inductive invariant. *)
LEMMA OnceStep ==
  ASSUME OnceInv, NEW t \in Threads,
         Begin(t) \/ Work(t) \/ Complete(t) \/ CompleteRejected(t)
  PROVE  /\ OneInitialiser' /\ SameContextForAll' /\ StoreIsResult'
         /\ AsyncInitialiser' /\ DoneIsKnown'
<1> DEFINE Ctx == Contexts \cup {Nil}
           Goal == /\ OneInitialiser' /\ SameContextForAll' /\ StoreIsResult'
                   /\ AsyncInitialiser' /\ DoneIsKnown'
<1>0. TypeOK /\ OthersKept(t)
  BY OthersAreKept DEF OnceInv
<1>w. once \in Word /\ val[t] \in Word
  BY <1>0 DEF TypeOK
<1>1. CASE CheckOnly(t)
  <2>0. once' = once  BY <1>1 DEF CheckOnly
  <2>1. pc'[t] = "idle" /\ (result'[t] = "SUCCESS" => once = Done(context'[t]))
    <3>1. CASE Return(t, "idle", "INVALID_PARAMETER", Nil) \/ Return(t, "idle", "UNSUCCESSFUL", Nil)
      BY <1>0, <3>1, ReturnPlace
    <3>2. CASE once.state = "done" /\ Return(t, "idle", "SUCCESS", once.ptr)
      BY <1>0, <1>w, <3>2, ReturnPlace, WordCases
    <3> QED  BY <1>1, <3>1, <3>2 DEF CheckOnly
  <2> QED  BY <1>0, <2>0, <2>1, WordKept
<1>2. CASE BeginInitialize(t)
  <2>0. once' = once /\ Return(t, "begin", "none", Nil)  BY <1>2 DEF BeginInitialize
  <2>1. pc'[t] = "begin" /\ result'[t] = "none"  BY <1>0, <2>0, ReturnPlace
  <2> QED  BY <1>0, <2>0, <2>1, WordKept
<1>3. CASE ReadOnce(t)
  <2>1. /\ once' = once /\ val'[t] = once /\ pc'[t] = "decide"
        /\ result'[t] = result[t] /\ context'[t] = context[t]
    BY <1>0, <1>3 DEF ReadOnce, Goto, TypeOK
  <2>2. result'[t] = "SUCCESS" => once = Done(context'[t])
    BY <2>1 DEF OnceInv, SameContextForAll
  <2> QED  BY <1>0, <2>1, <2>2, WordKept
<1>4. CASE FirstTime(t)
  <2>1. CASE once = Fresh /\ once' = Claimed(t) /\ Return(t, "pending", "PENDING", Nil)
    <3>1. pc'[t] = "pending" /\ result'[t] = "PENDING"  BY <1>0, <2>1, ReturnPlace
    <3>2. once.state = "first" /\ call' = call
      BY <1>4, <2>1, FreshWord DEF FirstTime
    <3>3. once'.state = IF IsAsync(t) THEN "async" ELSE "busy"  BY <2>1, ClaimedWord
    <3>4. \A u \in Threads : ~Initialising(u)
      BY <3>2 DEF OnceInv, OneInitialiser, AsyncInitialiser
    <3>5. \A u \in Threads : Initialising(u)' => u = t
      BY <3>4, <1>0 DEF OthersKept, Initialising
    <3>6. OneInitialiser'  BY <3>2, <3>3, <3>5 DEF OneInitialiser, IsAsync
    <3>7. AsyncInitialiser'  BY <3>2, <3>3, <3>5 DEF AsyncInitialiser, IsAsync
    <3>8. \A u \in Threads : result[u] # "SUCCESS"
      BY <3>2, <1>0, DoneWord DEF OnceInv, SameContextForAll, TypeOK
    <3>9. SameContextForAll'  BY <3>1, <3>8, <1>0 DEF SameContextForAll, OthersKept
    <3>10. StoreIsResult'
      BY <3>1, <1>0 DEF OnceInv, StoreIsResult, OthersKept
    <3>11. \A u \in Threads : pc[u] = "decide" => val[u].state \notin {"done", "async"}
      BY <3>2 DEF OnceInv, DoneIsKnown
    <3>12. \A u \in Threads : pc[u] = "release" => store[u] = Fresh
      BY <2>1 DEF OnceInv, DoneIsKnown
    <3>13. DoneIsKnown'
      BY <3>1, <3>11, <3>12, <1>0 DEF DoneIsKnown, OthersKept
    <3> QED  BY <3>6, <3>7, <3>9, <3>10, <3>13
  <2>2. CASE Goto(t, "begin") /\ UNCHANGED <<once, flags, val, store, result, context>>
    <3>1. once' = once /\ pc'[t] = "begin"  BY <1>0, <2>2 DEF Goto, TypeOK
    <3>2. result'[t] = "SUCCESS" => once = Done(context'[t])
      BY <2>2 DEF OnceInv, SameContextForAll
    <3> QED  BY <1>0, <3>1, <3>2, WordKept
  <2> QED  BY <1>4, <2>1, <2>2 DEF FirstTime
<1>5. CASE Join(t)
  <2>0. /\ UNCHANGED <<call, flags, val, store, result, context>>
        /\ val[t].state = "busy"
    BY <1>5 DEF Join
  <2>1. CASE once = val[t] /\ once' = Listed(t) /\ Goto(t, "blocked")
    <3>1. pc'[t] = "blocked"  BY <1>0, <2>1 DEF Goto, TypeOK
    <3>2. once.state = "busy" /\ once'.state = "busy"
      BY <2>0, <2>1, ListedWord DEF Slot
    <3>3. \A u \in Threads : Initialising(u)' => Initialising(u)
      BY <3>1, <1>0 DEF OthersKept, Initialising
    <3>4. OneInitialiser'  BY <2>0, <3>2, <3>3 DEF OnceInv, OneInitialiser, IsAsync
    <3>5. AsyncInitialiser'  BY <2>0, <3>2, <3>3 DEF OnceInv, AsyncInitialiser, IsAsync
    <3>6. \A u \in Threads : result[u] # "SUCCESS"
      BY <3>2, <1>0, DoneWord DEF OnceInv, SameContextForAll, TypeOK
    <3>7. SameContextForAll'  BY <2>0, <3>6 DEF SameContextForAll
    <3>8. StoreIsResult'  BY <2>0, <3>1, <1>0 DEF OnceInv, StoreIsResult, OthersKept
    <3>9. \A u \in Threads : pc[u] = "decide" => val[u].state \notin {"done", "async"}
      BY <3>2 DEF OnceInv, DoneIsKnown
    <3>10. \A u \in Threads : pc[u] = "release" => store[u] = Fresh
      BY <3>2, DoneWord DEF OnceInv, DoneIsKnown, StoreIsResult
    <3>11. DoneIsKnown'
      BY <2>0, <3>1, <3>9, <3>10, <1>0 DEF DoneIsKnown, OthersKept
    <3> QED  BY <3>4, <3>5, <3>7, <3>8, <3>11
  <2>2. CASE Goto(t, "begin") /\ UNCHANGED <<once, next>>
    <3>1. once' = once /\ pc'[t] = "begin"  BY <1>0, <2>2 DEF Goto, TypeOK
    <3>2. result'[t] = "SUCCESS" => once = Done(context'[t])
      BY <2>0 DEF OnceInv, SameContextForAll
    <3> QED  BY <1>0, <3>1, <3>2, WordKept
  <2> QED  BY <1>5, <2>1, <2>2 DEF Join
<1>6. CASE BeginReturns(t)
  <2>0. once' = once /\ call' = call /\ pc[t] = "decide"  BY <1>6 DEF BeginReturns
  <2>1. CASE val[t].state = "done" /\ Return(t, "idle", "SUCCESS", val[t].ptr)
    <3>1. pc'[t] = "idle" /\ context'[t] = val[t].ptr  BY <1>0, <2>1, ReturnPlace
    <3>2. once = Done(val[t].ptr)
      BY <1>w, <2>0, <2>1, WordCases DEF OnceInv, DoneIsKnown
    <3> QED  BY <1>0, <2>0, <3>1, <3>2, WordKept
  <2>2. CASE val[t].state = "async" /\ IsAsync(t) /\ Return(t, "pending", "PENDING", Nil)
    <3>1. pc'[t] = "pending" /\ result'[t] = "PENDING"  BY <1>0, <2>2, ReturnPlace
    <3>2. once.state \in {"async", "done"}  BY <2>0, <2>2 DEF OnceInv, DoneIsKnown
    <3> QED  BY <1>0, <2>0, <2>2, <3>1, <3>2, WordKept DEF IsAsync
  <2>3. CASE Return(t, "idle", "INVALID_PARAMETER", Nil)
    <3>1. pc'[t] = "idle" /\ result'[t] = "INVALID_PARAMETER"  BY <1>0, <2>3, ReturnPlace
    <3> QED  BY <1>0, <2>0, <3>1, WordKept
  <2> QED  BY <1>6, <2>1, <2>2, <2>3 DEF BeginReturns
<1>7. CASE Complete(t)
  <2>1. PICK a \in CompleteArguments(t) : CompleteWith(t, a[1], a[2])
    BY <1>7 DEF Complete
  <2>2. a[1] \in CompleteFlags /\ a[2] \in Ctx
    BY DEF CompleteArguments, CompleteFlags
  <2>3. /\ once' = once /\ pc'[t] = "complete" /\ call'[t] = call[t] /\ pc[t] = "pending"
        /\ flags'[t] = a[1] /\ store'[t] = Stored(a[1], a[2])
        /\ result'[t] = result[t] /\ context'[t] = context[t]
        /\ "InitFailed" \in a[1] => "Async" \notin a[1]
    BY <1>0, <2>1 DEF CompleteWith, CompleteRejects, Goto, TypeOK
  <2>4. result'[t] = "SUCCESS" => once = Done(context'[t])
    BY <2>3 DEF OnceInv, SameContextForAll
  <2>5. /\ store'[t] = Fresh \/ \E c \in Ctx : store'[t] = Done(c)
        /\ "Async" \in flags'[t] => store'[t] # Fresh
    BY <2>2, <2>3, DoneWord DEF Stored
  <2> QED  BY <1>0, <2>3, <2>4, <2>5, WordKept
<1>8. CASE CompleteRejected(t)
  <2>1. /\ once' = once /\ call' = call /\ pc[t] = "pending"
        /\ Return(t, AfterRejected(t), "INVALID_PARAMETER", Nil)
    BY <1>8 DEF CompleteRejected
  <2>2. pc'[t] \in {"idle", "pending"} /\ result'[t] = "INVALID_PARAMETER"
    BY <1>0, <2>1, ReturnPlace DEF AfterRejected
  <2> QED  BY <1>0, <2>1, <2>2, WordKept
<1>9. CASE ReadToComplete(t)
  <2>1. /\ once' = once /\ call' = call /\ pc[t] = "complete" /\ pc'[t] = "finish"
        /\ store' = store /\ flags' = flags /\ result' = result /\ context' = context
    BY <1>0, <1>9 DEF ReadToComplete, Goto, TypeOK
  <2>2. result'[t] = "SUCCESS" => once = Done(context'[t])
    BY <2>1 DEF OnceInv, SameContextForAll
  <2>3. /\ store'[t] = Fresh \/ \E c \in Ctx : store'[t] = Done(c)
        /\ "Async" \in flags'[t] => store'[t] # Fresh
    BY <2>1 DEF OnceInv, StoreIsResult
  <2> QED  BY <1>0, <2>1, <2>2, <2>3, WordKept
<1>p. ASSUME once.state \in {"busy", "async"}, once' = store[t], call' = call,
             pc[t] = "finish", pc'[t] \in {"idle", "release"},
             pc'[t] = "release" => store'[t] = store[t] /\ flags'[t] = flags[t],
             once.state = "async" => "Async" \in flags[t],
             result'[t] = "SUCCESS" => store[t] = Done(context'[t])
      PROVE  Goal
  <2>1. /\ store[t] = Fresh \/ \E c \in Ctx : store[t] = Done(c)
        /\ "Async" \in flags[t] => store[t] # Fresh
    BY <1>p DEF OnceInv, StoreIsResult
  <2>2. Initialising(t)  BY <1>p DEF Initialising
  <2>3. \A u \in Threads : Initialising(u)' => u # t /\ Initialising(u) /\ call'[u] = call[u]
    BY <1>0, <1>p DEF OthersKept, Initialising
  <2>6. OneInitialiser' /\ AsyncInitialiser'
    <3>1. CASE once.state = "busy"
      <4>1. ~IsAsync(t)  BY <2>2, <3>1 DEF OnceInv, AsyncInitialiser
      <4>2. \A u \in Threads : Initialising(u) => u = t
        BY <2>2, <4>1 DEF OnceInv, OneInitialiser
      <4> QED  BY <2>3, <4>2 DEF OneInitialiser, AsyncInitialiser, Initialising
    <3>2. CASE once.state = "async"
      <4>1. once'.state = "done"  BY <1>p, <2>1, <3>2, DoneWord
      <4>2. \A u \in Threads : Initialising(u) => IsAsync(u)
        BY <3>2 DEF OnceInv, OneInitialiser
      <4> QED  BY <2>3, <4>1, <4>2 DEF OneInitialiser, AsyncInitialiser, Initialising, IsAsync
    <3> QED  BY <1>p, <3>1, <3>2
  <2>7. \A u \in Threads : result[u] # "SUCCESS"
    BY <1>p, <1>0, DoneWord DEF OnceInv, SameContextForAll, TypeOK
  <2>8. SameContextForAll'
    BY <1>p, <2>7, <1>0 DEF SameContextForAll, OthersKept
  <2>9. StoreIsResult'
    BY <1>p, <2>1, <1>0 DEF OnceInv, StoreIsResult, OthersKept
  <2>10. \A u \in Threads : pc[u] = "decide" /\ val[u].state = "async" => once.state = "async"
    BY <1>p DEF OnceInv, DoneIsKnown
  <2>11. once.state = "async" => once'.state = "done"  BY <1>p, <2>1, DoneWord
  <2>12. \A u \in Threads : pc[u] = "decide" => val[u].state # "done"
    BY <1>p DEF OnceInv, DoneIsKnown
  <2>13. \A u \in Threads : pc[u] = "release" => store[u] = Fresh
    BY <1>p, DoneWord DEF OnceInv, DoneIsKnown, StoreIsResult
  <2>14. DoneIsKnown'
    BY <1>p, <2>10, <2>11, <2>12, <2>13, <1>0 DEF DoneIsKnown, OthersKept
  <2> QED  BY <2>6, <2>8, <2>9, <2>14
<1>c. ASSUME pc[t] \in {"finish", "release"}, CompleteStatus(t) = "SUCCESS"
      PROVE  store[t] = Done(CompleteContext(t)) /\ store[t] # Fresh
  <2>1. call[t] = "execute" /\ store[t] # Fresh  BY <1>c DEF CompleteStatus
  <2>2. PICK c \in Ctx : store[t] = Done(c)
    BY <1>c, <2>1 DEF OnceInv, StoreIsResult
  <2> QED  BY <2>1, <2>2, DoneWord DEF CompleteContext
<1>10. CASE FinishBusy(t)
  <2>0. /\ call' = call /\ pc[t] = "finish" /\ val[t].state = "busy"
    BY <1>10 DEF FinishBusy
  <2>1. CASE /\ once = val[t] /\ once' = store[t]
             /\ Return(t, "idle", CompleteStatus(t), CompleteContext(t))
    <3>1. pc'[t] = "idle" /\ result'[t] = CompleteStatus(t) /\ context'[t] = CompleteContext(t)
      BY <1>0, <2>1, ReturnPlace
    <3> QED  BY <2>0, <2>1, <3>1, <1>c, <1>p
  <2>2. CASE /\ once = val[t] /\ once' = store[t] /\ Goto(t, "release")
             /\ UNCHANGED <<flags, val, store, result, context>>
    <3>1. pc'[t] = "release"  BY <1>0, <2>2 DEF Goto, TypeOK
    <3>2. result'[t] # "SUCCESS"
      BY <2>0, <2>2, <1>0, DoneWord DEF OnceInv, SameContextForAll, TypeOK
    <3> QED  BY <2>0, <2>2, <3>1, <3>2, <1>p
  <2>3. CASE Goto(t, "complete") /\ UNCHANGED <<once, flags, val, store, result, context>>
    <3>1. pc'[t] = "complete"  BY <1>0, <2>3 DEF Goto, TypeOK
    <3>2. result'[t] = "SUCCESS" => once = Done(context'[t])
      BY <2>3 DEF OnceInv, SameContextForAll
    <3>3. /\ store'[t] = Fresh \/ \E c \in Ctx : store'[t] = Done(c)
          /\ "Async" \in flags'[t] => store'[t] # Fresh
      BY <2>0, <2>3 DEF OnceInv, StoreIsResult
    <3> QED  BY <1>0, <2>0, <2>3, <3>1, <3>2, <3>3, WordKept
  <2> QED  BY <1>10, <2>1, <2>2, <2>3 DEF FinishBusy
<1>11. CASE ReleaseWaiter(t)
  <2> DEFINE w == val[t].ptr
  <2>0. /\ once' = once /\ call' = call /\ pc[t] = "release" /\ w \in Threads
        /\ pc[w] = "blocked" /\ w # t
    BY <1>11 DEF ReleaseWaiter
  <2>1. CASE /\ pc' = [pc EXCEPT ![w] = "begin", ![t] = "idle"]
             /\ Hand(t, CompleteStatus(t), CompleteContext(t)) /\ DropLocals(t)
    <3>1. pc'[t] = "idle" /\ result'[t] = CompleteStatus(t) /\ context'[t] = CompleteContext(t)
      BY <1>0, <2>0, <2>1 DEF Hand, TypeOK
    <3>2. result'[t] = "SUCCESS" => once = Done(context'[t])
      BY <2>0, <3>1, <1>c DEF OnceInv, DoneIsKnown
    <3> QED  BY <1>0, <2>0, <3>1, <3>2, WordKept
  <2>2. CASE /\ pc' = [pc EXCEPT ![w] = "begin"]
             /\ UNCHANGED <<flags, store, result, context>>
    <3>1. pc'[t] = "release"  BY <1>0, <2>0, <2>2 DEF TypeOK
    <3>2. result'[t] = "SUCCESS" => once = Done(context'[t])
      BY <2>2 DEF OnceInv, SameContextForAll
    <3>3. /\ store'[t] = Fresh \/ \E c \in Ctx : store'[t] = Done(c)
          /\ "Async" \in flags'[t] => store'[t] # Fresh
      BY <2>0, <2>2 DEF OnceInv, StoreIsResult
    <3> QED  BY <1>0, <2>0, <2>2, <3>1, <3>2, <3>3, WordKept
  <2> QED  BY <1>11, <2>1, <2>2 DEF ReleaseWaiter
<1>12. CASE FinishAsync(t)
  <2>0. /\ call' = call /\ pc[t] = "finish" /\ val[t].state = "async" /\ Initialising(t)
    BY <1>12 DEF FinishAsync, Initialising
  <2>1. CASE Return(t, AfterRejected(t), "INVALID_PARAMETER", Nil) /\ UNCHANGED once
    <3>1. pc'[t] \in {"idle", "pending"} /\ result'[t] = "INVALID_PARAMETER"
      BY <1>0, <2>1, ReturnPlace DEF AfterRejected
    <3> QED  BY <1>0, <2>0, <2>1, <3>1, WordKept
  <2>2. CASE /\ "Async" \in flags[t] /\ once = val[t] /\ once' = store[t]
             /\ Return(t, "idle", CompleteStatus(t), Nil)
    <3>1. pc'[t] = "idle" /\ result'[t] = CompleteStatus(t)
      BY <1>0, <2>2, ReturnPlace
    <3>2. IsAsync(t)  BY <2>0, <2>2 DEF OnceInv, OneInitialiser
    <3>3. result'[t] = "COMPLETED"  BY <3>1, <3>2 DEF CompleteStatus, IsAsync
    <3> QED  BY <2>0, <2>2, <3>1, <3>3, <1>p
  <2>3. CASE Goto(t, "complete") /\ UNCHANGED <<once, flags, val, store, result, context>>
    <3>1. pc'[t] = "complete"  BY <1>0, <2>3 DEF Goto, TypeOK
    <3>2. result'[t] = "SUCCESS" => once = Done(context'[t])
      BY <2>3 DEF OnceInv, SameContextForAll
    <3>3. /\ store'[t] = Fresh \/ \E c \in Ctx : store'[t] = Done(c)
          /\ "Async" \in flags'[t] => store'[t] # Fresh
      BY <2>0, <2>3 DEF OnceInv, StoreIsResult
    <3> QED  BY <1>0, <2>0, <2>3, <3>1, <3>2, <3>3, WordKept
  <2> QED  BY <1>12, <2>1, <2>2, <2>3 DEF FinishAsync
<1>13. CASE FinishTooLate(t)
  <2>1. once' = once /\ Return(t, "idle", "UNSUCCESSFUL", Nil)  BY <1>13 DEF FinishTooLate
  <2>2. pc'[t] = "idle" /\ result'[t] = "UNSUCCESSFUL"  BY <1>0, <2>1, ReturnPlace
  <2> QED  BY <1>0, <2>1, <2>2, WordKept
<1> QED
  BY <1>1, <1>2, <1>3, <1>4, <1>5, <1>6, <1>7, <1>8, <1>9, <1>10, <1>11, <1>12, <1>13 DEF Begin, Work

(* The inductive invariant holds in every reachable state. *)
THEOREM OnceInvariant == Spec => []OnceInv
<1>1. Init => OnceInv
  <2> SUFFICES ASSUME Init PROVE OnceInv
    OBVIOUS
  <2>1. TypeOK
    BY FreshWord, MaxFailuresAssumption DEF Init, TypeOK, Slot, Labels, Statuses, CompleteFlags
  <2>2. \A t \in Threads : pc[t] = "idle" /\ result[t] = "none"
    BY DEF Init
  <2> QED
    BY <2>1, <2>2 DEF OnceInv, OneInitialiser, SameContextForAll, StoreIsResult,
                      AsyncInitialiser, DoneIsKnown, Initialising
<1>2. OnceInv /\ [Next]_vars => OnceInv'
  <2> SUFFICES ASSUME OnceInv, [Next]_vars PROVE OnceInv'
    OBVIOUS
  <2>1. ASSUME NEW t \in Threads, Begin(t) \/ Work(t) \/ Complete(t) \/ CompleteRejected(t)
        PROVE  OnceInv'
    <3>1. TypeOK'  BY <2>1, TypeStep DEF OnceInv
    <3> QED  BY <2>1, <3>1, OnceStep DEF OnceInv
  <2>2. CASE UNCHANGED vars
    BY <2>2 DEF vars, OnceInv, TypeOK, OneInitialiser, SameContextForAll, StoreIsResult,
                AsyncInitialiser, DoneIsKnown, Initialising, IsAsync
  <2> QED  BY <2>1, <2>2 DEF Next
<1> QED  BY <1>1, <1>2, PTL DEF Spec

(* For any callers and contexts, RtlRunOnceBeginInitialize hands the        *)
(* initialisation to one synchronous thread at a time, never beside an      *)
(* asynchronous one, and all the threads that were told the initialisation  *)
(* is done hold the context that is in the word.                            *)
THEOREM OnceIsSafe == Spec => [](TypeOK /\ OneInitialiser /\ SameContextForAll)
<1>1. OnceInv => TypeOK /\ OneInitialiser /\ SameContextForAll
  BY DEF OnceInv
<1> QED  BY <1>1, OnceInvariant, PTL

(* For any callers and contexts, once RtlRunOnceComplete has published a    *)
(* result no step writes the word again.                                    *)
THEOREM DoneStaysDone == Spec => DoneIsFinal
<1>1. ASSUME [Next]_vars PROVE [once.state = "done" => once' = once]_once
  <2> SUFFICES ASSUME once.state = "done" PROVE once' = once
    OBVIOUS
  <2>1. ASSUME NEW t \in Threads, Begin(t) PROVE once' = once
    BY <2>1 DEF Begin, CheckOnly, BeginInitialize
  <2>2. ASSUME NEW t \in Threads, Complete(t) \/ CompleteRejected(t) PROVE once' = once
    BY <2>2 DEF Complete, CompleteWith, CompleteRejected
  <2>3. ASSUME NEW t \in Threads, Work(t) PROVE once' = once
    <3>1. CASE ReadOnce(t) \/ BeginReturns(t) \/ ReadToComplete(t)
      BY <3>1 DEF ReadOnce, BeginReturns, ReadToComplete
    <3>2. CASE FirstTime(t)  BY <3>2, FreshWord DEF FirstTime
    <3>3. CASE Join(t)  BY <3>3 DEF Join
    <3>4. CASE FinishBusy(t) \/ FinishAsync(t)  BY <3>4 DEF FinishBusy, FinishAsync
    <3>5. CASE ReleaseWaiter(t) \/ FinishTooLate(t)
      BY <3>5 DEF ReleaseWaiter, FinishTooLate
    <3> QED  BY <2>3, <3>1, <3>2, <3>3, <3>4, <3>5 DEF Work
  <2>4. CASE UNCHANGED vars  BY <2>4 DEF vars
  <2> QED  BY <1>1, <2>1, <2>2, <2>3, <2>4 DEF Next
<1> QED  BY <1>1, PTL DEF Spec, DoneIsFinal

-----------------------------------------------------------------------------
(* The list of waiters, as a function: leads[s] is the waiter that s leads  *)
(* to, blocked are the waiting threads and releasing the ones that let them *)
(* go.  The four facts are those of WaitersOnOneList.                       *)
ListsOf(leads, blocked, releasing) ==
    /\ \A s \in Slot : leads[s] # Nil => leads[s] \in blocked
    /\ \A r, s \in Slot : leads[r] = leads[s] /\ leads[r] # Nil => r = s
    /\ \A t \in releasing : leads[t] # Nil
    /\ \A S \in SUBSET blocked : S # {} => \E s \in Slot \ S : leads[s] \in S

(* Pushing a thread on the word's list: the new waiter leads to the old     *)
(* head, so a set of waiters that was not cut off is not cut off now.       *)
LEMMA PushList ==
  ASSUME NEW T \in [Slot -> Slot], NEW B \in SUBSET Threads, NEW R \in SUBSET Threads,
         NEW t \in Threads, t \notin B, t \notin R, T[t] = Nil, ListsOf(T, B, R),
         NEW U \in [Slot -> Slot], U = [T EXCEPT ![Nil] = t, ![t] = T[Nil]]
  PROVE  ListsOf(U, B \cup {t}, R)
<1>0. /\ Nil \in Slot /\ t \in Slot /\ t # Nil /\ Threads \subseteq Slot
      /\ U[Nil] = t /\ U[t] = T[Nil]
      /\ \A s \in Slot : s # Nil /\ s # t => U[s] = T[s]
  BY NilIsDistinct DEF Slot
<1>1. \A s \in Slot : U[s] # Nil => U[s] \in B \cup {t}
  BY <1>0 DEF ListsOf
<1>2. \A s \in Slot : T[s] # t
  BY <1>0 DEF ListsOf
<1>3. \A r, s \in Slot : U[r] = U[s] /\ U[r] # Nil => r = s
  <2> SUFFICES ASSUME NEW r \in Slot, NEW s \in Slot, U[r] = U[s], U[r] # Nil PROVE r = s
    OBVIOUS
  <2>1. CASE r = Nil \/ s = Nil
    BY <1>0, <1>2, <2>1
  <2>2. CASE r # Nil /\ s # Nil
    BY <1>0, <1>2, <2>2 DEF ListsOf
  <2> QED
    BY <2>1, <2>2
<1>4. \A u \in R : U[u] # Nil
  BY <1>0 DEF ListsOf
<1>5. ASSUME NEW S \in SUBSET (B \cup {t}), S # {}
      PROVE  \E s \in Slot \ S : U[s] \in S
  <2>1. CASE t \in S
    BY <1>0, <1>5, <2>1, NilIsDistinct
  <2>2. CASE t \notin S
    <3>1. PICK s \in Slot \ S : T[s] \in S
      BY <1>5, <2>2 DEF ListsOf
    <3>2. s # t
      BY <1>0, <1>5, <3>1, NilIsDistinct
    <3>3. CASE s = Nil
      BY <1>0, <2>2, <3>1, <3>3
    <3>4. CASE s # Nil
      BY <1>0, <3>1, <3>2, <3>4
    <3> QED
      BY <3>3, <3>4
  <2> QED
    BY <2>1, <2>2
<1> QED
  BY <1>1, <1>3, <1>4, <1>5 DEF ListsOf

(* Taking the word's list to release it. *)
LEMMA TakeList ==
  ASSUME NEW T \in [Slot -> Slot], NEW B \in SUBSET Threads, NEW R \in SUBSET Threads,
         NEW t \in Threads, t \notin B, T[t] = Nil, T[Nil] # Nil, ListsOf(T, B, R),
         NEW U \in [Slot -> Slot], U = [T EXCEPT ![Nil] = Nil, ![t] = T[Nil]]
  PROVE  ListsOf(U, B, R \cup {t})
<1>0. /\ Nil \in Slot /\ t \in Slot /\ t # Nil /\ Threads \subseteq Slot
      /\ U[Nil] = Nil /\ U[t] = T[Nil]
      /\ \A s \in Slot : s # Nil /\ s # t => U[s] = T[s]
  BY NilIsDistinct DEF Slot
<1>1. \A s \in Slot : U[s] # Nil => U[s] \in B
  BY <1>0 DEF ListsOf
<1>3. \A r, s \in Slot : U[r] = U[s] /\ U[r] # Nil => r = s
  BY <1>0 DEF ListsOf
<1>4. \A u \in R \cup {t} : U[u] # Nil
  BY <1>0, NilIsDistinct DEF ListsOf
<1>5. ASSUME NEW S \in SUBSET B, S # {}
      PROVE  \E s \in Slot \ S : U[s] \in S
  <2>1. PICK s \in Slot \ S : T[s] \in S
    BY <1>5 DEF ListsOf
  <2>2. CASE s = Nil
    BY <1>0, <2>1, <2>2
  <2>3. CASE s # Nil
    <3>1. s # t
      BY <1>0, <2>1, NilIsDistinct
    <3> QED
      BY <1>0, <2>1, <2>3, <3>1
  <2> QED
    BY <2>2, <2>3
<1> QED
  BY <1>1, <1>3, <1>4, <1>5 DEF ListsOf

(* Releasing the first waiter of a list: its releaser goes on with the      *)
(* waiter after it, or is done when there is none.                          *)
LEMMA PopList ==
  ASSUME NEW T \in [Slot -> Slot], NEW B \in SUBSET Threads, NEW R \in SUBSET Threads,
         NEW t \in R, t \notin B, NEW w \in B, T[t] = w, ListsOf(T, B, R),
         NEW U \in [Slot -> Slot], U = [T EXCEPT ![t] = T[w], ![w] = Nil],
         NEW Q \in SUBSET R, w \notin R, T[w] = Nil => t \notin Q
  PROVE  ListsOf(U, B \ {w}, Q)
<1>0. /\ Nil \in Slot /\ t \in Slot /\ w \in Slot /\ t # Nil /\ w # Nil /\ t # w
      /\ Threads \subseteq Slot
      /\ U[t] = T[w] /\ U[w] = Nil
      /\ \A s \in Slot : s # w /\ s # t => U[s] = T[s]
  BY NilIsDistinct DEF Slot
<1>1. \A s \in Slot : U[s] # Nil => U[s] \in B \ {w}
  BY <1>0 DEF ListsOf
<1>3. \A r, s \in Slot : U[r] = U[s] /\ U[r] # Nil => r = s
  BY <1>0 DEF ListsOf
<1>4. \A u \in Q : U[u] # Nil
  <2> SUFFICES ASSUME NEW u \in Q PROVE U[u] # Nil
    OBVIOUS
  <2>1. CASE u = t
    BY <1>0, <2>1
  <2>2. CASE u # t
    BY <1>0, <2>2 DEF ListsOf
  <2> QED
    BY <2>1, <2>2
<1>5. ASSUME NEW S \in SUBSET (B \ {w}), S # {}
      PROVE  \E s \in Slot \ S : U[s] \in S
  <2>1. PICK s \in Slot \ S : T[s] \in S
    BY <1>5 DEF ListsOf
  <2>2. CASE s = w
    <3>1. t \notin S
      BY <1>5
    <3> QED
      BY <1>0, <2>1, <2>2, <3>1
  <2>3. CASE s # w
    <3>1. s # t
      BY <1>0, <2>1
    <3> QED
      BY <1>0, <2>1, <2>3, <3>1
  <2> QED
    BY <2>2, <2>3
<1> QED
  BY <1>1, <1>3, <1>4, <1>5 DEF ListsOf

Blocked == {t \in Threads : pc[t] = "blocked"}
Releasing == {t \in Threads : pc[t] = "release"}
Leads == [s \in Slot |-> Target(s)]

(* A thread that finishes or releases as a synchronous initialiser has seen *)
(* the word busy.                                                           *)
SawBusy ==
    \A t \in Threads : /\ pc[t] = "finish" /\ ~IsAsync(t) => val[t].state = "busy"
                       /\ pc[t] = "release" => val[t].state = "busy"

ListInv == OnceInv /\ SawBusy /\ ListsOf(Leads, Blocked, Releasing)

(* Targets are slots. *)
LEMMA LeadsType ==
  ASSUME TypeOK, SawBusy PROVE Leads \in [Slot -> Slot]
<1> SUFFICES ASSUME NEW s \in Slot PROVE Target(s) \in Slot
  BY DEF Leads
<1>1. CASE s = Nil
  BY <1>1, WordCases DEF Target, TypeOK, Slot
<1>2. CASE s # Nil
  <2>1. s \in Threads /\ val[s] \in Word
    BY <1>2 DEF Slot, TypeOK
  <2>2. pc[s] = "release" => val[s].ptr \in Slot
    BY <2>1, WordCases DEF SawBusy
  <2> QED
    BY <1>2, <2>1, <2>2 DEF Target, TypeOK, Slot
<1> QED
  BY <1>1, <1>2

(* The same, after a step. *)
LEMMA LeadsTypeNext ==
  ASSUME TypeOK', SawBusy' PROVE Leads' \in [Slot -> Slot]
<1> SUFFICES ASSUME NEW s \in Slot PROVE Target(s)' \in Slot
  BY DEF Leads
<1>1. CASE s = Nil
  BY <1>1, WordCases DEF Target, TypeOK, Slot
<1>2. CASE s # Nil
  <2>1. s \in Threads /\ val'[s] \in Word
    BY <1>2 DEF Slot, TypeOK
  <2>2. pc'[s] = "release" => val'[s].ptr \in Slot
    BY <2>1, WordCases DEF SawBusy
  <2> QED
    BY <1>2, <2>1, <2>2 DEF Target, TypeOK, Slot
<1> QED
  BY <1>1, <1>2

(* Every step of a thread keeps what its releaser has seen. *)
LEMMA SawBusyStep ==
  ASSUME OnceInv, SawBusy, NEW t \in Threads,
         Begin(t) \/ Work(t) \/ Complete(t) \/ CompleteRejected(t)
  PROVE  SawBusy'
<1>0. TypeOK /\ OthersKept(t)
  BY OthersAreKept DEF OnceInv
<1>1. ASSUME pc'[t] = "finish" /\ ~IsAsync(t)' => val'[t].state = "busy",
             pc'[t] = "release" => val'[t].state = "busy"
      PROVE  SawBusy'
  BY <1>0, <1>1 DEF SawBusy, OthersKept, IsAsync
<1>2. CASE Begin(t) \/ Complete(t) \/ CompleteRejected(t)
  <2>1. pc'[t] \notin {"finish", "release"}
    BY <1>0, <1>2 DEF Begin, CheckOnly, BeginInitialize, Complete, CompleteWith,
       CompleteRejected, AfterRejected, Return, Goto, TypeOK
  <2> QED
    BY <1>1, <2>1
<1>3. CASE ReadOnce(t) \/ FirstTime(t) \/ Join(t) \/ BeginReturns(t) \/ FinishAsync(t) \/ FinishTooLate(t)
  <2>1. pc'[t] \notin {"finish", "release"}
    BY <1>0, <1>3 DEF ReadOnce, FirstTime, Join, BeginReturns, FinishAsync, FinishTooLate,
       AfterRejected, Return, Goto, TypeOK
  <2> QED
    BY <1>1, <2>1
<1>4. CASE ReadToComplete(t)
  <2>1. pc'[t] = "finish" /\ val'[t] = once /\ call' = call /\ Initialising(t)
    BY <1>0, <1>4 DEF ReadToComplete, Goto, TypeOK, Initialising
  <2> QED
    BY <1>1, <2>1 DEF OnceInv, OneInitialiser, IsAsync
<1>5. CASE FinishBusy(t)
  <2>1. \/ pc'[t] \in {"idle", "complete"}
        \/ pc'[t] = "release" /\ val' = val /\ val[t].state = "busy"
    BY <1>0, <1>5 DEF FinishBusy, Return, Goto, TypeOK
  <2> QED
    BY <1>1, <2>1
<1>6. CASE ReleaseWaiter(t)
  <2>1. pc'[t] = "idle" \/ (pc'[t] = "release" /\ val'[t] = Listed(next[val[t].ptr]))
    BY <1>0, <1>6 DEF ReleaseWaiter, TypeOK
  <2>2. Listed(next[val[t].ptr]).state = "busy"
    BY DEF Listed
  <2> QED
    BY <1>1, <2>1, <2>2
<1> QED
  BY <1>2, <1>3, <1>4, <1>5, <1>6 DEF Work

(* A step that touches neither a waiter nor the head of the word's list     *)
(* keeps the lists.                                                         *)
LEMMA ListsKept ==
  ASSUME ListInv, NEW t \in Threads,
         pc[t] \notin {"blocked", "release"}, pc'[t] \notin {"blocked", "release"},
         \A u \in Threads \ {t} : pc'[u] = pc[u] /\ val'[u] = val[u],
         next' = next, Target(Nil)' = Target(Nil)
  PROVE  ListsOf(Leads, Blocked, Releasing)'
<1>1. Blocked' = Blocked /\ Releasing' = Releasing
  BY DEF Blocked, Releasing
<1>2. ASSUME NEW s \in Slot, s # Nil PROVE Target(s)' = Target(s)
  BY <1>2 DEF Target, Slot
<1>3. Leads' = Leads
  BY <1>2 DEF Leads
<1> QED
  BY <1>1, <1>3 DEF ListInv, ListsOf

(* A caller that joins. *)
LEMMA JoinLists ==
  ASSUME ListInv, TypeOK', SawBusy', NEW t \in Threads, Join(t)
  PROVE  ListsOf(Leads, Blocked, Releasing)'
<1>0. TypeOK /\ Leads \in [Slot -> Slot] /\ Leads' \in [Slot -> Slot]
  BY LeadsType, LeadsTypeNext DEF ListInv, OnceInv
<1>1. CASE once # val[t]
  <2>1. /\ pc[t] = "decide" /\ pc'[t] = "begin" /\ UNCHANGED <<next, once, val>>
        /\ \A u \in Threads \ {t} : pc'[u] = pc[u]
    BY <1>0, <1>1 DEF Join, Goto, TypeOK
  <2> QED
    BY <2>1, ListsKept DEF Target
<1>2. CASE once = val[t]
  <2>1. /\ pc[t] = "decide" /\ pc'[t] = "blocked" /\ val' = val /\ once.state = "busy"
        /\ once' = Listed(t) /\ next' = [next EXCEPT ![t] = once.ptr]
        /\ \A u \in Threads \ {t} : pc'[u] = pc[u]
    BY <1>0, <1>2 DEF Join, Goto, TypeOK, Listed
  <2>2. Blocked' = Blocked \cup {t} /\ Releasing' = Releasing
    BY <2>1 DEF Blocked, Releasing
  <2>3. Nil \in Slot /\ t \in Slot /\ t # Nil /\ Threads \subseteq Slot
    BY NilIsDistinct DEF Slot
  <2>4. Target(Nil)' = t /\ Target(t)' = Target(Nil) /\ Target(t) = Nil
    BY <1>0, <2>1, <2>3 DEF Target, Listed, TypeOK
  <2>5. ASSUME NEW s \in Slot, s # Nil, s # t PROVE Target(s)' = Target(s)
    BY <1>0, <2>1, <2>5 DEF Target, Slot, TypeOK
  <2>6. Leads' = [Leads EXCEPT ![Nil] = t, ![t] = Leads[Nil]]
    BY <1>0, <2>3, <2>4, <2>5 DEF Leads
  <2>7. t \notin Blocked /\ t \notin Releasing /\ Leads[t] = Nil
    BY <2>1, <2>3, <2>4 DEF Blocked, Releasing, Leads
  <2>8. Blocked \in SUBSET Threads /\ Releasing \in SUBSET Threads
    BY DEF Blocked, Releasing
  <2>9. ListsOf(Leads', Blocked \cup {t}, Releasing)
    <3> HIDE DEF Leads, Blocked, Releasing
    <3> QED
      BY <1>0, <2>6, <2>7, <2>8, PushList DEF ListInv
  <2> QED
    BY <2>2, <2>9 DEF ListsOf
<1> QED
  BY <1>1, <1>2

(* An initialiser that publishes what it has to store, and takes the list. *)
LEMMA FinishLists ==
  ASSUME ListInv, TypeOK', SawBusy', NEW t \in Threads, FinishBusy(t)
  PROVE  ListsOf(Leads, Blocked, Releasing)'
<1>0. TypeOK /\ Leads \in [Slot -> Slot] /\ Leads' \in [Slot -> Slot]
  BY LeadsType, LeadsTypeNext DEF ListInv, OnceInv
<1>1. CASE once # val[t]
  <2>1. /\ pc[t] = "finish" /\ pc'[t] = "complete" /\ UNCHANGED <<next, once, val>>
        /\ \A u \in Threads \ {t} : pc'[u] = pc[u]
    BY <1>0, <1>1 DEF FinishBusy, Goto, TypeOK
  <2> QED
    BY <2>1, ListsKept DEF Target
<1>s. ASSUME once = val[t] PROVE once'.state # "busy"
  <2>1. once' = store[t] /\ pc[t] = "finish"
    BY <1>s DEF FinishBusy
  <2>2. store[t] = Fresh \/ \E c \in Contexts \cup {Nil} : store[t] = Done(c)
    BY <2>1 DEF ListInv, OnceInv, StoreIsResult
  <2> QED
    BY <2>1, <2>2, FreshWord, DoneWord
<1>2. CASE once = val[t] /\ val[t].ptr = Nil
  <2>1. /\ pc[t] = "finish" /\ pc'[t] = "idle" /\ UNCHANGED next
        /\ \A u \in Threads \ {t} : pc'[u] = pc[u] /\ val'[u] = val[u]
        /\ once.state = "busy"
    BY <1>0, <1>2 DEF FinishBusy, Return, DropLocals, Goto, TypeOK
  <2>2. Target(Nil) = Nil /\ Target(Nil)' = Nil
    BY <1>2, <1>s, <2>1 DEF Target
  <2> QED
    BY <2>1, <2>2, ListsKept
<1>3. CASE once = val[t] /\ val[t].ptr # Nil
  <2>1. /\ pc[t] = "finish" /\ pc'[t] = "release" /\ val' = val /\ once.state = "busy"
        /\ next' = next
        /\ \A u \in Threads \ {t} : pc'[u] = pc[u]
    BY <1>0, <1>3 DEF FinishBusy, Goto, TypeOK
  <2>2. Blocked' = Blocked /\ Releasing' = Releasing \cup {t}
    BY <2>1 DEF Blocked, Releasing
  <2>3. Nil \in Slot /\ t \in Slot /\ t # Nil /\ Threads \subseteq Slot
    BY NilIsDistinct DEF Slot
  <2>4. Target(Nil)' = Nil /\ Target(t)' = Target(Nil) /\ Target(t) = Nil /\ Target(Nil) # Nil
    BY <1>0, <1>3, <1>s, <2>1, <2>3 DEF Target, TypeOK
  <2>5. ASSUME NEW s \in Slot, s # Nil, s # t PROVE Target(s)' = Target(s)
    BY <1>0, <2>1, <2>5 DEF Target, Slot, TypeOK
  <2>6. Leads' = [Leads EXCEPT ![Nil] = Nil, ![t] = Leads[Nil]]
    BY <1>0, <2>3, <2>4, <2>5 DEF Leads
  <2>7. t \notin Blocked /\ Leads[t] = Nil /\ Leads[Nil] # Nil
    BY <2>1, <2>3, <2>4 DEF Blocked, Leads
  <2>8. Blocked \in SUBSET Threads /\ Releasing \in SUBSET Threads
    BY DEF Blocked, Releasing
  <2>9. ListsOf(Leads', Blocked, Releasing \cup {t})
    <3> HIDE DEF Leads, Blocked, Releasing
    <3> QED
      BY <1>0, <2>6, <2>7, <2>8, TakeList DEF ListInv
  <2> QED
    BY <2>2, <2>9 DEF ListsOf
<1> QED
  BY <1>1, <1>2, <1>3

(* A release. *)
LEMMA ReleaseLists ==
  ASSUME ListInv, TypeOK', SawBusy', NEW t \in Threads, ReleaseWaiter(t)
  PROVE  ListsOf(Leads, Blocked, Releasing)'
<1>0. TypeOK /\ Leads \in [Slot -> Slot] /\ Leads' \in [Slot -> Slot]
  BY LeadsType, LeadsTypeNext DEF ListInv, OnceInv
<1>w. PICK w \in Threads : w = val[t].ptr
  BY DEF ReleaseWaiter
<1>1. /\ pc[t] = "release" /\ pc[w] = "blocked" /\ w # t
      /\ next' = [next EXCEPT ![w] = Nil] /\ once' = once
      /\ pc'[w] = "begin"
      /\ \A u \in Threads \ {t} : val'[u] = val[u] /\ (u # w => pc'[u] = pc[u])
      /\ next[w] = Nil => pc'[t] = "idle"
      /\ next[w] # Nil => pc'[t] = "release" /\ val'[t] = Listed(next[w])
  BY <1>0, <1>w DEF ReleaseWaiter, DropLocals, TypeOK
<1>2. Blocked' = Blocked \ {w} /\ Releasing' \in SUBSET Releasing
  BY <1>1 DEF Blocked, Releasing
<1>3. /\ Nil \in Slot /\ t \in Slot /\ t # Nil /\ Threads \subseteq Slot
      /\ w \in Slot /\ w # Nil
  BY <1>1, NilIsDistinct DEF Slot
<1>4. /\ Target(t)' = next[w] /\ Target(w) = next[w] /\ Target(w)' = Nil /\ Target(t) = w
  BY <1>0, <1>w, <1>1, <1>3 DEF Target, Listed, TypeOK
<1>5. ASSUME NEW s \in Slot, s # w, s # t PROVE Target(s)' = Target(s)
  BY <1>0, <1>1, <1>5 DEF Target, Slot, TypeOK
<1>6. Leads' = [Leads EXCEPT ![t] = Leads[w], ![w] = Nil]
  BY <1>0, <1>1, <1>3, <1>4, <1>5 DEF Leads
<1>7. /\ t \notin Blocked /\ t \in Releasing /\ w \in Blocked /\ Leads[t] = w
      /\ w \notin Releasing
      /\ Leads[w] = Nil => t \notin Releasing'
  BY <1>1, <1>3, <1>4 DEF Blocked, Releasing, Leads
<1>8. Blocked \in SUBSET Threads /\ Releasing \in SUBSET Threads
  BY DEF Blocked, Releasing
<1>9. ListsOf(Leads', Blocked \ {w}, Releasing')
  <2> HIDE DEF Leads, Blocked, Releasing
  <2> QED
    BY <1>0, <1>2, <1>6, <1>7, <1>8, PopList DEF ListInv
<1> QED
  BY <1>2, <1>9 DEF ListsOf

(* Every step of a thread keeps the lists. *)
LEMMA ListStep ==
  ASSUME ListInv, OnceInv', SawBusy', NEW t \in Threads,
         Begin(t) \/ Work(t) \/ Complete(t) \/ CompleteRejected(t)
  PROVE  ListsOf(Leads, Blocked, Releasing)'
<1>0. TypeOK /\ TypeOK' /\ OnceInv
  BY DEF ListInv, OnceInv
<1>1. CASE Begin(t) \/ Complete(t) \/ CompleteRejected(t)
  <2>1. /\ pc[t] \notin {"blocked", "release"} /\ pc'[t] \notin {"blocked", "release"}
        /\ \A u \in Threads \ {t} : pc'[u] = pc[u] /\ val'[u] = val[u]
        /\ next' = next /\ once' = once
    BY <1>0, <1>1 DEF Begin, CheckOnly, BeginInitialize, Complete, CompleteWith,
       CompleteRejected, AfterRejected, Return, DropLocals, Goto, TypeOK
  <2> QED
    BY <2>1, ListsKept DEF Target
<1>2. CASE ReadOnce(t) \/ BeginReturns(t) \/ ReadToComplete(t) \/ FinishTooLate(t)
  <2>1. /\ pc[t] \notin {"blocked", "release"} /\ pc'[t] \notin {"blocked", "release"}
        /\ \A u \in Threads \ {t} : pc'[u] = pc[u] /\ val'[u] = val[u]
        /\ next' = next /\ once' = once
    BY <1>0, <1>2 DEF ReadOnce, BeginReturns, ReadToComplete, FinishTooLate, Return,
       DropLocals, Goto, TypeOK
  <2> QED
    BY <2>1, ListsKept DEF Target
<1>3. CASE FirstTime(t)
  <2>1. /\ pc[t] \notin {"blocked", "release"} /\ pc'[t] \notin {"blocked", "release"}
        /\ \A u \in Threads \ {t} : pc'[u] = pc[u] /\ val'[u] = val[u]
        /\ next' = next
        /\ once' = once \/ (once = Fresh /\ once' = Claimed(t))
    BY <1>0, <1>3 DEF FirstTime, Return, DropLocals, Goto, TypeOK
  <2>2. Target(Nil)' = Target(Nil)
    <3>1. CASE once' = once
      BY <3>1 DEF Target
    <3>2. CASE once = Fresh /\ once' = Claimed(t)
      <4>1. once.state # "busy" /\ once'.ptr = Nil
        BY <3>2, FreshWord DEF Claimed
      <4> QED
        BY <4>1 DEF Target
    <3> QED
      BY <2>1, <3>1, <3>2
  <2> QED
    BY <2>1, <2>2, ListsKept
<1>4. CASE FinishAsync(t)
  <2>1. /\ pc[t] = "finish" /\ pc'[t] \notin {"blocked", "release"}
        /\ \A u \in Threads \ {t} : pc'[u] = pc[u] /\ val'[u] = val[u]
        /\ next' = next
        /\ once' = once \/ (once.state = "async" /\ once' = store[t])
    BY <1>0, <1>4 DEF FinishAsync, AfterRejected, Return, DropLocals, Goto, TypeOK
  <2>2. Target(Nil)' = Target(Nil)
    <3>1. CASE once' = once
      BY <3>1 DEF Target
    <3>2. CASE once.state = "async" /\ once' = store[t]
      <4>1. store[t] = Fresh \/ \E c \in Contexts \cup {Nil} : store[t] = Done(c)
        BY <1>0, <2>1 DEF OnceInv, StoreIsResult
      <4>2. once'.state # "busy"
        BY <3>2, <4>1, FreshWord, DoneWord
      <4> QED
        BY <3>2, <4>2 DEF Target
    <3> QED
      BY <2>1, <3>1, <3>2
  <2> QED
    BY <2>1, <2>2, ListsKept
<1>5. CASE Join(t)
  BY <1>0, <1>5, JoinLists
<1>6. CASE FinishBusy(t)
  BY <1>0, <1>6, FinishLists
<1>7. CASE ReleaseWaiter(t)
  BY <1>0, <1>7, ReleaseLists
<1> QED
  BY <1>1, <1>2, <1>3, <1>4, <1>5, <1>6, <1>7 DEF Work

(* The invariant with the lists. *)
THEOREM ListInvariant == Spec => []ListInv
<1>1. Init /\ OnceInv => ListInv
  <2> SUFFICES ASSUME Init, OnceInv PROVE ListInv
    OBVIOUS
  <2>1. \A t \in Threads : pc[t] = "idle"
    BY DEF Init
  <2>2. SawBusy /\ Blocked = {} /\ Releasing = {}
    BY <2>1 DEF SawBusy, Blocked, Releasing
  <2>3. \A s \in Slot : Target(s) = Nil
    BY <2>1, FreshWord DEF Target, Slot, Init
  <2>4. \A s \in Slot : Leads[s] = Nil
    BY <2>3 DEF Leads
  <2> QED
    BY <2>2, <2>4 DEF ListInv, ListsOf
<1>2. ListInv /\ OnceInv' /\ [Next]_vars => ListInv'
  <2> SUFFICES ASSUME ListInv, OnceInv', [Next]_vars PROVE ListInv'
    OBVIOUS
  <2>1. ASSUME NEW t \in Threads, Begin(t) \/ Work(t) \/ Complete(t) \/ CompleteRejected(t)
        PROVE  ListInv'
    <3>1. SawBusy'
      BY <2>1, SawBusyStep DEF ListInv
    <3> QED
      BY <2>1, <3>1, ListStep DEF ListInv
  <2>2. CASE UNCHANGED vars
    <3>1. Leads' = Leads /\ Blocked' = Blocked /\ Releasing' = Releasing
      BY <2>2 DEF vars, Leads, Target, Blocked, Releasing
    <3>2. SawBusy'
      BY <2>2 DEF vars, ListInv, SawBusy, IsAsync
    <3> QED
      BY <3>1, <3>2 DEF ListInv, ListsOf
  <2> QED
    BY <2>1, <2>2 DEF Next
<1> QED
  BY <1>1, <1>2, OnceInvariant, PTL DEF Spec

(* For any callers and contexts, every blocked caller is on the word's list *)
(* or on that of one thread releasing it, and whoever is released is still  *)
(* waiting: RtlRunOnceComplete forgets no waiter, and never blocks on one   *)
(* that is gone.                                                            *)
THEOREM NoWaiterForgotten == Spec => []WaitersOnOneList
<1>1. ListInv => WaitersOnOneList
  <2> SUFFICES ASSUME ListInv PROVE WaitersOnOneList
    OBVIOUS
  <2>0. /\ TypeOK /\ Nil \in Slot /\ Threads \subseteq Slot
        /\ \A s \in Slot : Leads[s] = Target(s)
    BY DEF ListInv, OnceInv, Slot, Leads
  <2>1. \A s \in Slot : Target(s) # Nil => pc[Target(s)] = "blocked"
    BY <2>0 DEF ListInv, ListsOf, Blocked
  <2>2. \A r, s \in Slot : Target(r) = Target(s) /\ Target(r) # Nil => r = s
    BY <2>0 DEF ListInv, ListsOf
  <2>3. \A t \in Threads : pc[t] = "release" => Target(t) # Nil
    BY <2>0 DEF ListInv, ListsOf, Releasing
  <2>4. \A S \in SUBSET {t \in Threads : pc[t] = "blocked"} :
          S # {} => \E s \in Slot \ S : Target(s) \in S
    BY <2>0 DEF ListInv, ListsOf, Blocked
  <2> QED
    BY <2>0, <2>1, <2>2, <2>3, <2>4 DEF WaitersOnOneList
<1> QED
  BY <1>1, ListInvariant, PTL

(* For any callers and contexts, only a rejected RtlRunOnceExecuteOnce      *)
(* leaves the word busy with nobody to complete it: a thread that was told  *)
(* to initialise otherwise stays bound to complete, and a busy word is      *)
(* claimed by one.                                                          *)
THEOREM OnlyUnalignedLeavesBusy == Spec => LeftBusyOnlyUnaligned
<1> DEFINE Step == ~LeftBusy /\ LeftBusy' =>
              /\ Unaligned # {}
              /\ \E t \in Threads : /\ pc[t] = "pending" /\ call[t] = "execute"
                                    /\ result'[t] = "INVALID_PARAMETER"
<1>1. ASSUME ListInv, OnceInv', [Next]_vars PROVE [Step]_vars
  <2> SUFFICES ASSUME ~LeftBusy, LeftBusy', Next
               PROVE  /\ Unaligned # {}
                      /\ \E t \in Threads : /\ pc[t] = "pending" /\ call[t] = "execute"
                                            /\ result'[t] = "INVALID_PARAMETER"
    BY <1>1
  <2>0. PICK t \in Threads : Begin(t) \/ Work(t) \/ Complete(t) \/ CompleteRejected(t)
    BY DEF Next
  <2>1. /\ TypeOK /\ OthersKept(t) /\ OnceInv /\ SawBusy
        /\ once'.state = "busy" /\ \A u \in Threads : pc'[u] \notin {"pending", "complete", "finish"}
    BY <1>1, <2>0, OthersAreKept DEF ListInv, OnceInv, LeftBusy, Initialising
  <2>2. CASE once.state # "busy"
    <3>1. CASE FirstTime(t)
      <4>1. pc'[t] \in {"pending", "begin"}
        BY <2>1, <3>1 DEF FirstTime, Return, Goto, TypeOK
      <4>2. pc'[t] = "begin" => once' = once
        BY <2>1, <3>1 DEF FirstTime, Return, Goto, TypeOK
      <4> QED
        BY <2>1, <2>2, <4>1, <4>2
    <3>2. CASE Join(t) \/ FinishBusy(t)
      <4>1. once' = once
        BY <2>2, <3>2 DEF Join, FinishBusy
      <4> QED
        BY <2>1, <2>2, <4>1
    <3>3. CASE FinishAsync(t)
      <4>1. once' = once \/ (once' = store[t] /\ pc[t] = "finish")
        BY <3>3 DEF FinishAsync
      <4>2. pc[t] = "finish" => store[t].state # "busy"
        BY <2>1, FreshWord, DoneWord DEF OnceInv, StoreIsResult
      <4> QED
        BY <2>1, <2>2, <4>1, <4>2
    <3>4. CASE Begin(t) \/ Complete(t) \/ CompleteRejected(t)
      BY <2>1, <2>2, <3>4 DEF Begin, CheckOnly, BeginInitialize, Complete, CompleteWith, CompleteRejected
    <3>5. CASE ReadOnce(t) \/ BeginReturns(t) \/ ReadToComplete(t) \/ ReleaseWaiter(t) \/ FinishTooLate(t)
      BY <2>1, <2>2, <3>5 DEF ReadOnce, BeginReturns, ReadToComplete, ReleaseWaiter, FinishTooLate
    <3> QED
      BY <2>0, <3>1, <3>2, <3>3, <3>4, <3>5 DEF Work
  <2>3. CASE once.state = "busy"
    <3>1. /\ Initialising(t) /\ ~IsAsync(t)
          /\ pc'[t] \notin {"pending", "complete", "finish"}
      <4>1. PICK u \in Threads : Initialising(u)
        BY <2>3 DEF LeftBusy
      <4>2. u = t
        BY <2>1, <4>1 DEF OthersKept, Initialising
      <4> QED
        BY <2>1, <2>3, <4>1, <4>2 DEF OnceInv, AsyncInitialiser
    <3>2. pc[t] = "finish" => val[t].state = "busy"
      BY <2>1, <3>1 DEF SawBusy
    <3>3. CASE FinishBusy(t)
      <4>1. pc[t] = "finish" /\ once' = store[t]
        BY <2>1, <3>1, <3>3 DEF FinishBusy, Goto, TypeOK
      <4> QED
        BY <2>1, <4>1, FreshWord, DoneWord DEF OnceInv, StoreIsResult
    <3>4. CASE Complete(t) \/ ReadToComplete(t)
      BY <2>1, <3>1, <3>4 DEF Complete, CompleteWith, ReadToComplete, Goto, TypeOK
    <3>5. CASE FinishAsync(t) \/ FinishTooLate(t)
      BY <3>2, <3>5 DEF FinishAsync, FinishTooLate
    <3>6. CASE Begin(t) \/ ReadOnce(t) \/ FirstTime(t) \/ Join(t) \/ BeginReturns(t) \/ ReleaseWaiter(t)
      BY <3>1, <3>6 DEF Begin, CheckOnly, BeginInitialize, ReadOnce, FirstTime, Join,
         BeginReturns, ReleaseWaiter, Initialising
    <3>7. CASE CompleteRejected(t)
      <4>1. /\ pc[t] = "pending" /\ Return(t, AfterRejected(t), "INVALID_PARAMETER", Nil)
            /\ \E a \in CompleteArguments(t) : CompleteRejects(a[1], a[2])
        BY <3>7 DEF CompleteRejected
      <4>2. pc'[t] = AfterRejected(t) /\ result'[t] = "INVALID_PARAMETER"
        BY <2>1, <4>1, ReturnPlace
      <4>3. call[t] = "execute"
        BY <3>1, <4>2 DEF AfterRejected
      <4>4. Unaligned # {}
        BY <4>1, <4>3 DEF CompleteArguments, CompleteRejects
      <4> QED
        BY <4>1, <4>2, <4>3, <4>4
    <3> QED
      BY <2>0, <3>3, <3>4, <3>5, <3>6, <3>7 DEF Work
  <2> QED
    BY <2>2, <2>3
<1> QED
  BY <1>1, ListInvariant, OnceInvariant, PTL DEF Spec, LeftBusyOnlyUnaligned
=============================================================================
