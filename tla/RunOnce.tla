------------------------------ MODULE RunOnce ------------------------------
(***************************************************************************)
(* One-time initialisation (RtlRunOnce* in ntext/rtl/synch.c, reached from *)
(* InitOnce* in kernelex/synch.c).  The word once->Ptr keeps a state in    *)
(* its two low bits and in the rest, depending on it, the address of the   *)
(* last waiter's stack slot "next", or the context.  A thread is in one    *)
(* call at a time, so its slot is named after it.                          *)
(*                                                                         *)
(* The keyed event is external: a release waits for the waiter it is meant *)
(* for, and a wait for its release.                                        *)
(***************************************************************************)
EXTENDS Naturals, FiniteSets

CONSTANTS Threads,      \* the callers
          Nil,          \* NULL, as a slot address and as a context
          Contexts,     \* the other contexts an initialiser may store
          Unaligned,    \* the contexts among them with a low bit set
          MaxFailures   \* bound on the failed initialisations

ASSUME NilIsDistinct == Nil \notin Threads /\ Nil \notin Contexts
ASSUME UnalignedAssumption == Unaligned \subseteq Contexts
ASSUME MaxFailuresAssumption == MaxFailures \in Nat

VARIABLES once,      \* once->Ptr: its state and the rest
          next,      \* next[t]: the stack slot of a waiting thread
          pc,        \* where each thread is
          call,      \* how each thread began: sync, async or execute
          flags,     \* the flags of its RtlRunOnceComplete
          val,       \* its local val
          store,     \* what a completing thread stores, its local context
          result,    \* the status its last call returned
          context,   \* the context that call handed out
          failures   \* failed initialisations so far

vars == <<once, next, pc, call, flags, val, store, result, context, failures>>

Slot == Threads \cup {Nil}

(* By val & 3: 0, 1, 2 and 3. *)
Word == [state : {"first"}, ptr : {Nil}]
        \cup [state : {"busy"}, ptr : Slot]
        \cup [state : {"done"}, ptr : Contexts \cup {Nil}]
        \cup [state : {"async"}, ptr : {Nil}]
Fresh == [state |-> "first", ptr |-> Nil]
Done(c) == [state |-> "done", ptr |-> c]

CompleteFlags == SUBSET {"Async", "InitFailed"}

(* RtlRunOnceInitialize; no thread is in a call. *)
Init == /\ once = Fresh
        /\ next = [t \in Threads |-> Nil]
        /\ pc = [t \in Threads |-> "idle"]
        /\ call = [t \in Threads |-> "sync"]
        /\ flags = [t \in Threads |-> {}]
        /\ val = [t \in Threads |-> Fresh]
        /\ store = [t \in Threads |-> Fresh]
        /\ result = [t \in Threads |-> "none"]
        /\ context = [t \in Threads |-> Nil]
        /\ failures = 0

Goto(t, l) == pc' = [pc EXCEPT ![t] = l]

(* The call returns status s, and context c where there is one.  Its locals *)
(* are gone.                                                                *)
DropLocals(t) == /\ val' = [val EXCEPT ![t] = Fresh]
                 /\ store' = [store EXCEPT ![t] = Fresh]
                 /\ flags' = [flags EXCEPT ![t] = {}]

Hand(t, s, c) == /\ result' = [result EXCEPT ![t] = s]
                 /\ context' = [context EXCEPT ![t] = c]

Return(t, l, s, c) == Goto(t, l) /\ Hand(t, s, c) /\ DropLocals(t)

-----------------------------------------------------------------------------
(* RtlRunOnceBeginInitialize                                                *)

(* Fault: a word that is not fresh counts as done. *)
CheckOnlyNotFresh(t) ==
    /\ pc[t] = "idle"
    /\ \/ Return(t, "idle", "INVALID_PARAMETER", Nil)
       \/ once.state = "first" /\ Return(t, "idle", "UNSUCCESSFUL", Nil)
       \/ once.state # "first" /\ Return(t, "idle", "SUCCESS", once.ptr)
    /\ UNCHANGED <<once, next, call, failures>>

CheckOnly(t) ==
    /\ pc[t] = "idle"
    /\ \/ Return(t, "idle", "INVALID_PARAMETER", Nil)     \* with RTL_RUN_ONCE_ASYNC
       \/ /\ once.state # "done"
          /\ Return(t, "idle", "UNSUCCESSFUL", Nil)
       \/ /\ once.state = "done"
          /\ Return(t, "idle", "SUCCESS", once.ptr)
    /\ UNCHANGED <<once, next, call, failures>>

(* Entered from the call itself, or from RtlRunOnceExecuteOnce. *)
BeginInitialize(t) ==
    /\ pc[t] = "idle"
    /\ \E c \in {"sync", "async", "execute"} : call' = [call EXCEPT ![t] = c]
    /\ Return(t, "begin", "none", Nil)
    /\ UNCHANGED <<once, next, failures>>

ReadOnce(t) ==
    /\ pc[t] = "begin"
    /\ val' = [val EXCEPT ![t] = once]
    /\ Goto(t, "decide")
    /\ UNCHANGED <<once, next, call, flags, store, result, context, failures>>

IsAsync(t) == call[t] = "async"
Claimed(t) == [state |-> IF IsAsync(t) THEN "async" ELSE "busy", ptr |-> Nil]

(* Fault: the word is stored without comparing. *)
FirstTimeUnchecked(t) ==
    /\ pc[t] = "decide"
    /\ val[t].state = "first"
    /\ once' = Claimed(t)
    /\ Return(t, "pending", "PENDING", Nil)
    /\ UNCHANGED <<next, call, failures>>

(* case 0: become the initialiser, unless another thread has. *)
FirstTime(t) ==
    /\ pc[t] = "decide"
    /\ val[t].state = "first"
    /\ \/ /\ once = Fresh
          /\ once' = Claimed(t)
          /\ Return(t, "pending", "PENDING", Nil)
       \/ /\ once # Fresh
          /\ Goto(t, "begin")
          /\ UNCHANGED <<once, flags, val, store, result, context>>
    /\ UNCHANGED <<next, call, failures>>

(* case 1: push this thread's slot on the list of waiters and wait. *)
Listed(p) == [state |-> "busy", ptr |-> p]

Join(t) ==
    /\ pc[t] = "decide"
    /\ val[t].state = "busy"
    /\ ~IsAsync(t)
    /\ \/ /\ once = val[t]
          /\ once' = Listed(t)
          /\ next' = [next EXCEPT ![t] = val[t].ptr]
          /\ Goto(t, "blocked")
       \/ /\ once # val[t]
          /\ Goto(t, "begin")
          /\ UNCHANGED <<once, next>>
    /\ UNCHANGED <<call, flags, val, store, result, context, failures>>

(* case 2, case 3, and case 1 for an asynchronous caller: nothing to wait for. *)
BeginReturns(t) ==
    /\ pc[t] = "decide"
    /\ \/ /\ val[t].state = "done"
          /\ Return(t, "idle", "SUCCESS", val[t].ptr)
       \/ /\ val[t].state = "async" /\ IsAsync(t)
          /\ Return(t, "pending", "PENDING", Nil)
       \/ /\ \/ val[t].state = "async" /\ ~IsAsync(t)
             \/ val[t].state = "busy" /\ IsAsync(t)
          /\ Return(t, "idle", "INVALID_PARAMETER", Nil)
    /\ UNCHANGED <<once, next, call, failures>>

-----------------------------------------------------------------------------
(* RtlRunOnceComplete, called by a thread whose begin returned              *)
(* STATUS_PENDING.  RtlRunOnceExecuteOnce calls it with what its callback   *)
(* returned and goes back to its caller whatever the status; the other      *)
(* threads choose flags and context, and call again when rejected.          *)

CompleteRejects(f, c) == \/ c \in Unaligned
                         \/ "InitFailed" \in f /\ (c # Nil \/ "Async" \in f)

CompleteArguments(t) ==
    IF call[t] = "execute"
      THEN ({{}} \X (Contexts \cup {Nil})) \cup {<<{"InitFailed"}, Nil>>}
      ELSE CompleteFlags \X (Contexts \cup {Nil})

(* Fault: any thread gives up. *)
GivesUp(t) == "idle"

AfterRejected(t) == IF call[t] = "execute" THEN "idle" ELSE "pending"

Stored(f, c) == IF "InitFailed" \in f THEN Fresh ELSE Done(c)

CompleteWith(t, f, c) ==
    /\ pc[t] = "pending"
    /\ ~CompleteRejects(f, c)
    /\ "InitFailed" \in f => failures < MaxFailures
    /\ Goto(t, "complete")
    /\ flags' = [flags EXCEPT ![t] = f]
    /\ store' = [store EXCEPT ![t] = Stored(f, c)]
    /\ failures' = IF "InitFailed" \in f THEN failures + 1 ELSE failures
    /\ UNCHANGED <<once, next, call, val, result, context>>

CompleteRejected(t) ==
    /\ pc[t] = "pending"
    /\ \E a \in CompleteArguments(t) : CompleteRejects(a[1], a[2])
    /\ Return(t, AfterRejected(t), "INVALID_PARAMETER", Nil)
    /\ UNCHANGED <<once, next, call, failures>>

Complete(t) == \E a \in CompleteArguments(t) : CompleteWith(t, a[1], a[2])

ReadToComplete(t) ==
    /\ pc[t] = "complete"
    /\ val' = [val EXCEPT ![t] = once]
    /\ Goto(t, "finish")
    /\ UNCHANGED <<once, next, call, flags, store, result, context, failures>>

(* What the thread gets in the end: RtlRunOnceExecuteOnce turns a failed    *)
(* callback into STATUS_UNSUCCESSFUL, and hands out the context otherwise.  *)
CompleteStatus(t) == IF call[t] # "execute" THEN "COMPLETED"
                     ELSE IF store[t] = Fresh THEN "UNSUCCESSFUL" ELSE "SUCCESS"
CompleteContext(t) == IF call[t] = "execute" THEN store[t].ptr ELSE Nil

(* Fault: the result is stored without comparing. *)
FinishBusyUnchecked(t) ==
    /\ pc[t] = "finish"
    /\ val[t].state = "busy"
    /\ once' = store[t]
    /\ IF val[t].ptr = Nil
         THEN Return(t, "idle", CompleteStatus(t), CompleteContext(t))
         ELSE Goto(t, "release") /\ UNCHANGED <<flags, val, store, result, context>>
    /\ UNCHANGED <<next, call, failures>>

(* Fault: after a failed initialisation the waiters are forgotten. *)
FinishBusyForgets(t) ==
    /\ pc[t] = "finish"
    /\ val[t].state = "busy"
    /\ \/ /\ once = val[t]
          /\ once' = store[t]
          /\ IF val[t].ptr = Nil \/ store[t] = Fresh
               THEN Return(t, "idle", CompleteStatus(t), CompleteContext(t))
               ELSE /\ Goto(t, "release")
                    /\ UNCHANGED <<flags, val, store, result, context>>
       \/ /\ once # val[t]
          /\ Goto(t, "complete")
          /\ UNCHANGED <<once, flags, val, store, result, context>>
    /\ UNCHANGED <<next, call, failures>>

(* case 1: publish, then release the waiters of the list taken with it. *)
FinishBusy(t) ==
    /\ pc[t] = "finish"
    /\ val[t].state = "busy"
    /\ \/ /\ once = val[t]
          /\ once' = store[t]
          /\ IF val[t].ptr = Nil
               THEN Return(t, "idle", CompleteStatus(t), CompleteContext(t))
               ELSE /\ Goto(t, "release")
                    /\ UNCHANGED <<flags, val, store, result, context>>
       \/ /\ once # val[t]
          /\ Goto(t, "complete")
          /\ UNCHANGED <<once, flags, val, store, result, context>>
    /\ UNCHANGED <<next, call, failures>>

(* Read the slot's next, then release its thread, which goes round again. *)
ReleaseWaiter(t) ==
    LET w == val[t].ptr
    IN  /\ pc[t] = "release"
        /\ w \in Threads
        /\ pc[w] = "blocked"
        /\ next' = [next EXCEPT ![w] = Nil]
        /\ IF next[w] = Nil
             THEN /\ pc' = [pc EXCEPT ![w] = "begin", ![t] = "idle"]
                  /\ Hand(t, CompleteStatus(t), CompleteContext(t))
                  /\ DropLocals(t)
             ELSE /\ pc' = [pc EXCEPT ![w] = "begin"]
                  /\ val' = [val EXCEPT ![t] = Listed(next[w])]
                  /\ UNCHANGED <<flags, store, result, context>>
        /\ UNCHANGED <<once, call, failures>>

(* Fault: the result is stored without comparing. *)
FinishAsyncUnchecked(t) ==
    /\ pc[t] = "finish"
    /\ val[t].state = "async"
    /\ "Async" \in flags[t]
    /\ once' = store[t]
    /\ Return(t, "idle", CompleteStatus(t), Nil)
    /\ UNCHANGED <<next, call, failures>>

(* case 3: the first of the asynchronous initialisers to complete wins. *)
FinishAsync(t) ==
    /\ pc[t] = "finish"
    /\ val[t].state = "async"
    /\ \/ /\ "Async" \notin flags[t]
          /\ Return(t, AfterRejected(t), "INVALID_PARAMETER", Nil)
          /\ UNCHANGED once
       \/ /\ "Async" \in flags[t]
          /\ once = val[t]
          /\ once' = store[t]
          /\ Return(t, "idle", CompleteStatus(t), Nil)
       \/ /\ "Async" \in flags[t]
          /\ once # val[t]
          /\ Goto(t, "complete")
          /\ UNCHANGED <<once, flags, val, store, result, context>>
    /\ UNCHANGED <<next, call, failures>>

FinishTooLate(t) ==
    /\ pc[t] = "finish"
    /\ val[t].state \in {"first", "done"}
    /\ Return(t, "idle", "UNSUCCESSFUL", Nil)
    /\ UNCHANGED <<once, next, call, failures>>

-----------------------------------------------------------------------------

Begin(t) == CheckOnly(t) \/ BeginInitialize(t)

Work(t) == \/ ReadOnce(t) \/ FirstTime(t) \/ Join(t) \/ BeginReturns(t)
           \/ ReadToComplete(t) \/ FinishBusy(t) \/ ReleaseWaiter(t)
           \/ FinishAsync(t) \/ FinishTooLate(t)

Next == \E t \in Threads : \/ Begin(t) \/ Work(t)
                           \/ Complete(t) \/ CompleteRejected(t)

(* Threads keep running, and one that was told to initialise does so in the *)
(* end, with arguments RtlRunOnceComplete accepts.                          *)
Initialises(t) ==
    \E c \in Contexts \cup {Nil} :
        CompleteWith(t, IF IsAsync(t) THEN {"Async"} ELSE {}, c)

Spec == Init /\ [][Next]_vars
Fairness == \A t \in Threads : WF_vars(Work(t)) /\ SF_vars(Initialises(t))

-----------------------------------------------------------------------------

Labels == {"idle", "begin", "decide", "blocked", "pending", "complete", "finish",
           "release"}
Statuses == {"none", "PENDING", "SUCCESS", "COMPLETED", "UNSUCCESSFUL",
             "INVALID_PARAMETER"}

(* Every variable has its type. *)
TypeOK == /\ once \in Word
          /\ next \in [Threads -> Slot]
          /\ pc \in [Threads -> Labels]
          /\ call \in [Threads -> {"sync", "async", "execute"}]
          /\ flags \in [Threads -> CompleteFlags]
          /\ val \in [Threads -> Word]
          /\ store \in [Threads -> Word]
          /\ result \in [Threads -> Statuses]
          /\ context \in [Threads -> Contexts \cup {Nil}]
          /\ failures \in 0..MaxFailures

(* Threads that have been told to initialise and have not yet published. *)
Initialising(t) == pc[t] \in {"pending", "complete", "finish"}

(* The one-time guarantee of RtlRunOnceBeginInitialize.  A synchronous      *)
(* initialiser is alone: no other thread, synchronous or not, has been told *)
(* to initialise and has not completed, and the word says so to everybody   *)
(* else until it has published.                                             *)
OneInitialiser ==
    \A t \in Threads : Initialising(t) /\ ~IsAsync(t)
        => /\ once.state = "busy"
           /\ \A u \in Threads : Initialising(u) => u = t

(* Whoever was handed a context was handed the one that is published, also  *)
(* when the attempts before it failed and when async initialisers raced.    *)
SameContextForAll ==
    \A t \in Threads : result[t] = "SUCCESS" => once = Done(context[t])

(* A published result is never replaced: no late RtlRunOnceComplete, and no *)
(* compare-and-swap on a stale value, writes a done word.                   *)
DoneIsFinal == [][once.state = "done" => once' = once]_once

(* The list: Target(s) is the waiter s leads to, where s is the word (Nil), *)
(* a waiter by its slot, or a thread that releases the waiters it took.     *)
Target(s) ==
    IF s = Nil THEN IF once.state = "busy" THEN once.ptr ELSE Nil
    ELSE CASE pc[s] = "blocked" -> next[s]
           [] pc[s] = "release" -> val[s].ptr
           [] OTHER -> Nil

(* Every blocked thread is on exactly one list, that of the word or that of *)
(* a thread releasing it, and every thread on a list is blocked: a release  *)
(* is never waiting for a thread that is gone, and no waiter is forgotten.  *)
(* That is: who is led to is blocked, and from one place; a releasing       *)
(* thread has a waiter left; and no set of blocked threads is cut off.  All *)
(* of it in well-typed states.                                              *)
WaitersOnOneList ==
    /\ TypeOK
    /\ \A s \in Slot : Target(s) # Nil => pc[Target(s)] = "blocked"
    /\ \A r, s \in Slot : Target(r) = Target(s) /\ Target(r) # Nil => r = s
    /\ \A t \in Threads : pc[t] = "release" => Target(t) # Nil
    /\ \A S \in SUBSET {t \in Threads : pc[t] = "blocked"} :
          S # {} => \E s \in Slot \ S : Target(s) \in S

(* The word says busy, and nobody is left to complete it. *)
LeftBusy == once.state = "busy" /\ \A t \in Threads : ~Initialising(t)

(* A word is left busy in one way only: RtlRunOnceExecuteOnce had a context *)
(* with a low bit set, returned the error and forgot that it had claimed    *)
(* the word.                                                                *)
LeftBusyOnlyUnaligned ==
    [][~LeftBusy /\ LeftBusy' =>
         /\ Unaligned # {}
         /\ \E t \in Threads : /\ pc[t] = "pending" /\ call[t] = "execute"
                               /\ result'[t] = "INVALID_PARAMETER"]_vars

(* Every RtlRunOnceBeginInitialize returns, however the initialisations it  *)
(* waits for end, unless the word was left busy.                            *)
EveryBeginReturns ==
    \A t \in Threads : pc[t] = "begin" ~> (pc[t] \in {"idle", "pending"} \/ LeftBusy)
=============================================================================
