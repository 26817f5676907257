---------------------------- MODULE SyncBarrier ----------------------------
(***************************************************************************)
(* Synchronization barriers (kernelex/synch.c).  The barrier keeps a count *)
(* of the threads still to come (Reserved1) and two manual-reset events,   *)
(* Reserved3[0] for the phase under way and Reserved3[1] for the next one; *)
(* the last thread to enter swaps them.  None of this is under a lock.     *)
(*                                                                         *)
(* A barrier for lTotalThreads threads is used by that many threads, each  *)
(* of which enters MaxPhases times.  After its last phase a thread may     *)
(* delete the barrier.                                                     *)
(***************************************************************************)
EXTENDS Integers, FiniteSets

CONSTANTS Threads,
          Modes,        \* the flags callers use: "default", "spinOnly", "blockOnly"
          Processors,   \* Reserved4
          MaxPhases,    \* bound on the calls of a thread
          DeleteAfter   \* the barrier is deleted if all made their last call with these flags

TotalThreads == Cardinality(Threads)   \* Reserved2
Events == {"event0", "event1"}
Null == "null"

ASSUME ThreadsAssumption == IsFiniteSet(Threads) /\ Threads # {}
ASSUME ModesAssumption == Modes \subseteq {"default", "spinOnly", "blockOnly"}
ASSUME BoundsAssumption == MaxPhases \in Nat /\ Processors \in Nat
ASSUME DeleteAfterAssumption == DeleteAfter \subseteq Modes

VARIABLES reserved1,   \* threads still to enter this phase
          reserved3,   \* reserved3[0], reserved3[1]: the event handles
          signalled,   \* the events that are set
          open,        \* the event handles that are open
          pc,
          mode,        \* mode[t]: its dwFlags
          hCurrent,    \* hCurrent[t], hDormant[t]: its copies of the handles
          hDormant,
          entered,     \* entered[t]: how often t has been counted
          passed,      \* passed[t]: how often t has returned
          wins         \* how many calls have returned TRUE

vars == <<reserved1, reserved3, signalled, open, pc, mode, hCurrent, hDormant,
          entered, passed, wins>>
barrier == <<reserved1, reserved3>>
events == <<signalled, open>>
locals == <<mode, hCurrent, hDormant>>
history == <<entered, passed, wins>>

(* InitializeSynchronizationBarrier has succeeded. *)
Init == /\ reserved1 = TotalThreads
        /\ reserved3 = [i \in {0, 1} |-> IF i = 0 THEN "event0" ELSE "event1"]
        /\ signalled = {}
        /\ open = Events
        /\ pc = [t \in Threads |-> "idle"]
        /\ mode = [t \in Threads |-> "none"]
        /\ hCurrent = [t \in Threads |-> Null]
        /\ hDormant = [t \in Threads |-> Null]
        /\ entered = [t \in Threads |-> 0]
        /\ passed = [t \in Threads |-> 0]
        /\ wins = 0

Goto(t, l) == pc' = [pc EXCEPT ![t] = l]

-----------------------------------------------------------------------------
(* EnterSynchronizationBarrier                                              *)

ReadCurrent(t) ==
    /\ pc[t] = "idle"
    /\ passed[t] < MaxPhases
    /\ \E m \in Modes : mode' = [mode EXCEPT ![t] = m]
    /\ hCurrent' = [hCurrent EXCEPT ![t] = reserved3[0]]
    /\ Goto(t, "entering")
    /\ UNCHANGED <<barrier, events, hDormant, history>>

ReadDormant(t) ==
    /\ pc[t] = "entering"
    /\ hDormant' = [hDormant EXCEPT ![t] = reserved3[1]]
    /\ Goto(t, "counting")
    /\ UNCHANGED <<barrier, events, mode, hCurrent, history>>

Spins(t, remaining) == \/ mode[t] = "spinOnly"
                       \/ remaining < Processors /\ mode[t] # "blockOnly"

(* Fault: two threads take themselves for the last. *)
CountDownTwoLast(t) ==
    LET remaining == reserved1 - 1
    IN  /\ pc[t] = "counting"
        /\ reserved1' = remaining
        /\ entered' = [entered EXCEPT ![t] = @ + 1]
        /\ Goto(t, IF remaining <= 1 THEN "reset"
                   ELSE IF Spins(t, remaining) THEN "spin" ELSE "block")
        /\ UNCHANGED <<reserved3, events, locals, passed, wins>>

(* InterlockedDecrement, whatever the count is, and where its result sends  *)
(* the thread; that the result is not negative is asserted, not enforced.   *)
CountDown(t) ==
    LET remaining == reserved1 - 1
    IN  /\ pc[t] = "counting"
        /\ reserved1' = remaining
        /\ entered' = [entered EXCEPT ![t] = @ + 1]
        /\ Goto(t, IF remaining <= 0 THEN "reset"
                   ELSE IF Spins(t, remaining) THEN "spin" ELSE "block")
        /\ UNCHANGED <<reserved3, events, locals, passed, wins>>

ReturnFalse(t) == /\ Goto(t, "idle")
                  /\ passed' = [passed EXCEPT ![t] = @ + 1]
                  /\ UNCHANGED <<entered, wins>>

SpinEnds(t) ==
    /\ pc[t] = "spin"
    /\ reserved3[0] # hCurrent[t]
    /\ ReturnFalse(t)
    /\ UNCHANGED <<barrier, events, locals>>

(* ++sp > dwSpinCount, which may come at any time. *)
SpinGivesUp(t) ==
    /\ pc[t] = "spin"
    /\ reserved3[0] = hCurrent[t]
    /\ mode[t] # "spinOnly"
    /\ Goto(t, "block")
    /\ UNCHANGED <<barrier, events, locals, history>>

(* WaitForSingleObject on a handle that is closed fails at once, and the    *)
(* result is not looked at.                                                 *)
Block(t) ==
    /\ pc[t] = "block"
    /\ IF hCurrent[t] \in open
         THEN Goto(t, "blocked") /\ UNCHANGED history
         ELSE ReturnFalse(t)
    /\ UNCHANGED <<barrier, events, locals>>

(* Fault: the events reset themselves. *)
UnblockResets(t) ==
    /\ pc[t] = "blocked"
    /\ hCurrent[t] \in signalled
    /\ signalled' = signalled \ {hCurrent[t]}
    /\ ReturnFalse(t)
    /\ UNCHANGED <<barrier, open, locals>>

Unblock(t) ==
    /\ pc[t] = "blocked"
    /\ hCurrent[t] \in signalled
    /\ ReturnFalse(t)
    /\ UNCHANGED <<barrier, events, locals>>

(* Fault: the event of the phase before stays set. *)
NoReset(t) ==
    /\ pc[t] = "reset"
    /\ Goto(t, "refill")
    /\ UNCHANGED <<barrier, events, locals, history>>

(* Fault: the spinning threads are let go before the count is refilled. *)
SwapBeforeRefill(t) ==
    /\ pc[t] = "reset"
    /\ signalled' = IF hDormant[t] \in open THEN signalled \ {hDormant[t]} ELSE signalled
    /\ reserved3' = [i \in {0, 1} |-> IF i = 0 THEN hDormant[t] ELSE hCurrent[t]]
    /\ Goto(t, "refill")
    /\ UNCHANGED <<reserved1, open, locals, history>>

(* The last thread: ResetEvent, the counter, the swap, SetEvent. *)
ResetDormant(t) ==
    /\ pc[t] = "reset"
    /\ signalled' = IF hDormant[t] \in open THEN signalled \ {hDormant[t]} ELSE signalled
    /\ Goto(t, "refill")
    /\ UNCHANGED <<barrier, open, locals, history>>

Refill(t) ==
    /\ pc[t] = "refill"
    /\ reserved1' = TotalThreads
    /\ Goto(t, "swap1")
    /\ UNCHANGED <<reserved3, events, locals, history>>

SwapDormant(t) ==
    /\ pc[t] = "swap1"
    /\ reserved3' = [reserved3 EXCEPT ![1] = hCurrent[t]]
    /\ Goto(t, "swap0")
    /\ UNCHANGED <<reserved1, events, locals, history>>

SwapCurrent(t) ==
    /\ pc[t] = "swap0"
    /\ reserved3' = [reserved3 EXCEPT ![0] = hDormant[t]]
    /\ Goto(t, "signal")
    /\ UNCHANGED <<reserved1, events, locals, history>>

(* Fault: the blocked threads are not signalled. *)
NoSignal(t) ==
    /\ pc[t] = "signal"
    /\ Goto(t, "idle")
    /\ passed' = [passed EXCEPT ![t] = @ + 1]
    /\ wins' = wins + 1
    /\ UNCHANGED <<barrier, events, locals, entered>>

Signal(t) ==
    /\ pc[t] = "signal"
    /\ signalled' = IF hCurrent[t] \in open THEN signalled \cup {hCurrent[t]} ELSE signalled
    /\ Goto(t, "idle")
    /\ passed' = [passed EXCEPT ![t] = @ + 1]
    /\ wins' = wins + 1
    /\ UNCHANGED <<barrier, open, locals, entered>>

-----------------------------------------------------------------------------

(* Wait until the counter is full, close both events, zero the barrier. *)
DeleteSynchronizationBarrier(t) ==
    /\ \A u \in Threads : mode[u] \in DeleteAfter
    /\ pc[t] = "idle"
    /\ passed[t] = MaxPhases
    /\ reserved3[0] # Null
    /\ reserved1 = TotalThreads
    /\ open' = open \ {reserved3[0], reserved3[1]}
    /\ reserved1' = 0
    /\ reserved3' = [i \in {0, 1} |-> Null]
    /\ UNCHANGED <<signalled, pc, locals, history>>

-----------------------------------------------------------------------------

Step(t) == \/ ReadCurrent(t) \/ ReadDormant(t) \/ CountDown(t) \/ SpinEnds(t)
           \/ Block(t) \/ Unblock(t) \/ ResetDormant(t) \/ Refill(t)
           \/ SwapDormant(t) \/ SwapCurrent(t) \/ Signal(t)

Next == \E t \in Threads : \/ Step(t) \/ SpinGivesUp(t)
                           \/ DeleteSynchronizationBarrier(t)

(* Every thread of the barrier keeps running, and comes back until its last *)
(* phase.                                                                   *)
Spec == Init /\ [][Next]_vars
FairSpec == Spec /\ \A t \in Threads : WF_vars(Step(t))

-----------------------------------------------------------------------------

Labels == {"idle", "entering", "counting", "spin", "block", "blocked", "reset",
           "refill", "swap1", "swap0", "signal"}

(* Types; the count is a LONG that may go below zero. *)
TypeOK == /\ reserved1 \in Int
          /\ reserved3 \in [{0, 1} -> Events \cup {Null}]
          /\ signalled \subseteq Events
          /\ open \subseteq Events
          /\ pc \in [Threads -> Labels]
          /\ mode \in [Threads -> Modes \cup {"none"}]
          /\ hCurrent \in [Threads -> Events \cup {Null}]
          /\ hDormant \in [Threads -> Events \cup {Null}]
          /\ entered \in [Threads -> 0..MaxPhases]
          /\ passed \in [Threads -> 0..MaxPhases]
          /\ wins \in 0..MaxPhases

(* assert(remainingThreads >= 0): no thread of the next phase counts itself *)
(* before the last one of this phase has refilled the count, however early  *)
(* the spinning and the blocked threads are let go.                         *)
AssertedCount == TypeOK /\ reserved1 >= 0

(* The barrier holds: nobody returns from a phase before everybody has      *)
(* entered it, whether it spun or blocked, and however fast the others come *)
(* back for the next phase.                                                 *)
NoEarlyReturn == \A t, u \in Threads : passed[t] <= entered[u]

(* Each phase has one serial thread: when everybody has returned from the   *)
(* same number of phases, that many calls have returned TRUE.               *)
OneSerialThread ==
    \A n \in 0..MaxPhases : (\A t \in Threads : passed[t] = n) => wins = n

(* The barrier may be deleted once a call has returned: a thread that is    *)
(* still blocked in EnterSynchronizationBarrier has been, or can still be,  *)
(* released.                                                                *)
SafeToDelete ==
    \A t \in Threads : pc[t] = "blocked" => hCurrent[t] \in signalled \cup open

(* Every thread gets through all its phases. *)
AllPhasesPass == <>(\A t \in Threads : passed[t] = MaxPhases)
=============================================================================
