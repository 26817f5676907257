------------------------- MODULE SyncBarrierProofs -------------------------
(***************************************************************************)
(* Theorems about SyncBarrier, for any number of threads, phases and       *)
(* processors and any mix of flags.                                        *)
(*                                                                         *)
(* The invariant is stated for the round n the barrier is in: n counts the *)
(* swaps of the current event (SwapCurrent).  In round n a thread has not  *)
(* been counted yet, has been counted and waits for the swap, or still has *)
(* to return from the round before.                                        *)
(***************************************************************************)
EXTENDS SyncBarrier, FiniteSetTheorems, TLAPS

Other(e) == IF e = "event0" THEN "event1" ELSE "event0"

Counted(n) == {t \in Threads : entered[t] = n + 1}

(* The last thread to be counted, on its way to the swap. *)
Flipping(t) == pc[t] \in {"reset", "refill", "swap1", "swap0"}
Signaller(t) == pc[t] = "signal"

Live == reserved3[0] # Null

(* Where a thread may be in round n. *)
NotCounted(t, n) == /\ pc[t] \in {"idle", "entering", "counting"}
                    /\ entered[t] = n /\ passed[t] = n
InRound(t, n) == /\ pc[t] \in {"spin", "block", "blocked"} \/ Flipping(t)
                 /\ entered[t] = n + 1 /\ passed[t] = n
Lagging(t, n) == /\ pc[t] \in {"spin", "block", "blocked", "signal"}
                 /\ entered[t] = n /\ passed[t] + 1 = n

Places(n) == \A t \in Threads : /\ NotCounted(t, n) \/ InRound(t, n) \/ Lagging(t, n)
                                /\ pc[t] # "idle" => passed[t] < MaxPhases
                                /\ pc[t] = "spin" => mode[t] # "blockOnly"
                                /\ mode[t] # "none" => MaxPhases > 0

(* The copies of the handles agree with the barrier and with the round. *)
Handles(n) ==
    /\ reserved3[0] \in Events
    /\ open = Events
    /\ reserved3[1] = IF \E t \in Threads : pc[t] = "swap0"
                        THEN reserved3[0] ELSE Other(reserved3[0])
    /\ \A t \in Threads :
         /\ pc[t] \in {"entering", "counting"} \/ InRound(t, n) => hCurrent[t] = reserved3[0]
         /\ pc[t] = "counting" \/ InRound(t, n) => hDormant[t] = Other(reserved3[0])
         /\ Lagging(t, n) => hCurrent[t] = Other(reserved3[0])

(* The count, and the one thread that sees it reach zero. *)
Counter(n) ==
    /\ reserved1 = IF \E t \in Threads : pc[t] \in {"swap1", "swap0"}
                     THEN TotalThreads ELSE TotalThreads - Cardinality(Counted(n))
    /\ \A t, u \in Threads : Flipping(t) /\ Flipping(u) => t = u
    /\ Counted(n) = Threads <=> \E t \in Threads : Flipping(t)

(* The event of this round is clear; that of the round before is set, or    *)
(* will be, as long as a thread waits for it.                               *)
Signals(n) ==
    /\ reserved3[0] \notin signalled
    /\ \A t \in Threads : pc[t] \in {"refill", "swap1", "swap0"}
                            => Other(reserved3[0]) \notin signalled
    /\ \A t \in Threads : Signaller(t) => Other(reserved3[0]) \notin signalled
    /\ \A t \in Threads : Lagging(t, n) => \/ Other(reserved3[0]) \in signalled
                                           \/ \E u \in Threads : Signaller(u)

(* One call of each round but this returns TRUE. *)
Winners(n) ==
    /\ \A t, u \in Threads : Signaller(t) /\ Signaller(u) => t = u
    /\ wins = IF \E t \in Threads : Signaller(t) THEN n - 1 ELSE n
    /\ n > 0 /\ (\A t \in Threads : ~Signaller(t)) => \E t \in Threads : passed[t] = n

(* A thread that has only blocked has returned after the signal. *)
BlockedIsLast(n) ==
    \A t \in Threads : n > 0 /\ NotCounted(t, n) /\ pc[t] = "idle" /\ mode[t] = "blockOnly"
                         => \A u \in Threads : ~Signaller(u)

(* After DeleteSynchronizationBarrier. *)
Deleted(n) ==
    /\ n = MaxPhases /\ n > 0
    /\ reserved1 = 0 /\ reserved3[1] = Null /\ open = {}
    /\ \A t \in Threads : /\ NotCounted(t, n) \/ Lagging(t, n)
                          /\ NotCounted(t, n) => pc[t] = "idle"
                          /\ Lagging(t, n) => hCurrent[t] \in Events
                          /\ DeleteAfter \subseteq {"blockOnly"} /\ pc[t] = "blocked"
                               => hCurrent[t] \in signalled

RoundInv(n) == /\ Places(n) /\ Winners(n)
               /\ Live => Handles(n) /\ Counter(n) /\ Signals(n) /\ BlockedIsLast(n)
               /\ ~Live => Deleted(n)

BarrierInv == /\ TypeOK
              /\ \E n \in 0..MaxPhases : RoundInv(n)

-----------------------------------------------------------------------------
(* The number of threads is positive; fewer of them counted than there are  *)
(* means that one is missing.                                               *)
LEMMA CountedIsFinite ==
  ASSUME NEW n \in Nat
  PROVE  /\ IsFiniteSet(Counted(n))
         /\ Cardinality(Counted(n)) \in 0..TotalThreads
         /\ Cardinality(Counted(n)) = TotalThreads => Counted(n) = Threads
         /\ TotalThreads \in Nat /\ TotalThreads > 0
<1>1. Counted(n) \in SUBSET Threads
  BY DEF Counted
<1>2. TotalThreads \in Nat /\ TotalThreads > 0
  BY ThreadsAssumption, FS_CardinalityType, FS_EmptySet DEF TotalThreads
<1>3. /\ IsFiniteSet(Counted(n))
      /\ Cardinality(Counted(n)) <= TotalThreads
      /\ Cardinality(Counted(n)) = TotalThreads => Counted(n) = Threads
  BY <1>1, ThreadsAssumption, FS_Subset DEF TotalThreads
<1>4. Cardinality(Counted(n)) \in Nat
  BY <1>3, FS_CardinalityType
<1> QED
  BY <1>2, <1>3, <1>4

(* The two events are each other's other. *)
LEMMA OtherEvent ==
  ASSUME NEW e \in Events
  PROVE  Other(e) \in Events /\ Other(e) # e /\ Other(Other(e)) = e /\ e # Null
  BY DEF Events, Other, Null

(* Entering: the barrier is there, and its handles are of this round. *)
LEMMA ReadCurrentKeeps ==
  ASSUME TypeOK, NEW n \in 0..MaxPhases, RoundInv(n), NEW t \in Threads, ReadCurrent(t)
  PROVE  TypeOK' /\ RoundInv(n)'
<1> USE BoundsAssumption DEF ReadCurrent, Goto, RoundInv, NotCounted, InRound, Lagging,
        Flipping, Signaller, TypeOK, Labels, barrier, events, locals, history
<1>1. Live /\ Live'
  BY DEF Places, Deleted, Live
<1>2. TypeOK'
  BY <1>1 DEF Handles, Places
<1>3. Places(n)'
  BY DEF Places
<1>4. Winners(n)'
  BY DEF Winners, Places
<1>5. Handles(n)'
  BY <1>1 DEF Handles
<1>6. Counter(n)'
  BY <1>1 DEF Counter, Counted
<1>7. Signals(n)'
  BY <1>1 DEF Signals
<1>8. BlockedIsLast(n)'
  BY <1>1 DEF BlockedIsLast
<1> QED
  BY <1>1, <1>2, <1>3, <1>4, <1>5, <1>6, <1>7, <1>8

(* A thread that is not counted yet keeps the swap from being made. *)
LEMMA ReadDormantKeeps ==
  ASSUME TypeOK, NEW n \in 0..MaxPhases, RoundInv(n), NEW t \in Threads, ReadDormant(t)
  PROVE  TypeOK' /\ RoundInv(n)'
<1> USE BoundsAssumption DEF ReadDormant, Goto, RoundInv, NotCounted, InRound, Lagging,
        Flipping, Signaller, TypeOK, Labels, barrier, events, locals, history
<1>1. Live /\ Live'
  BY DEF Places, Deleted, Live
<1>0. \A u \in Threads : ~Flipping(u)
  <2>1. t \notin Counted(n)
    BY DEF Places, Counted
  <2> QED
    BY <1>1, <2>1 DEF Counter
<1>2. TypeOK'
  BY <1>1 DEF Handles, Places
<1>3. Places(n)'
  BY DEF Places
<1>4. Winners(n)'
  BY DEF Winners, Places
<1>5. Handles(n)'
  BY <1>0, <1>1 DEF Handles
<1>6. Counter(n)'
  BY <1>1 DEF Counter, Counted
<1>7. Signals(n)'
  BY <1>1 DEF Signals
<1>8. BlockedIsLast(n)'
  BY <1>1 DEF BlockedIsLast
<1> QED
  BY <1>1, <1>2, <1>3, <1>4, <1>5, <1>6, <1>7, <1>8

(* A thread is counted; the one that makes the count complete is alone in   *)
(* seeing zero.                                                             *)
LEMMA CountDownKeeps ==
  ASSUME TypeOK, NEW n \in 0..MaxPhases, RoundInv(n), NEW t \in Threads, CountDown(t)
  PROVE  TypeOK' /\ RoundInv(n)'
<1> USE BoundsAssumption DEF CountDown, Goto, RoundInv, NotCounted, InRound, Lagging,
        Flipping, Signaller, TypeOK, Labels, barrier, events, locals, history, Spins
<1>1. Live /\ Live'
  BY DEF Places, Deleted, Live
<1>c. /\ t \notin Counted(n)
      /\ Counted(n)' = Counted(n) \cup {t}
      /\ Cardinality(Counted(n)') = Cardinality(Counted(n)) + 1
  <2>1. t \notin Counted(n) /\ Counted(n)' = Counted(n) \cup {t}
    BY DEF Counted, Places
  <2> QED
    <3>1. IsFiniteSet(Counted(n))
      BY CountedIsFinite
    <3>2. Cardinality(Counted(n) \cup {t}) = Cardinality(Counted(n)) + 1
      BY <2>1, <3>1, FS_AddElement
    <3> QED
      BY <2>1, <3>2
<1>d. /\ \A u \in Threads : ~Flipping(u)
      /\ reserved1 = TotalThreads - Cardinality(Counted(n))
  BY <1>1, <1>c DEF Counter
<1>e. Counted(n)' = Threads <=> reserved1' = 0
  <2>1. Counted(n)' = Threads => Cardinality(Counted(n)') = TotalThreads
    BY DEF TotalThreads
  <2>2. Counted(n)' \in SUBSET Threads
    BY DEF Counted
  <2>3. Cardinality(Counted(n)') = TotalThreads => Counted(n)' = Threads
    BY <2>2, ThreadsAssumption, FS_Subset DEF TotalThreads
  <2>4. reserved1' = TotalThreads - Cardinality(Counted(n)')
    BY <1>c, <1>d, CountedIsFinite
  <2>5. Cardinality(Counted(n)') \in Nat /\ TotalThreads \in Nat
    BY <1>c, CountedIsFinite
  <2> QED
    BY <2>1, <2>3, <2>4, <2>5
<1>2. TypeOK'
  BY <1>1, <1>d, CountedIsFinite DEF Handles, Places
<1>3. Places(n)'
  BY <1>d DEF Places
<1>4. Winners(n)'
  BY <1>d DEF Winners, Places
<1>5. Handles(n)'
  BY <1>1, <1>d DEF Handles, Places
<1>6. Counter(n)'
  BY <1>1, <1>c, <1>d, <1>e, CountedIsFinite DEF Counter
<1>7. Signals(n)'
  BY <1>1, <1>d DEF Signals, Places
<1>8. BlockedIsLast(n)'
  BY <1>1 DEF BlockedIsLast
<1> QED
  BY <1>1, <1>2, <1>3, <1>4, <1>5, <1>6, <1>7, <1>8

(* A spinning thread leaves only once the event has been swapped. *)
LEMMA SpinEndsKeeps ==
  ASSUME TypeOK, NEW n \in 0..MaxPhases, RoundInv(n), NEW t \in Threads, SpinEnds(t)
  PROVE  TypeOK' /\ RoundInv(n)'
<1> USE BoundsAssumption DEF SpinEnds, Goto, RoundInv, NotCounted, InRound, Lagging,
        Flipping, Signaller, TypeOK, Labels, barrier, events, locals, history, ReturnFalse
<1>1. Live' <=> Live
  BY DEF Live
<1>0. Lagging(t, n)
  BY DEF Places, Handles, Signals, Deleted, Live
<1>2. TypeOK'
  BY DEF Handles, Places
<1>3. Places(n)'
  BY <1>0 DEF Places
<1>4. Winners(n)'
  BY <1>0 DEF Winners, Places
<1>5. CASE Live
  <2>1. Handles(n)'
    BY <1>0, <1>5 DEF Handles, Places
  <2>2. Counter(n)'
    BY <1>5 DEF Counter, Counted
  <2>3. Signals(n)'
    BY <1>5 DEF Signals
  <2>4. BlockedIsLast(n)'
    BY <1>5 DEF BlockedIsLast, Places
  <2> QED
    BY <1>1, <1>2, <1>3, <1>4, <1>5, <2>1, <2>2, <2>3, <2>4
<1>6. CASE ~Live
  <2>1. Deleted(n)'
    BY <1>6 DEF Deleted, Live
  <2> QED
    BY <1>1, <1>2, <1>3, <1>4, <1>6, <2>1
<1> QED
  BY <1>5, <1>6

(* Whether a thread spins or blocks is nothing to the others. *)
LEMMA SpinGivesUpKeeps ==
  ASSUME TypeOK, NEW n \in 0..MaxPhases, RoundInv(n), NEW t \in Threads, SpinGivesUp(t)
  PROVE  TypeOK' /\ RoundInv(n)'
<1> USE BoundsAssumption DEF SpinGivesUp, Goto, RoundInv, NotCounted, InRound, Lagging,
        Flipping, Signaller, TypeOK, Labels, barrier, events, locals, history
<1>1. Live' <=> Live
  BY DEF Live
<1>2. TypeOK'
  BY DEF Handles, Places
<1>3. Places(n)'
  BY DEF Places
<1>4. Winners(n)'
  BY DEF Winners, Places
<1>5. CASE Live
  <2>1. Handles(n)'
    BY <1>5 DEF Handles, Places
  <2>2. Counter(n)'
    BY <1>5 DEF Counter, Counted
  <2>3. Signals(n)'
    BY <1>5 DEF Signals
  <2>4. BlockedIsLast(n)'
    BY <1>5 DEF BlockedIsLast, Places
  <2> QED
    BY <1>1, <1>2, <1>3, <1>4, <1>5, <2>1, <2>2, <2>3, <2>4
<1>6. CASE ~Live
  <2>1. Deleted(n)'
    BY <1>6 DEF Deleted, Live
  <2> QED
    BY <1>1, <1>2, <1>3, <1>4, <1>6, <2>1
<1> QED
  BY <1>5, <1>6

(* A thread finds its event closed only after the last round. *)
LEMMA BlockKeeps ==
  ASSUME TypeOK, NEW n \in 0..MaxPhases, RoundInv(n), NEW t \in Threads, Block(t)
  PROVE  TypeOK' /\ RoundInv(n)'
<1> USE BoundsAssumption DEF Block, Goto, RoundInv, NotCounted, InRound, Lagging,
        Flipping, Signaller, TypeOK, Labels, barrier, events, locals, history, ReturnFalse
<1>1. Live' <=> Live
  BY DEF Live
<1>0. IF Live THEN pc' = [pc EXCEPT ![t] = "blocked"] /\ UNCHANGED <<entered, passed, wins>>
              ELSE Lagging(t, n) /\ pc' = [pc EXCEPT ![t] = "idle"]
  <2>1. CASE Live
    <3>1. hCurrent[t] \in open
      BY <2>1, OtherEvent DEF Handles, Places
    <3> QED
      BY <2>1, <3>1
  <2>2. CASE ~Live
    BY <2>2 DEF Deleted
  <2> QED
    BY <2>1, <2>2
<1>2. TypeOK'
  BY DEF Handles, Places
<1>3. Places(n)'
  BY <1>0 DEF Places
<1>4. Winners(n)'
  BY <1>0 DEF Winners, Places
<1>5. CASE Live
  <2>1. Handles(n)'
    BY <1>5 DEF Handles, Places
  <2>2. Counter(n)'
    <3>1. Counted(n)' = Counted(n) /\ reserved1' = reserved1
      BY DEF Counted
    <3>2. \A u \in Threads : /\ Flipping(u)' <=> Flipping(u)
                             /\ (pc[u] \in {"swap1", "swap0"})' <=> pc[u] \in {"swap1", "swap0"}
      OBVIOUS
    <3> QED
      BY <1>5, <3>1, <3>2 DEF Counter
  <2>3. Signals(n)'
    BY <1>5 DEF Signals
  <2>4. BlockedIsLast(n)'
    BY <1>0, <1>5 DEF BlockedIsLast
  <2> QED
    BY <1>1, <1>2, <1>3, <1>4, <1>5, <2>1, <2>2, <2>3, <2>4
<1>6. CASE ~Live
  <2>1. Deleted(n)'
    BY <1>6 DEF Deleted, Live
  <2> QED
    BY <1>1, <1>2, <1>3, <1>4, <1>6, <2>1
<1> QED
  BY <1>5, <1>6

(* A blocked thread leaves only if its round is over. *)
LEMMA UnblockKeeps ==
  ASSUME TypeOK, NEW n \in 0..MaxPhases, RoundInv(n), NEW t \in Threads, Unblock(t)
  PROVE  TypeOK' /\ RoundInv(n)'
<1> USE BoundsAssumption DEF Unblock, Goto, RoundInv, NotCounted, InRound, Lagging,
        Flipping, Signaller, TypeOK, Labels, barrier, events, locals, history, ReturnFalse
<1>1. Live' <=> Live
  BY DEF Live
<1>0. Lagging(t, n)
  BY DEF Places, Handles, Signals, Deleted, Live
<1>2. TypeOK'
  BY DEF Handles, Places
<1>3. Places(n)'
  BY <1>0 DEF Places
<1>4. Winners(n)'
  BY <1>0 DEF Winners, Places
<1>5. CASE Live
  <2>1. Handles(n)'
    BY <1>0, <1>5 DEF Handles, Places
  <2>2. Counter(n)'
    BY <1>5 DEF Counter, Counted
  <2>3. Signals(n)'
    BY <1>5 DEF Signals
  <2>4. BlockedIsLast(n)'
    BY <1>0, <1>5 DEF BlockedIsLast, Places, Handles, Signals
  <2> QED
    BY <1>1, <1>2, <1>3, <1>4, <1>5, <2>1, <2>2, <2>3, <2>4
<1>6. CASE ~Live
  <2>1. Deleted(n)'
    BY <1>6 DEF Deleted, Live
  <2> QED
    BY <1>1, <1>2, <1>3, <1>4, <1>6, <2>1
<1> QED
  BY <1>5, <1>6

(* The event of the round before is reset when everybody has left it. *)
LEMMA ResetDormantKeeps ==
  ASSUME TypeOK, NEW n \in 0..MaxPhases, RoundInv(n), NEW t \in Threads, ResetDormant(t)
  PROVE  TypeOK' /\ RoundInv(n)'
<1> USE BoundsAssumption DEF ResetDormant, Goto, RoundInv, NotCounted, InRound, Lagging,
        Flipping, Signaller, TypeOK, Labels, barrier, events, locals, history
<1>1. Live /\ Live'
  BY DEF Places, Deleted, Live
<1>0. /\ hDormant[t] = Other(reserved3[0]) /\ hDormant[t] \in open
      /\ \A u \in Threads : entered[u] = n + 1
  BY <1>1, OtherEvent DEF Handles, Counter, Counted, Places
<1>2. TypeOK'
  BY <1>1 DEF Handles, Places
<1>3. Places(n)'
  BY DEF Places
<1>4. Winners(n)'
  BY DEF Winners, Places
<1>5. Handles(n)'
  BY <1>1 DEF Handles
<1>6. Counter(n)'
  BY <1>1 DEF Counter, Counted
<1>7. Signals(n)'
  BY <1>0, <1>1, OtherEvent DEF Signals, Handles
<1>8. BlockedIsLast(n)'
  BY <1>1 DEF BlockedIsLast
<1> QED
  BY <1>1, <1>2, <1>3, <1>4, <1>5, <1>6, <1>7, <1>8

(* The count is filled while everybody is in the round. *)
LEMMA RefillKeeps ==
  ASSUME TypeOK, NEW n \in 0..MaxPhases, RoundInv(n), NEW t \in Threads, Refill(t)
  PROVE  TypeOK' /\ RoundInv(n)'
<1> USE BoundsAssumption DEF Refill, Goto, RoundInv, NotCounted, InRound, Lagging,
        Flipping, Signaller, TypeOK, Labels, barrier, events, locals, history
<1>1. Live /\ Live'
  BY DEF Places, Deleted, Live
<1>2. TypeOK'
  BY <1>1, CountedIsFinite DEF Handles, Places
<1>3. Places(n)'
  BY DEF Places
<1>4. Winners(n)'
  BY DEF Winners, Places
<1>5. Handles(n)'
  BY <1>1 DEF Handles
<1>6. Counter(n)'
  BY <1>1 DEF Counter, Counted
<1>7. Signals(n)'
  BY <1>1 DEF Signals
<1>8. BlockedIsLast(n)'
  BY <1>1 DEF BlockedIsLast
<1> QED
  BY <1>1, <1>2, <1>3, <1>4, <1>5, <1>6, <1>7, <1>8

(* The first half of the swap is seen by nobody. *)
LEMMA SwapDormantKeeps ==
  ASSUME TypeOK, NEW n \in 0..MaxPhases, RoundInv(n), NEW t \in Threads, SwapDormant(t)
  PROVE  TypeOK' /\ RoundInv(n)'
<1> USE BoundsAssumption DEF SwapDormant, Goto, RoundInv, NotCounted, InRound, Lagging,
        Flipping, Signaller, TypeOK, Labels, barrier, events, locals, history
<1>1. Live /\ Live'
  BY DEF Places, Deleted, Live
<1>2. TypeOK'
  BY <1>1 DEF Handles, Places
<1>3. Places(n)'
  BY DEF Places
<1>4. Winners(n)'
  BY DEF Winners, Places
<1>5. Handles(n)'
  BY <1>1, OtherEvent DEF Handles, Places, Counter
<1>6. Counter(n)'
  BY <1>1 DEF Counter, Counted
<1>7. Signals(n)'
  BY <1>1 DEF Signals
<1>8. BlockedIsLast(n)'
  BY <1>1 DEF BlockedIsLast
<1> QED
  BY <1>1, <1>2, <1>3, <1>4, <1>5, <1>6, <1>7, <1>8

(* The last thread returns TRUE. *)
LEMMA SignalKeeps ==
  ASSUME TypeOK, NEW n \in 0..MaxPhases, RoundInv(n), NEW t \in Threads, Signal(t)
  PROVE  TypeOK' /\ RoundInv(n)'
<1> USE BoundsAssumption DEF Signal, Goto, RoundInv, NotCounted, InRound, Lagging,
        Flipping, Signaller, TypeOK, Labels, barrier, events, locals, history
<1>1. Live' <=> Live
  BY DEF Live
<1>0. /\ Lagging(t, n) /\ wins = n - 1 /\ n > 0
      /\ \A u \in Threads \ {t} : ~Signaller(u)
      /\ Live => hCurrent[t] = Other(reserved3[0]) /\ hCurrent[t] \in open
  BY OtherEvent DEF Places, Winners, Handles
<1>2. TypeOK'
  BY <1>0 DEF Places
<1>3. Places(n)'
  BY DEF Places
<1>4. Winners(n)'
  BY DEF Winners, Places
<1>5. CASE Live
  <2>1. Handles(n)'
    BY <1>5 DEF Handles, Places
  <2>2. Counter(n)'
    BY <1>5 DEF Counter, Counted
  <2>3. Signals(n)'
    BY <1>0, <1>5, OtherEvent DEF Signals, Handles, Counter, Counted
  <2>4. BlockedIsLast(n)'
    BY <1>0, <1>5 DEF BlockedIsLast, Places
  <2> QED
    BY <1>1, <1>2, <1>3, <1>4, <1>5, <2>1, <2>2, <2>3, <2>4
<1>6. CASE ~Live
  <2>1. Deleted(n)'
    BY <1>6 DEF Deleted, Live
  <2> QED
    BY <1>1, <1>2, <1>3, <1>4, <1>6, <2>1
<1> QED
  BY <1>5, <1>6

(* The swap: the round is over, everybody who was counted may go, and the   *)
(* next round begins with nobody counted.                                   *)
LEMMA SwapCurrentTurns ==
  ASSUME TypeOK, NEW n \in 0..MaxPhases, RoundInv(n), NEW t \in Threads, SwapCurrent(t)
  PROVE  TypeOK' /\ n + 1 \in 0..MaxPhases /\ RoundInv(n + 1)'
<1> USE BoundsAssumption DEF SwapCurrent, Goto, RoundInv, NotCounted, InRound, Lagging,
        Flipping, Signaller, TypeOK, Labels, barrier, events, locals, history
<1>1. Live /\ n + 1 \in 0..MaxPhases
  BY DEF Places, Deleted, Live
<1>2. /\ \A u \in Threads : InRound(u, n) /\ (u # t => ~Flipping(u))
      /\ reserved3[0] \in Events /\ reserved3[1] = reserved3[0]
      /\ hCurrent[t] = reserved3[0] /\ hDormant[t] = Other(reserved3[0])
  BY <1>1 DEF Places, Counter, Counted, Handles
<1>3. /\ reserved3'[0] = Other(reserved3[0]) /\ reserved3'[1] = reserved3[0]
      /\ Other(reserved3'[0]) = reserved3[0] /\ reserved3'[0] \in Events /\ Live'
  BY <1>2, OtherEvent DEF Live
<1>4. TypeOK'
  BY <1>2, <1>3
<1>5. Places(n + 1)'
  BY <1>2 DEF Places
<1>6. Winners(n + 1)'
  BY <1>1, <1>2 DEF Winners
<1>7. Handles(n + 1)'
  BY <1>1, <1>2, <1>3 DEF Handles
<1>8. Counter(n + 1)'
  <2>1. Counted(n + 1)' = {}
    BY <1>2 DEF Counted
  <2>2. reserved1' = TotalThreads
    BY <1>1 DEF Counter
  <2>3. TotalThreads - Cardinality({}) = TotalThreads
    BY FS_EmptySet, CountedIsFinite
  <2> QED
    BY <1>2, <2>1, <2>2, <2>3, ThreadsAssumption DEF Counter
<1>9. Signals(n + 1)'
  BY <1>1, <1>2, <1>3 DEF Signals
<1>10. BlockedIsLast(n + 1)'
  BY <1>1, <1>2 DEF BlockedIsLast
<1> QED
  BY <1>1, <1>3, <1>4, <1>5, <1>6, <1>7, <1>8, <1>9, <1>10

(* A thread that is through with its last phase deletes the barrier: all    *)
(* others have been counted for that phase, and nobody comes back.          *)
LEMMA DeleteKeeps ==
  ASSUME TypeOK, NEW n \in 0..MaxPhases, RoundInv(n), NEW t \in Threads,
         DeleteSynchronizationBarrier(t)
  PROVE  TypeOK' /\ RoundInv(n)'
<1> USE BoundsAssumption DEF DeleteSynchronizationBarrier, RoundInv, NotCounted, InRound,
        Lagging, Flipping, Signaller, TypeOK, Labels, locals, history
<1>1. Live /\ ~Live'
  BY DEF Live
<1>2. /\ n = MaxPhases /\ mode[t] \in Modes /\ mode[t] # "none"
      /\ \A u \in Threads : mode[u] \in DeleteAfter /\ ~InRound(u, n)
      /\ \A u \in Threads : NotCounted(u, n) => pc[u] = "idle"
  BY DeleteAfterAssumption, ModesAssumption DEF Places
<1>3. open' = {} /\ reserved3'[1] = Null
  <2>1. reserved3[1] = Other(reserved3[0]) /\ reserved3[0] \in Events /\ open = Events
    BY <1>1, <1>2 DEF Handles, Places
  <2> QED
    BY <2>1 DEF Events, Other
<1>4. TypeOK'
  <2>1. reserved3' \in [{0, 1} -> Events \cup {Null}]
    BY DEF Null
  <2> QED
    BY <1>3, <2>1, CountedIsFinite
<1>5. Places(n)'
  BY DEF Places
<1>6. Winners(n)'
  BY DEF Winners
<1>7. n > 0
  BY <1>2 DEF Places
<1>8. Deleted(n)'
  <2>1. \A u \in Threads : Lagging(u, n) => hCurrent[u] \in Events
    BY <1>1, OtherEvent DEF Handles
  <2>2. ASSUME DeleteAfter \subseteq {"blockOnly"}, NEW u \in Threads, pc[u] = "blocked"
        PROVE  hCurrent[u] \in signalled
    <3>1. mode[t] = "blockOnly" /\ NotCounted(t, n) /\ Lagging(u, n)
      BY <1>2, <2>2 DEF Places
    <3>2. \A v \in Threads : ~Signaller(v)
      BY <1>1, <1>7, <3>1 DEF BlockedIsLast
    <3> QED
      BY <1>1, <3>1, <3>2 DEF Signals, Handles
  <2> QED
    BY <1>2, <1>3, <1>7, <2>1, <2>2 DEF Deleted, Places
<1> QED
  BY <1>1, <1>4, <1>5, <1>6, <1>8

-----------------------------------------------------------------------------
(* Every step keeps the round, or turns to the next one. *)
LEMMA BarrierStep == BarrierInv /\ [Next]_vars => BarrierInv'
<1> SUFFICES ASSUME BarrierInv, [Next]_vars PROVE BarrierInv'
  OBVIOUS
<1>1. PICK n \in 0..MaxPhases : RoundInv(n)
  BY DEF BarrierInv
<1>2. TypeOK
  BY DEF BarrierInv
<1>3. CASE UNCHANGED vars
  <2>1. TypeOK' /\ RoundInv(n)'
    BY <1>1, <1>2, <1>3 DEF vars, TypeOK, RoundInv, Live, Places, Winners, Handles, Counter,
       Counted, Signals, BlockedIsLast, Deleted, NotCounted, InRound, Lagging, Flipping,
       Signaller
  <2> QED
    BY <2>1 DEF BarrierInv
<1>4. ASSUME NEW t \in Threads,
             Step(t) \/ SpinGivesUp(t) \/ DeleteSynchronizationBarrier(t)
      PROVE  BarrierInv'
  <2>1. CASE SwapCurrent(t)
    BY <1>1, <1>2, <2>1, SwapCurrentTurns DEF BarrierInv
  <2>2. CASE ~SwapCurrent(t)
    <3>1. TypeOK' /\ RoundInv(n)'
      BY <1>1, <1>2, <1>4, <2>2, ReadCurrentKeeps, ReadDormantKeeps, CountDownKeeps,
         SpinEndsKeeps, SpinGivesUpKeeps, BlockKeeps, UnblockKeeps, ResetDormantKeeps,
         RefillKeeps, SwapDormantKeeps, SignalKeeps, DeleteKeeps DEF Step
    <3> QED
      BY <3>1 DEF BarrierInv
  <2> QED
    BY <2>1, <2>2
<1> QED
  BY <1>3, <1>4 DEF Next

(* A new barrier is in round 0. *)
LEMMA BarrierInit == Init => BarrierInv
<1> SUFFICES ASSUME Init PROVE BarrierInv
  OBVIOUS
<1> USE BoundsAssumption DEF Init, NotCounted, InRound, Lagging, Flipping, Signaller
<1>1. TypeOK
  BY CountedIsFinite DEF TypeOK, Labels, Events, Null
<1>2. Counted(0) = {}
  BY DEF Counted
<1>3. Counter(0)
  <2>1. TotalThreads - Cardinality({}) = TotalThreads
    BY FS_EmptySet, CountedIsFinite
  <2> QED
    BY <1>2, <2>1, ThreadsAssumption DEF Counter
<1>4. Places(0) /\ Winners(0) /\ Handles(0) /\ Signals(0) /\ BlockedIsLast(0) /\ Live
  BY DEF Places, Winners, Handles, Signals, BlockedIsLast, Live, Events, Other, Null
<1>5. RoundInv(0)
  BY <1>3, <1>4 DEF RoundInv
<1> QED
  BY <1>1, <1>5 DEF BarrierInv

(* The round invariant holds of every barrier. *)
THEOREM BarrierInvariant == Spec => []BarrierInv
  BY BarrierInit, BarrierStep, PTL DEF Spec

(* The assertion of EnterSynchronizationBarrier never fails: the decrement  *)
(* finds a thread of the phase still missing, because the refill comes      *)
(* before the swap that lets the first thread into the next phase.  For any *)
(* number of threads and phases.                                            *)
THEOREM CountNeverNegative == Spec => []AssertedCount
<1>1. BarrierInv => AssertedCount
  <2> SUFFICES ASSUME BarrierInv PROVE reserved1 >= 0
    BY DEF BarrierInv, AssertedCount
  <2>1. PICK n \in 0..MaxPhases : RoundInv(n)
    BY DEF BarrierInv
  <2>2. CASE Live
    <3>1. n \in Nat
      BY <2>1, BoundsAssumption
    <3> QED
      BY <2>1, <2>2, <3>1, CountedIsFinite DEF RoundInv, Counter
  <2>3. CASE ~Live
    BY <2>1, <2>3 DEF RoundInv, Deleted
  <2> QED
    BY <2>2, <2>3
<1> QED
  BY <1>1, BarrierInvariant, PTL

(* Nobody returns from EnterSynchronizationBarrier before everybody has     *)
(* entered, in any phase, with any number of threads, whatever flags they   *)
(* use and whoever deletes the barrier.                                     *)
THEOREM NobodyReturnsEarly == Spec => []NoEarlyReturn
<1>1. BarrierInv => NoEarlyReturn
  <2> SUFFICES ASSUME BarrierInv PROVE NoEarlyReturn
    OBVIOUS
  <2>1. PICK n \in 0..MaxPhases : RoundInv(n)
    BY DEF BarrierInv
  <2>2. \A t \in Threads : passed[t] <= n /\ n <= entered[t] /\ passed[t] \in Nat
                           /\ entered[t] \in Nat
    BY <2>1, BoundsAssumption
    DEF BarrierInv, TypeOK, RoundInv, Places, NotCounted, InRound, Lagging
  <2> QED
    BY <2>1, <2>2, BoundsAssumption DEF NoEarlyReturn
<1> QED
  BY <1>1, BarrierInvariant, PTL

(* Of the calls of each phase exactly one returns TRUE. *)
THEOREM OneReturnsTrue == Spec => []OneSerialThread
<1>1. BarrierInv => OneSerialThread
  <2> SUFFICES ASSUME BarrierInv, NEW m \in 0..MaxPhases, \A t \in Threads : passed[t] = m
               PROVE  wins = m
    BY DEF OneSerialThread
  <2>1. PICK n \in 0..MaxPhases : RoundInv(n)
    BY DEF BarrierInv
  <2>2. CASE \E t \in Threads : Signaller(t)
    BY <2>1, <2>2, BoundsAssumption
    DEF RoundInv, Places, Winners, NotCounted, InRound, Lagging, Flipping, Signaller
  <2>3. CASE \A t \in Threads : ~Signaller(t)
    BY <2>1, <2>3, BoundsAssumption, ThreadsAssumption
    DEF RoundInv, Places, Winners, NotCounted, InRound, Lagging
  <2> QED
    BY <2>2, <2>3
<1> QED
  BY <1>1, BarrierInvariant, PTL

(* If the barrier is deleted only after a phase in which all callers block, *)
(* then no thread is left on an event that is closed and was never set.     *)
(* The run barrier_delete shows that the hypothesis is needed.              *)
THEOREM DeletedAfterBlockingIsSafe ==
  DeleteAfter \subseteq {"blockOnly"} => (Spec => []SafeToDelete)
<1> SUFFICES ASSUME DeleteAfter \subseteq {"blockOnly"} PROVE Spec => []SafeToDelete
  OBVIOUS
<1>1. BarrierInv => SafeToDelete
  <2> SUFFICES ASSUME BarrierInv, NEW t \in Threads, pc[t] = "blocked"
               PROVE  hCurrent[t] \in signalled \cup open
    BY DEF SafeToDelete
  <2>1. PICK n \in 0..MaxPhases : RoundInv(n)
    BY DEF BarrierInv
  <2>2. CASE Live
    BY <2>1, <2>2, OtherEvent
    DEF RoundInv, Places, Handles, NotCounted, InRound, Lagging, Flipping
  <2>3. CASE ~Live
    BY <2>1, <2>3 DEF RoundInv, Deleted
  <2> QED
    BY <2>2, <2>3
<1> QED
  BY <1>1, BarrierInvariant, PTL
=============================================================================
