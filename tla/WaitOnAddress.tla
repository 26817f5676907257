--------------------------- MODULE WaitOnAddress ---------------------------
(***************************************************************************)
(* RtlWaitOnAddress, RtlWakeAddressSingle and RtlWakeAddressAll            *)
(* (ntext/rtl/synch.c).  Waiters put a block that lives on their stack     *)
(* into the circular list of the hash bucket of their address; the list is *)
(* only touched under the bucket's SRW lock.  A thread waits once at a     *)
(* time, so its block is named after it.                                   *)
(*                                                                         *)
(* A section under the lock that no other thread can see into is one step. *)
(* The loop of RtlpWakeByAddress is not: the waiter it signals returns,    *)
(* and its block disappears, while the loop goes on.                       *)
(***************************************************************************)
EXTENDS Naturals, Sequences, FiniteSets

CONSTANTS Threads,
          Nil,          \* NULL
          Addresses,
          HashBucket,   \* KexRtlpGetWoaHashBucket: the bucket of an address
          Values,       \* what a watched location may hold
          Calls         \* Calls[t]: the <<operation, address>> pairs t may call

Operations == {"wait", "timedWait", "single", "all"}
Buckets == {HashBucket[a] : a \in Addresses}

ASSUME NilIsNoThread == Nil \notin Threads
ASSUME HashBucketAssumption == HashBucket \in [Addresses -> Buckets]
ASSUME CallsAssumption == Calls \in [Threads -> SUBSET (Operations \X Addresses)]
ASSUME ValuesAssumption == Values # {}

VARIABLES mem,          \* mem[a]: the watched locations
          lock,         \* lock[b]: the thread inside the bucket's lock, or Nil
          waitBlocks,   \* waitBlocks[b]: HashBucket->WaitBlocks
          next,         \* next[t], previous[t]: the links of t's block
          previous,
          event,        \* event[t]: t's event: "none" once closed
          pc,
          arg,          \* arg[t]: t's operation and address
          compare,      \* compare[t]: *CompareAddress
          cur           \* cur[t]: WaitBlock of the loop in RtlpWakeByAddress

vars == <<mem, lock, waitBlocks, next, previous, event, pc, arg, compare, cur>>
links == <<waitBlocks, next, previous>>

NoCall == <<"none", Nil>>
Address(t) == arg[t][2]
Bucket(t) == HashBucket[Address(t)]

Init == /\ mem \in [Addresses -> Values]
        /\ lock = [b \in Buckets |-> Nil]
        /\ waitBlocks = [b \in Buckets |-> Nil]
        /\ next = [t \in Threads |-> Nil]
        /\ previous = [t \in Threads |-> Nil]
        /\ event = [t \in Threads |-> "none"]
        /\ pc = [t \in Threads |-> "idle"]
        /\ arg = [t \in Threads |-> NoCall]
        /\ compare = [t \in Threads |-> Nil]
        /\ cur = [t \in Threads |-> Nil]

Goto(t, l) == pc' = [pc EXCEPT ![t] = l]

(* The call returns; its locals are gone. *)
Return(t) == /\ Goto(t, "idle")
             /\ arg' = [arg EXCEPT ![t] = NoCall]
             /\ compare' = [compare EXCEPT ![t] = Nil]
             /\ cur' = [cur EXCEPT ![t] = Nil]

-----------------------------------------------------------------------------
(* KexRtlpRemoveWoaWaitBlock: what it leaves in the bucket and the links.   *)
(* A block whose Previous is NULL is already off the list.                  *)

(* Fault: a block may be taken off the list twice. *)
NeverUnlinked(w) == FALSE

Unlinked(w) == previous[w] = Nil
Alone(w) == next[w] = w

HeadWithout(b, w) ==
    IF Unlinked(w) THEN waitBlocks[b]
    ELSE IF Alone(w) THEN Nil
    ELSE IF waitBlocks[b] = w THEN next[w] ELSE waitBlocks[b]

NextWithout(w) ==
    IF Unlinked(w) \/ Alone(w) THEN next
    ELSE [next EXCEPT ![previous[w]] = next[w]]

PreviousWithout(w) ==
    IF Unlinked(w) \/ Alone(w) THEN previous
    ELSE [previous EXCEPT ![next[w]] = previous[w]]

-----------------------------------------------------------------------------
(* RtlWaitOnAddress                                                         *)

RtlWaitOnAddress(t) ==
    /\ pc[t] = "idle"
    /\ \E c \in Calls[t], v \in Values :
        /\ c[1] \in {"wait", "timedWait"}
        /\ arg' = [arg EXCEPT ![t] = c]
        /\ compare' = [compare EXCEPT ![t] = v]
    /\ Goto(t, "enter")
    /\ UNCHANGED <<mem, lock, links, event, cur>>

(* Under the lock: the values differ. *)
ValuesDiffer(t) ==
    /\ pc[t] = "enter"
    /\ lock[Bucket(t)] = Nil
    /\ mem[Address(t)] # compare[t]
    /\ Return(t)
    /\ UNCHANGED <<mem, lock, links, event>>

(* Under the lock: the values are the same, but NtCreateEvent fails. *)
NoEvent(t) ==
    /\ pc[t] = "enter"
    /\ lock[Bucket(t)] = Nil
    /\ mem[Address(t)] = compare[t]
    /\ Return(t)
    /\ UNCHANGED <<mem, lock, links, event>>

(* Fault: the block goes to the front. *)
AddToFront(t) ==
    LET b == Bucket(t)
        h == waitBlocks[b]
    IN  /\ waitBlocks' = [waitBlocks EXCEPT ![b] = t]
        /\ IF h = Nil
             THEN /\ previous' = [previous EXCEPT ![t] = t]
                  /\ next' = [next EXCEPT ![t] = t]
             ELSE /\ previous' = [previous EXCEPT ![t] = previous[h], ![h] = t]
                  /\ next' = [next EXCEPT ![t] = h, ![previous[h]] = t]

(* Add the block to the end of the list. *)
AddToList(t) ==
    LET b == Bucket(t)
        h == waitBlocks[b]
    IN  IF h = Nil
          THEN /\ waitBlocks' = [waitBlocks EXCEPT ![b] = t]
               /\ previous' = [previous EXCEPT ![t] = t]
               /\ next' = [next EXCEPT ![t] = t]
          ELSE /\ previous' = [previous EXCEPT ![t] = previous[h], ![h] = t]
               /\ next' = [next EXCEPT ![t] = h, ![previous[h]] = t]
               /\ UNCHANGED waitBlocks

(* Under the lock: the values are the same; create the event, join the list. *)
StartWait(t) ==
    /\ pc[t] = "enter"
    /\ lock[Bucket(t)] = Nil
    /\ mem[Address(t)] = compare[t]
    /\ event' = [event EXCEPT ![t] = "clear"]
    /\ AddToList(t)
    /\ Goto(t, "waiting")
    /\ UNCHANGED <<mem, lock, arg, compare, cur>>

(* The event is closed and the block gone; n and p are the links before. *)
LeaveWait(t, n, p) == /\ event' = [event EXCEPT ![t] = "none"]
                      /\ next' = [n EXCEPT ![t] = Nil]
                      /\ previous' = [p EXCEPT ![t] = Nil]
                      /\ Return(t)

WaitSatisfied(t) ==
    /\ pc[t] = "waiting"
    /\ event[t] = "set"
    /\ LeaveWait(t, next, previous)
    /\ UNCHANGED <<mem, lock, waitBlocks>>

WaitTimesOut(t) ==
    /\ pc[t] = "waiting"
    /\ event[t] = "clear"
    /\ arg[t][1] = "timedWait"
    /\ Goto(t, "timedOut")
    /\ UNCHANGED <<mem, lock, links, event, arg, compare, cur>>

RemoveTimedOut(t) ==
    /\ pc[t] = "timedOut"
    /\ lock[Bucket(t)] = Nil
    /\ waitBlocks' = [waitBlocks EXCEPT ![Bucket(t)] = HeadWithout(Bucket(t), t)]
    /\ LeaveWait(t, NextWithout(t), PreviousWithout(t))
    /\ UNCHANGED <<mem, lock>>

-----------------------------------------------------------------------------
(* RtlpWakeByAddress, by a thread that has changed the location first       *)

StoreAndWake(t) ==
    /\ pc[t] = "idle"
    /\ \E c \in Calls[t] :
        /\ c[1] \in {"single", "all"}
        /\ arg' = [arg EXCEPT ![t] = c]
        /\ \E v \in Values : mem' = [mem EXCEPT ![c[2]] = v]
    /\ Goto(t, "wake")
    /\ UNCHANGED <<lock, links, event, compare, cur>>

RtlpWakeByAddress(t) ==
    LET b == Bucket(t)
    IN  /\ pc[t] = "wake"
        /\ lock[b] = Nil
        /\ IF waitBlocks[b] = Nil
             THEN Return(t) /\ UNCHANGED lock
             ELSE /\ lock' = [lock EXCEPT ![b] = t]
                  /\ cur' = [cur EXCEPT ![t] = waitBlocks[b]]
                  /\ Goto(t, "walk")
                  /\ UNCHANGED <<arg, compare>>
        /\ UNCHANGED <<mem, links, event>>

EndWake(t) == lock' = [lock EXCEPT ![Bucket(t)] = Nil] /\ Return(t)

(* Fault: an emptied list is not noticed. *)
AdvanceToNext(t, n, h) ==
    IF n = h THEN EndWake(t)
    ELSE cur' = [cur EXCEPT ![t] = n] /\ UNCHANGED <<lock, pc, arg, compare>>

(* The end of an iteration: n is NextWaitBlock, h the bucket's WaitBlocks. *)
Advance(t, n, h) ==
    IF h = Nil \/ n = h THEN EndWake(t)
    ELSE cur' = [cur EXCEPT ![t] = n] /\ UNCHANGED <<lock, pc, arg, compare>>

(* Fault: a block of another address ends the search. *)
WakeSkipStops(t) ==
    /\ pc[t] = "walk" /\ cur[t] # Nil
    /\ Address(cur[t]) # Address(t)
    /\ EndWake(t)
    /\ UNCHANGED <<mem, links, event>>

WakeSkip(t) ==
    LET w == cur[t]
    IN  /\ pc[t] = "walk" /\ w # Nil
        /\ Address(w) # Address(t)
        /\ Advance(t, next[w], waitBlocks[Bucket(t)])
        /\ UNCHANGED <<mem, links, event>>

(* Take the block off the list, mark it so, set its event. *)
WakeOne(t) ==
    LET w == cur[t]
        b == Bucket(t)
    IN  /\ pc[t] = "walk" /\ w # Nil
        /\ Address(w) = Address(t)
        /\ waitBlocks' = [waitBlocks EXCEPT ![b] = HeadWithout(b, w)]
        /\ next' = NextWithout(w)
        /\ previous' = [PreviousWithout(w) EXCEPT ![w] = Nil]
        /\ event' = [event EXCEPT ![w] = "set"]
        /\ IF arg[t][1] = "single" THEN EndWake(t)
           ELSE Advance(t, next[w], HeadWithout(b, w))
        /\ UNCHANGED mem

-----------------------------------------------------------------------------

Call(t) == RtlWaitOnAddress(t) \/ StoreAndWake(t)
LockStep(t) == \/ ValuesDiffer(t) \/ NoEvent(t) \/ StartWait(t)
               \/ RemoveTimedOut(t) \/ RtlpWakeByAddress(t)
Step(t) == WaitSatisfied(t) \/ WakeSkip(t) \/ WakeOne(t)

Next == \E t \in Threads : \/ Call(t) \/ LockStep(t) \/ Step(t)
                           \/ WaitTimesOut(t)

(* A thread in a call keeps running, and one that wants a bucket's lock     *)
(* gets it in the end.                                                      *)
Spec == Init /\ [][Next]_vars
Fairness == \A t \in Threads : WF_vars(Step(t)) /\ SF_vars(LockStep(t))

-----------------------------------------------------------------------------

(* Every variable has its type, and an event is open exactly while its      *)
(* thread waits: every way out of RtlWaitOnAddress closes it.               *)
TypeOK == /\ mem \in [Addresses -> Values]
          /\ lock \in [Buckets -> Threads \cup {Nil}]
          /\ waitBlocks \in [Buckets -> Threads \cup {Nil}]
          /\ next \in [Threads -> Threads \cup {Nil}]
          /\ previous \in [Threads -> Threads \cup {Nil}]
          /\ event \in [Threads -> {"none", "clear", "set"}]
          /\ pc \in [Threads -> {"idle", "enter", "waiting", "timedOut", "wake", "walk"}]
          /\ arg \in [Threads -> (Operations \X Addresses) \cup {NoCall}]
          /\ compare \in [Threads -> Values \cup {Nil}]
          /\ cur \in [Threads -> Threads \cup {Nil}]
          /\ \A t \in Threads : event[t] # "none" <=> pc[t] \in {"waiting", "timedOut"}

(* The blocks that wait to be woken, of bucket b. *)
Linked(b) == {t \in Threads : event[t] = "clear" /\ Bucket(t) = b}

(* The list of bucket b in the order RtlpWakeByAddress walks it. *)
ListOf(b) ==
    LET n == Cardinality(Linked(b))
        At[i \in 1..n] == IF i = 1 THEN waitBlocks[b]
                          ELSE IF At[i-1] = Nil THEN Nil ELSE next[At[i-1]]
    IN  At

(* The list of a bucket is one ring of exactly the blocks whose event has   *)
(* not been set, whatever adds, wakes and time-outs raced: no block of a    *)
(* returned call is on it, none is taken off twice, no part of it is cut    *)
(* off from the rest, and every way out of the call closes its event        *)
(* (TypeOK).                                                                *)
RingOfWaiters ==
    /\ TypeOK
    /\ \A b \in Buckets :
         /\ waitBlocks[b] \in Linked(b) \/ (waitBlocks[b] = Nil /\ Linked(b) = {})
         /\ \A t \in Linked(b) : /\ next[t] \in Linked(b) /\ previous[next[t]] = t
                                 /\ previous[t] \in Linked(b) /\ next[previous[t]] = t
         /\ \A part \in SUBSET Linked(b) :
               part # {} /\ (\A t \in part : next[t] \in part) => part = Linked(b)

(* RtlpWakeByAddress only looks at blocks on the list it has locked, so it  *)
(* never reads a stack frame that is gone nor sets a closed event.          *)
WalkStaysOnList ==
    \A t \in Threads : pc[t] = "walk" => lock[Bucket(t)] = t /\ cur[t] \in Linked(Bucket(t))

(* Nobody keeps waiting for a value that has been replaced: once the        *)
(* threads that changed a location have made their wake call, no waiter     *)
(* that compared against another value is left.                             *)
NoStaleWaiter ==
    \A t \in Threads :
        pc[t] = "waiting" /\ event[t] = "clear" /\ compare[t] # mem[Address(t)]
        => \E u \in Threads : pc[u] \in {"wake", "walk"} /\ Address(u) = Address(t)

(* The list implements a first-in first-out queue per address. *)
Queues == INSTANCE AddressQueues
            WITH queue <- [a \in Addresses |->
                             SelectSeq(ListOf(HashBucket[a]), LAMBDA t : Address(t) = a)],
                 woken <- {t \in Threads : event[t] = "set"}
ImplementsQueues == Queues!Spec

(* A waiter whose value has been replaced returns. *)
StaleWaiterReturns ==
    \A t \in Threads : (pc[t] = "waiting" /\ compare[t] # mem[Address(t)]) ~> pc[t] = "idle"
=============================================================================
