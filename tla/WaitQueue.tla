----------------------------- MODULE WaitQueue -----------------------------
(* The global wait queue of the thread pool: buckets of wait objects, each  *)
(* with a thread that waits for their handles.  The references the threads  *)
(* take, and the callbacks they submit, are added by the composing module.  *)
EXTENDS Clock, FiniteSets

CONSTANTS
    Waits,       \* the wait objects
    Buckets,     \* identities of buckets: bounds the buckets alive at once
    Handles,     \* auto-reset events of the program
    NoBucket,    \* NULL
    MaxInBucket, \* MAXIMUM_WAITQUEUE_OBJECTS
    MaxSignals   \* bound on the times each event is set

ASSUME WaitConstants ==
    /\ IsFiniteSet(Buckets) /\ NoBucket \notin Buckets \cup Handles
    /\ MaxInBucket \in Nat \ {0} /\ MaxSignals \in Nat

VARIABLES
    wait,        \* u.wait and update_serial of each wait object
    bucket,      \* struct waitqueue_bucket, with its thread
    buckets,     \* waitqueue.buckets
    event        \* the program's events: set or not, and how often set

waitVars == <<wait, bucket, buckets, event>>

NoWait == [bucket |-> NoBucket, pending |-> FALSE, timeout |-> 0, handle |-> NoBucket,
           duped |-> NoBucket, serial |-> 0]
NewBucket == [pc |-> "none", objcount |-> 0, reserved |-> <<>>, waiting |-> <<>>,
              update |-> FALSE, held |-> <<>>, hit |-> 0]

WaitInit ==
    /\ wait = [o \in Waits |-> NoWait]
    /\ bucket = [b \in Buckets |-> NewBucket]
    /\ buckets = <<>>
    /\ event = [h \in Handles |-> [set |-> FALSE, sent |-> 0]]

(* A bucket's thread owns waitqueue.cs from the return of its wait, when it *)
(* could take it, to the next one.                                          *)
WaitCsFree == \A b \in Buckets : bucket[b].pc \notin {"scan", "drop"}

(* Fault: the thread is not told. *)
NotUpdated(c) == c

(* NtSetEvent of the bucket's update_event. *)
Updated(c) == [c EXCEPT !.update = TRUE]

(* Fault: the object stays on the waiting list. *)
KeptWaiting(c, o) == [c EXCEPT !.reserved = Append(Without(@, {o}), o)]

(* Bucket c with o moved to its reserved or to its waiting list. *)
ToReserved(c, o) == [c EXCEPT !.waiting = Without(@, {o}), !.reserved = Append(Without(@, {o}), o)]
ToWaiting(c, o) == [c EXCEPT !.reserved = Without(@, {o}), !.waiting = Append(Without(@, {o}), o)]

(* The first bucket with room, or a new one and its thread. *)
tp_waitqueue_lock(o) ==
    LET Room == {i \in DOMAIN buckets : bucket[buckets[i]].objcount < MaxInBucket}
        first == CHOOSE i \in Room : \A j \in Room : i <= j
        Join(b, c) == /\ bucket' = [bucket EXCEPT ![b] = [ToReserved(c, o) EXCEPT !.objcount = @ + 1]]
                      /\ wait' = [wait EXCEPT ![o] = [NoWait EXCEPT !.bucket = b]]
    IN /\ WaitCsFree
       /\ \/ Room # {} /\ Join(buckets[first], bucket[buckets[first]]) /\ UNCHANGED buckets
          \/ /\ Room = {}
             /\ \E b \in Buckets : bucket[b].pc = "none"
             /\ LET b == CHOOSE b \in Buckets : bucket[b].pc = "none" IN
                /\ Join(b, [NewBucket EXCEPT !.pc = "start"])
                /\ buckets' = Append(buckets, b)
       /\ UNCHANGED event

(* For the wait objects of S, which are shut down together.  Nothing reads  *)
(* the rest of u.wait once the bucket is NULL.                              *)
tp_waitqueue_unlock(S) ==
    /\ S # {} => WaitCsFree
    /\ bucket' = [b \in Buckets |->
         LET Mine == {o \in S : wait[o].bucket = b}
         IN IF Mine = {} THEN bucket[b]
            ELSE Updated([bucket[b] EXCEPT !.waiting = Without(@, Mine),
                            !.reserved = Without(@, Mine),
                            !.objcount = @ - Cardinality(Mine)])]
    /\ wait' = [o \in Waits |-> IF o \in S THEN NoWait ELSE wait[o]]
    /\ UNCHANGED <<buckets, event>>

(* h is NoBucket to disarm.  u.wait.handle is compared and never assigned.  *)
TpSetWaitEx(o, h, delay) ==
    LET b == wait[o].bucket
        w == [wait[o] EXCEPT !.duped = h]
    IN /\ WaitCsFree /\ b # NoBucket
       /\ IF h = NoBucket /\ ~wait[o].pending
            THEN wait' = [wait EXCEPT ![o] = w] /\ UNCHANGED bucket
          ELSE /\ wait' = [wait EXCEPT ![o] =
                    [w EXCEPT !.pending = h # NoBucket,
                       !.timeout = IF h = NoBucket THEN @
                                   ELSE IF delay = Never THEN Never ELSE now + delay,
                       !.serial = IF wait[o].handle = h THEN @ ELSE @ + 1]]
               /\ bucket' = [bucket EXCEPT ![b] =
                    Updated(IF h = NoBucket THEN ToReserved(@, o) ELSE ToWaiting(@, o))]
       /\ UNCHANGED <<buckets, event>>

SetEvent(h) ==
    /\ event[h].sent < MaxSignals
    /\ event' = [event EXCEPT ![h].set = TRUE, ![h].sent = @ + 1]
    /\ UNCHANGED <<wait, bucket, buckets>>

-----------------------------------------------------------------------------
(* waitqueue_thread_proc *)

WaitThreadStarts(b) ==
    /\ bucket[b].pc = "start" /\ WaitCsFree
    /\ bucket' = [bucket EXCEPT ![b].pc = "scan"]
    /\ UNCHANGED <<wait, buckets, event>>

Elapsed(b) == {i \in DOMAIN bucket[b].waiting : wait[bucket[b].waiting[i]].timeout <= now}
ElapsedWait(b) == bucket[b].waiting[CHOOSE i \in Elapsed(b) : \A j \in Elapsed(b) : i <= j]

(* A wait object timed out: it is submitted. *)
WaitElapses(b) ==
    /\ bucket[b].pc = "scan" /\ Elapsed(b) # {}
    /\ bucket' = [bucket EXCEPT ![b] = ToReserved(@, ElapsedWait(b))]
    /\ wait' = [wait EXCEPT ![ElapsedWait(b)].pending = FALSE]
    /\ UNCHANGED <<buckets, event>>

(* The thread waits: for the handles it holds references for, or for a last *)
(* period if the bucket is empty.                                           *)
WaitThreadBlocks(b) ==
    /\ bucket[b].pc = "scan" /\ Elapsed(b) = {}
    /\ bucket' = [bucket EXCEPT ![b] =
         IF @.objcount = 0 THEN [@ EXCEPT !.pc = "linger"]
         ELSE [@ EXCEPT !.pc = "block", !.held =
                 [i \in DOMAIN bucket[b].waiting |->
                    LET o == bucket[b].waiting[i] IN
                    [obj |-> o, handle |-> wait[o].duped, serial |-> wait[o].serial,
                     timeout |-> wait[o].timeout]]]]
    /\ UNCHANGED <<wait, buckets, event>>

SetHandles(b) == {i \in DOMAIN bucket[b].held : event[bucket[b].held[i].handle].set}

(* NtWaitForMultipleObjects returns: the first handle that is set, then the *)
(* update event, then a time-out.  Nothing is locked yet.                   *)
WaitThreadWakes(b) ==
    /\ bucket[b].pc \in {"block", "linger"}
    /\ \/ /\ SetHandles(b) # {}
          /\ LET i == CHOOSE i \in SetHandles(b) : \A j \in SetHandles(b) : i <= j IN
             /\ bucket' = [bucket EXCEPT ![b].pc = "back", ![b].hit = i]
             /\ event' = [event EXCEPT ![bucket[b].held[i].handle].set = FALSE]
       \/ /\ SetHandles(b) = {} /\ bucket[b].update
          /\ bucket' = [bucket EXCEPT ![b].pc = "back", ![b].update = FALSE]
          /\ UNCHANGED event
       \/ /\ SetHandles(b) = {} /\ ~bucket[b].update
          /\ \/ bucket[b].pc = "linger"
             \/ \E i \in DOMAIN bucket[b].held : bucket[b].held[i].timeout <= now
          /\ bucket' = [bucket EXCEPT ![b].pc = IF @ = "linger" THEN "late" ELSE "back"]
          /\ UNCHANGED event
    /\ UNCHANGED <<wait, buckets>>

(* What the thread was woken for, if that still stands. *)
HitObject(b) == bucket[b].held[bucket[b].hit].obj

(* Fault: the serials are not compared. *)
FiresAnyway(b) ==
    /\ bucket[b].pc = "back" /\ bucket[b].hit > 0
    /\ wait[HitObject(b)].bucket # NoBucket

Fires(b) ==
    /\ bucket[b].pc = "back" /\ bucket[b].hit > 0
    /\ wait[HitObject(b)].bucket # NoBucket
    /\ wait[HitObject(b)].serial = bucket[b].held[bucket[b].hit].serial

WaitFires(b) ==
    /\ Fires(b) /\ WaitCsFree
    /\ bucket' = [bucket EXCEPT ![b] = [ToReserved(@, HitObject(b)) EXCEPT !.pc = "drop", !.hit = 0]]
    /\ wait' = [wait EXCEPT ![HitObject(b)].pending = FALSE]
    /\ UNCHANGED <<buckets, event>>

WaitReturns(b) ==
    /\ bucket[b].pc \in {"back", "late"} /\ ~Fires(b) /\ WaitCsFree
    /\ bucket[b].pc = "late" => bucket[b].objcount > 0
    /\ bucket' = [bucket EXCEPT ![b].pc = "drop", ![b].hit = 0]
    /\ UNCHANGED <<wait, buckets, event>>

LastHeld(b) == bucket[b].held[Len(bucket[b].held)].obj

(* The reference of the last object held is released. *)
WaitThreadDrops(b) ==
    /\ bucket[b].pc = "drop" /\ bucket[b].held # <<>>
    /\ bucket' = [bucket EXCEPT ![b].held = SubSeq(@, 1, Len(@) - 1)]
    /\ UNCHANGED <<wait, buckets, event>>

(* A bucket that is a third full moves its objects to another one, if that  *)
(* leaves room for a third again.                                           *)
Takers(b) ==
    {i \in DOMAIN buckets :
       LET c == buckets[i] IN
       /\ c # b /\ bucket[c].objcount > 0
       /\ bucket[c].objcount + bucket[b].objcount <= (MaxInBucket * 2) \div 3}

(* What the two become. *)
Joined(c, b) ==
    Updated([bucket[c] EXCEPT !.objcount = @ + bucket[b].objcount,
               !.reserved = @ \o bucket[b].reserved, !.waiting = @ \o bucket[b].waiting])
Emptied(b) ==
    [bucket[b] EXCEPT !.objcount = 0, !.reserved = <<>>, !.waiting = <<>>, !.pc = "scan"]

WaitThreadMerges(b) ==
    /\ bucket[b].pc = "drop" /\ bucket[b].held = <<>>
    /\ IF Takers(b) # {} /\ bucket[b].objcount > 0 /\ bucket[b].objcount <= MaxInBucket \div 3
         THEN LET c == buckets[CHOOSE i \in Takers(b) : \A j \in Takers(b) : i <= j] IN
              /\ bucket' = [bucket EXCEPT ![c] = Joined(c, b), ![b] = Emptied(b)]
              /\ wait' = [o \in Waits |-> IF wait[o].bucket = b THEN [wait[o] EXCEPT !.bucket = c]
                                                                ELSE wait[o]]
              /\ buckets' = Append(Without(buckets, {b}), b)
         ELSE /\ bucket' = [bucket EXCEPT ![b].pc = "scan"]
              /\ UNCHANGED <<wait, buckets>>
    /\ UNCHANGED event

WaitThreadEnds(b) ==
    /\ bucket[b].pc = "late" /\ bucket[b].objcount = 0 /\ WaitCsFree
    /\ bucket' = [bucket EXCEPT ![b] = NewBucket]
    /\ buckets' = Without(buckets, {b})
    /\ UNCHANGED <<wait, event>>

(* Steps that leave the objects of the pool alone. *)
WaitThreadStep(b) ==
    WaitThreadStarts(b) \/ WaitThreadWakes(b) \/ WaitReturns(b) \/ WaitThreadMerges(b)
      \/ WaitThreadEnds(b)

-----------------------------------------------------------------------------
HeldRecord == [obj : Waits, handle : Handles, serial : Nat, timeout : Nat]

(* Types: of the wait queue. *)
WaitTypeOK ==
    /\ wait \in [Waits -> [bucket : Buckets \cup {NoBucket}, pending : BOOLEAN, timeout : Nat,
                           handle : {NoBucket}, duped : Handles \cup {NoBucket}, serial : Nat]]
    /\ bucket \in [Buckets ->
         [pc : {"none", "start", "scan", "linger", "block", "back", "late", "drop"},
          objcount : 0..MaxInBucket, reserved : Seq(Waits), waiting : Seq(Waits),
          update : BOOLEAN, held : Seq(HeldRecord), hit : Nat]]
    /\ buckets \in Seq(Buckets)
    /\ event \in [Handles -> [set : BOOLEAN, sent : Nat]]

(* A wait object is on one list of the bucket it names, once, the waiting   *)
(* one exactly while it is armed, and on none of another; objcount counts   *)
(* them, merges and removals included; a bucket on the list has a thread.   *)
BucketsSound ==
    \A b \in Buckets :
      LET all == bucket[b].reserved \o bucket[b].waiting
          Mine == {o \in Waits : wait[o].bucket = b}
      IN /\ {all[i] : i \in DOMAIN all} = Mine
         /\ {bucket[b].waiting[i] : i \in DOMAIN bucket[b].waiting} = {o \in Mine : wait[o].pending}
         /\ Len(all) = Cardinality(Mine) /\ bucket[b].objcount = Len(all)
         /\ (bucket[b].pc = "none") <=> \A i \in DOMAIN buckets : buckets[i] # b

(* No thread stays blocked on handles its bucket no longer waits for, and   *)
(* none misses one it should wait for: a change since it blocked has set    *)
(* the update event.                                                        *)
NoStaleHandles ==
    \A b \in Buckets : bucket[b].pc = "block" /\ ~bucket[b].update =>
      /\ Len(bucket[b].held) = Len(bucket[b].waiting)
      /\ \A i \in DOMAIN bucket[b].held :
           LET o == bucket[b].waiting[i] IN
           bucket[b].held[i] = [obj |-> o, handle |-> wait[o].duped,
                                serial |-> wait[o].serial, timeout |-> wait[o].timeout]

(* The wait queue and its threads agree on what is waited for, while waits  *)
(* are set, fire, time out, are released and move between buckets.          *)
WaitQueueSound == BucketsSound /\ NoStaleHandles
=============================================================================
