--------------------------- MODULE AddressQueues ---------------------------
(***************************************************************************)
(* What WaitOnAddress and WakeByAddress* promise: the waiters of an        *)
(* address form a queue of its own, a wake takes the one that first        *)
(* started waiting, and a waiter may give up wherever it is.  That several *)
(* addresses share a bucket cannot be seen.                                *)
(***************************************************************************)
EXTENDS Naturals, Sequences

CONSTANTS Threads, Addresses

VARIABLES queue,   \* queue[a]: the waiters of a, oldest first
          woken    \* waiters that a wake has chosen and that have not returned

vars == <<queue, woken>>

Init == queue = [a \in Addresses |-> <<>>] /\ woken = {}

Wait(t, a) == /\ \A b \in Addresses : \A i \in DOMAIN queue[b] : queue[b][i] # t
              /\ t \notin woken
              /\ queue' = [queue EXCEPT ![a] = Append(@, t)]
              /\ UNCHANGED woken

Wake(a) == /\ queue[a] # <<>>
           /\ queue' = [queue EXCEPT ![a] = Tail(@)]
           /\ woken' = woken \cup {Head(queue[a])}

GiveUp(t, a) == /\ \E i \in DOMAIN queue[a] : queue[a][i] = t
                /\ queue' = [queue EXCEPT ![a] = SelectSeq(@, LAMBDA u : u # t)]
                /\ UNCHANGED woken

Return(t) == t \in woken /\ woken' = woken \ {t} /\ UNCHANGED queue

Next == \/ \E t \in Threads, a \in Addresses : Wait(t, a) \/ GiveUp(t, a)
        \/ \E a \in Addresses : Wake(a)
        \/ \E t \in Threads : Return(t)

Spec == Init /\ [][Next]_vars
=============================================================================
