------------------------------- MODULE RwLock -------------------------------
(***************************************************************************)
(* What a reader/writer lock promises its callers: at any time one         *)
(* exclusive owner or any number of shared owners, a thread that asked in  *)
(* one mode is granted that mode, a blocking request is never given up,    *)
(* and an owner keeps the lock until it releases it.                       *)
(***************************************************************************)
CONSTANT Threads

VARIABLE mode   \* what each thread has, or is waiting for

Modes == {"none", "wantX", "wantS", "tryS", "X", "S"}
Init == mode = [t \in Threads |-> "none"]

Become(t, m) == mode' = [mode EXCEPT ![t] = m]

Request(t) == /\ mode[t] = "none"
              /\ \E m \in {"wantX", "wantS", "tryS"} : Become(t, m)

AcquireX(t) == /\ mode[t] \in {"none", "wantX"}
               /\ \A u \in Threads : mode[u] \notin {"X", "S"}
               /\ Become(t, "X")

AcquireS(t) == /\ mode[t] \in {"none", "wantS", "tryS"}
               /\ \A u \in Threads : mode[u] # "X"
               /\ Become(t, "S")

GiveUp(t) == mode[t] = "tryS" /\ Become(t, "none")

Release(t) == mode[t] \in {"X", "S"} /\ Become(t, "none")

Next == \E t \in Threads : \/ Request(t) \/ AcquireX(t) \/ AcquireS(t)
                           \/ GiveUp(t) \/ Release(t)

Spec == Init /\ [][Next]_mode
=============================================================================
