----------------------------- MODULE WorkItems -----------------------------
(* What a thread pool promises of its objects, without queues, workers and  *)
(* reference counts: a callback runs once for each submission that is not   *)
(* cancelled, an object takes submissions only while it is open, and its    *)
(* memory goes when it is closed and nothing of it is queued or running.    *)
EXTENDS Naturals

CONSTANT Items

VARIABLE item     \* item[o]: life, pending and running callbacks of o

ItemInit == item = [o \in Items |-> [life |-> "none", pending |-> 0, running |-> 0]]

Open(o) == /\ item[o].life = "none"
           /\ item' = [item EXCEPT ![o].life = "open"]

Submit(o) == /\ item[o].life = "open"
             /\ item' = [item EXCEPT ![o].pending = @ + 1]

Start(o) == /\ item[o].pending > 0
            /\ item' = [item EXCEPT ![o].pending = @ - 1, ![o].running = @ + 1]

(* A callback ends; an object of one submission closes with it. *)
Finish(o) == /\ item[o].running > 0
             /\ \E l \in {item[o].life, "closed"} :
                  item' = [item EXCEPT ![o].running = @ - 1, ![o].life = l]

Cancel(o) == /\ item[o].life \in {"open", "closed"}
             /\ item' = [item EXCEPT ![o].pending = 0]

Close(o) == /\ item[o].life = "open"
            /\ item' = [item EXCEPT ![o].life = "closed"]

Free(o) == /\ item[o] = [life |-> "closed", pending |-> 0, running |-> 0]
           /\ item' = [item EXCEPT ![o].life = "gone"]

ItemNext == \E o \in Items :
              /\ item'[o] # item[o]
              /\ \/ Open(o) \/ Submit(o) \/ Start(o) \/ Finish(o)
                 \/ Cancel(o) \/ Close(o) \/ Free(o)

ItemSpec == ItemInit /\ [][ItemNext]_item
=============================================================================
