-------------------------- MODULE MCWaitOnAddress --------------------------
(* WaitOnAddress for model checking: two locations that share a bucket.  A  *)
(* behaviour is one of a program that is chosen at the start: the calls of  *)
(* each thread and the values that the locations take.                      *)
EXTENDS WaitOnAddress

CONSTANTS A1, A2, t1, t2, t3, t4, Programs

VARIABLE program

OneBucket == [x \in {A1, A2} |-> 1]
AnyCalls == [t \in Threads |-> Operations \X Addresses]

Prog(calls, values) == [calls |-> calls, values |-> values]
Four(a, b, c, d) ==
    [t \in Threads |-> CASE t = t1 -> a [] t = t2 -> b [] t = t3 -> c [] OTHER -> d]

(* Three waiters, with and without time-out, and a thread that wakes. *)
ThreeWaiters ==
    Prog(Four({"wait", "timedWait"} \X {A1}, {"wait"} \X {A1, A2},
              {"timedWait"} \X {A1, A2}, {"single", "all"} \X {A1, A2}), {0})

(* One waiter for each location, and two threads that change both. *)
OneWaiterEach ==
    LET wakes == {"single", "all"} \X {A1, A2}
    IN Prog(Four({"wait", "timedWait"} \X {A1}, {<<"wait", A2>>}, wakes, wakes), {0, 1})

(* Two waiters for one location, changed by a thread that wakes them all. *)
TwoWaiters ==
    Prog(Four({<<"wait", A1>>}, {<<"wait", A1>>}, {<<"all", A1>>}, {}), {0, 1})

AllWaiters == {ThreeWaiters, OneWaiterEach}
WakesAll == {TwoWaiters}

MCInit == Init /\ program \in Programs /\ mem \in [Addresses -> program.values]

MCNext ==
    /\ Next
    /\ \A t \in Threads : pc[t] = "idle" /\ pc'[t] # "idle" =>
         arg'[t] \in program.calls[t] /\ compare'[t] \in program.values \cup {Nil}
    /\ mem' \in [Addresses -> program.values]
    /\ UNCHANGED program

MCSpec == MCInit /\ [][MCNext]_<<vars, program>>
MCFairSpec == MCSpec /\ Fairness
=============================================================================
